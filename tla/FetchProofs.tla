----------------------------- MODULE FetchProofs -----------------------------
(***************************************************************************)
(* Theorems about what a fetch does with what comes from the network.      *)
(* ScrapeCrawl: for any site, any seeds and any limits, the walk asks for  *)
(* no page twice, keeps to its limits and, when it is not cut short, has   *)
(* asked for exactly the pages that are near enough.                       *)
(* ArchiveExtract: whatever entries an archive has, in whatever order, its *)
(* files are there once it has been extracted to the end.                  *)
(* Credentials: whatever the credentials file and the netrc file say, the  *)
(* first request carries the credential of its host and no other, and so   *)
(* does, but for the sensitive headers, what redirects make of it.         *)
(***************************************************************************)
EXTENDS ScrapeCrawl, ArchiveExtract, Credentials, DataLemmas, SequenceTheorems

(* The entries after each of the links, as Fresh makes them. *)
EntriesOf(urls, seen, depth, scope, f) ==
    f = [k \in 0..Len(urls) |->
            IF k = 0 THEN <<>>
            ELSE IF urls[k] \in scope /\ Norm(urls[k]) \notin seen \cup Norms(f[k - 1])
                 THEN Append(f[k - 1], [url |-> urls[k], depth |-> depth])
                 ELSE f[k - 1]]

(* No two entries are one normalized URL. *)
Distinct(entries) ==
    \A i, j \in 1..Len(entries) : Norm(entries[i].url) = Norm(entries[j].url) => i = j

LEMMA FreshIsLast ==
    ASSUME NEW urls \in Seq(Url), NEW seen, NEW depth, NEW scope
    PROVE  \E f : /\ EntriesOf(urls, seen, depth, scope, f)
                  /\ Fresh(urls, seen, depth, scope) = f[Len(urls)]
<1> DEFINE n == Len(urls)
           A == Seq([url : Url, depth : {depth}])
           Takes(k, e) == k \in 1..n /\ urls[k] \in scope /\ Norm(urls[k]) \notin seen \cup Norms(e)
           step == [p \in Nat \X A |->
                      IF Takes(p[1], p[2]) THEN Append(p[2], [url |-> urls[p[1]], depth |-> depth])
                      ELSE p[2]]
<1>1. n \in Nat /\ \A k \in 1..n : urls[k] \in Url
    OBVIOUS
<1>2. step \in [Nat \X A -> A]
    <2>1. SUFFICES ASSUME NEW k \in Nat, NEW e \in A, Takes(k, e)
                   PROVE  Append(e, [url |-> urls[k], depth |-> depth]) \in A
        OBVIOUS
    <2>2. [url |-> urls[k], depth |-> depth] \in [url : Url, depth : {depth}]
        BY <1>1, <2>1
    <2>3. QED
        BY <2>2
<1>3. <<>> \in A
    OBVIOUS
<1> HIDE DEF A
<1>4. PICK f \in [0..n -> A] : f[0] = <<>> /\ \A k \in 1..n : f[k] = step[<<k, f[k - 1]>>]
    <2> DEFINE none == <<>>
    <2>1. none \in A
        BY <1>3
    <2> HIDE DEF n, step, none
    <2>2. \E f \in [0..n -> A] : Recursion(none, step, n, f)
        BY <1>1, <1>2, <2>1, RecursionExists
    <2>3. QED
        BY <2>2 DEF none, Recursion
<1>5. ASSUME NEW k \in 1..n
      PROVE  f[k] = IF urls[k] \in scope /\ Norm(urls[k]) \notin seen \cup Norms(f[k - 1])
                    THEN Append(f[k - 1], [url |-> urls[k], depth |-> depth]) ELSE f[k - 1]
    <2>1. k - 1 \in 0..n /\ k \in Nat
        BY <1>1
    <2>2. <<k, f[k - 1]>> \in Nat \X A
        BY <1>4, <2>1
    <2>3. QED
        BY <1>4, <2>2
<1> HIDE DEF n
<1>6. EntriesOf(urls, seen, depth, scope, f)
    <2>1. f = [k \in 0..n |-> f[k]]
        BY <1>4
    <2>2. \A k \in 0..n : k = 0 \/ k \in 1..n
        BY <1>1
    <2>3. QED
        BY <1>4, <1>5, <2>1, <2>2 DEF EntriesOf, n
<1> DEFINE c == CHOOSE e : EntriesOf(urls, seen, depth, scope, e)
<1>7. EntriesOf(urls, seen, depth, scope, c)
    BY <1>6
<1>8. Fresh(urls, seen, depth, scope) = c[Len(urls)]
    BY DEF Fresh, EntriesOf
<1>9. QED
    BY <1>7, <1>8

LEMMA SeqOfMore ==
    ASSUME NEW A, NEW B, A \subseteq B, NEW s \in Seq(A)
    PROVE  s \in Seq(B) /\ Len(s) \in Nat /\ \A i \in 1..Len(s) : s[i] \in A
<1>1. Len(s) \in Nat /\ s \in [1..Len(s) -> B] /\ \A i \in 1..Len(s) : s[i] \in A
    OBVIOUS
<1>2. QED
    BY <1>1

(* The sequences of entries: how they grow and shrink. *)
Found == [url : Url, depth : Int]

LEMMA NormsAre ==
    ASSUME NEW e \in Seq(Found)
    PROVE  \A n : n \in Norms(e) <=> \E i \in 1..Len(e) : n = Norm(e[i].url)
BY DEF Norms

LEMMA AppendEntry ==
    ASSUME NEW e \in Seq(Found), NEW x \in Found
    PROVE  /\ Append(e, x) \in Seq(Found) /\ Len(Append(e, x)) = Len(e) + 1
           /\ \A i \in 1..Len(e) : Append(e, x)[i] = e[i]
           /\ Append(e, x)[Len(e) + 1] = x
           /\ Norms(Append(e, x)) = Norms(e) \cup {Norm(x.url)}
           /\ Distinct(e) /\ Norm(x.url) \notin Norms(e) => Distinct(Append(e, x))
<1> DEFINE a == Append(e, x)
<1>1. /\ a \in Seq(Found) /\ Len(a) = Len(e) + 1 /\ a[Len(e) + 1] = x
      /\ \A i \in 1..Len(e) : a[i] = e[i]
      /\ Len(e) \in Nat
    OBVIOUS
<1> HIDE DEF a
<1>2. \A i \in 1..Len(a) : i \in 1..Len(e) \/ i = Len(e) + 1
    BY <1>1
<1>3. Norms(a) = Norms(e) \cup {Norm(x.url)}
    <2>1. Len(e) + 1 \in 1..Len(a) /\ 1..Len(e) \subseteq 1..Len(a)
        BY <1>1
    <2>2. QED
        BY <1>1, <1>2, <2>1, NormsAre
<1>4. Distinct(e) /\ Norm(x.url) \notin Norms(e) => Distinct(a)
    BY <1>1, <1>2, NormsAre DEF Distinct
<1>5. QED
    BY <1>1, <1>3, <1>4 DEF a

LEMMA ConcatEntries ==
    ASSUME NEW e \in Seq(Found), NEW g \in Seq(Found)
    PROVE  /\ e \o g \in Seq(Found) /\ Len(e \o g) = Len(e) + Len(g)
           /\ \A i \in 1..Len(e) : (e \o g)[i] = e[i]
           /\ \A i \in 1..Len(g) : (e \o g)[Len(e) + i] = g[i]
           /\ \A i \in 1..Len(e \o g) : i \in 1..Len(e) \/ i - Len(e) \in 1..Len(g)
           /\ Norms(e \o g) = Norms(e) \cup Norms(g)
           /\ Distinct(e) /\ Distinct(g) /\ Norms(e) \cap Norms(g) = {} => Distinct(e \o g)
<1> DEFINE a == e \o g
<1>1. /\ a \in Seq(Found) /\ Len(a) = Len(e) + Len(g)
      /\ \A i \in 1..Len(e) : a[i] = e[i]
      /\ \A i \in 1..Len(g) : a[Len(e) + i] = g[i]
      /\ Len(e) \in Nat /\ Len(g) \in Nat
    OBVIOUS
<1> HIDE DEF a
<1>2. ASSUME NEW i \in 1..Len(a)
      PROVE  i \in 1..Len(e) \/ (i - Len(e) \in 1..Len(g) /\ a[i] = g[i - Len(e)])
    <2>1. CASE i <= Len(e)
        BY <1>1, <2>1
    <2>2. CASE i > Len(e)
        <3>1. i - Len(e) \in 1..Len(g) /\ Len(e) + (i - Len(e)) = i
            BY <1>1, <2>2
        <3>2. QED
            BY <1>1, <3>1
    <2>3. QED
        BY <1>1, <2>1, <2>2
<1>3. \A i \in 1..Len(g) : Len(e) + i \in 1..Len(a)
    BY <1>1
<1>4. 1..Len(e) \subseteq 1..Len(a)
    BY <1>1
<1>5. Norms(a) = Norms(e) \cup Norms(g)
    <2>1. ASSUME NEW n \in Norms(a) PROVE n \in Norms(e) \cup Norms(g)
        <3>1. PICK i \in 1..Len(a) : n = Norm(a[i].url)
            BY <1>1, NormsAre
        <3>2. CASE i \in 1..Len(e)
            BY <1>1, <3>1, <3>2, NormsAre
        <3>3. CASE i \notin 1..Len(e)
            BY <1>2, <3>1, <3>3, NormsAre
        <3>4. QED
            BY <3>2, <3>3
    <2>2. ASSUME NEW n \in Norms(e) PROVE n \in Norms(a)
        BY <1>1, <1>4, NormsAre
    <2>3. ASSUME NEW n \in Norms(g) PROVE n \in Norms(a)
        <3>1. PICK i \in 1..Len(g) : n = Norm(g[i].url)
            BY NormsAre
        <3>2. n = Norm(a[Len(e) + i].url)
            BY <1>1, <3>1
        <3>3. QED
            BY <1>1, <1>3, <3>2, NormsAre
    <2>4. QED
        BY <2>1, <2>2, <2>3
<1>6. ASSUME Distinct(e), Distinct(g), Norms(e) \cap Norms(g) = {} PROVE Distinct(a)
    <2>1. SUFFICES ASSUME NEW i \in 1..Len(a), NEW j \in 1..Len(a), Norm(a[i].url) = Norm(a[j].url)
                   PROVE  i = j
        BY DEF Distinct
    <2>2. CASE i \in 1..Len(e) /\ j \in 1..Len(e)
        BY <1>1, <1>6, <2>1, <2>2 DEF Distinct
    <2>3. CASE i \notin 1..Len(e) /\ j \notin 1..Len(e)
        <3>1. i - Len(e) = j - Len(e)
            BY <1>2, <1>6, <2>1, <2>3 DEF Distinct
        <3>2. QED
            BY <1>1, <3>1
    <2>4. CASE i \in 1..Len(e) /\ j \notin 1..Len(e)
        BY <1>1, <1>2, <1>6, <2>1, <2>4, NormsAre
    <2>5. CASE i \notin 1..Len(e) /\ j \in 1..Len(e)
        BY <1>1, <1>2, <1>6, <2>1, <2>5, NormsAre
    <2>6. QED
        BY <2>2, <2>3, <2>4, <2>5
<1>7. QED
    BY <1>1, <1>2, <1>5, <1>6 DEF a

LEMMA TailEntries ==
    ASSUME NEW e \in Seq(Found), e # <<>>
    PROVE  /\ Head(e) = e[1] /\ 1 \in 1..Len(e)
           /\ Tail(e) \in Seq(Found) /\ Len(Tail(e)) = Len(e) - 1
           /\ \A i \in 1..Len(Tail(e)) : Tail(e)[i] = e[i + 1] /\ i + 1 \in 1..Len(e)
           /\ Norms(e) = Norms(Tail(e)) \cup {Norm(Head(e).url)}
           /\ Distinct(e) => Distinct(Tail(e)) /\ Norm(Head(e).url) \notin Norms(Tail(e))
<1> DEFINE t == Tail(e)
<1>1. /\ Head(e) = e[1] /\ 1 \in 1..Len(e)
      /\ t \in Seq(Found) /\ Len(t) = Len(e) - 1 /\ Len(e) \in Nat
      /\ \A i \in 1..Len(t) : t[i] = e[i + 1]
    OBVIOUS
<1> HIDE DEF t
<1>2. \A i \in 1..Len(t) : i + 1 \in 1..Len(e) /\ i + 1 # 1
    BY <1>1
<1>3. \A i \in 1..Len(e) : i = 1 \/ (i - 1 \in 1..Len(t) /\ e[i] = t[i - 1])
    BY <1>1
<1>4. Norms(e) = Norms(t) \cup {Norm(e[1].url)}
    <2>1. ASSUME NEW n \in Norms(e) PROVE n \in Norms(t) \cup {Norm(e[1].url)}
        <3>1. PICK i \in 1..Len(e) : n = Norm(e[i].url)
            BY NormsAre
        <3>2. QED
            BY <1>1, <1>3, <3>1, NormsAre
    <2>2. ASSUME NEW n \in Norms(t) PROVE n \in Norms(e)
        <3>1. PICK i \in 1..Len(t) : n = Norm(t[i].url)
            BY <1>1, NormsAre
        <3>2. n = Norm(e[i + 1].url)
            BY <1>1, <3>1
        <3>3. QED
            BY <1>2, <3>2, NormsAre
    <2>3. Norm(e[1].url) \in Norms(e)
        BY <1>1, NormsAre
    <2>4. QED
        BY <2>1, <2>2, <2>3
<1>5. ASSUME Distinct(e) PROVE Distinct(t)
    <2>1. SUFFICES ASSUME NEW i \in 1..Len(t), NEW j \in 1..Len(t), Norm(t[i].url) = Norm(t[j].url)
                   PROVE  i = j
        BY DEF Distinct
    <2>2. i + 1 = j + 1
        BY <1>1, <1>2, <1>5, <2>1 DEF Distinct
    <2>3. QED
        BY <1>1, <2>2
<1>6. Distinct(e) => Norm(e[1].url) \notin Norms(t)
    BY <1>1, <1>2, NormsAre DEF Distinct
<1>7. QED
    BY <1>1, <1>2, <1>4, <1>5, <1>6 DEF t

(* What k links become. *)
Fits(urls, seen, depth, scope, e, k) ==
    /\ e \in Seq([url : Url, depth : {depth}])
    /\ \A i \in 1..Len(e) :
         /\ e[i].url \in scope /\ Norm(e[i].url) \notin seen
         /\ \E j \in 1..k : e[i].url = urls[j]
    /\ Distinct(e)
    /\ \A j \in 1..k : urls[j] \in scope => Norm(urls[j]) \in seen \cup Norms(e)

LEMMA FreshFits ==
    ASSUME NEW urls \in Seq(Url), NEW seen, NEW depth \in Int, NEW scope
    PROVE  Fits(urls, seen, depth, scope, Fresh(urls, seen, depth, scope), Len(urls))
<1>1. PICK f : /\ EntriesOf(urls, seen, depth, scope, f)
               /\ Fresh(urls, seen, depth, scope) = f[Len(urls)]
    BY FreshIsLast
<1> DEFINE Done == {k \in Nat : k <= Len(urls) => Fits(urls, seen, depth, scope, f[k], k)}
<1>2. 0 \in Done
    <2>1. f[0] = <<>> /\ 1..0 = {} /\ Len(urls) \in Nat
        BY <1>1 DEF EntriesOf
    <2> DEFINE none == <<>>
    <2>2. none \in Seq([url : Url, depth : {depth}]) /\ Len(none) = 0
        OBVIOUS
    <2> HIDE DEF none
    <2>3. Fits(urls, seen, depth, scope, none, 0)
        BY <2>1, <2>2 DEF Fits, Distinct
    <2>4. QED
        BY <2>1, <2>3 DEF none
<1>3. ASSUME NEW k \in Nat, k \in Done PROVE k + 1 \in Done
    <2>1. SUFFICES ASSUME k + 1 <= Len(urls) PROVE Fits(urls, seen, depth, scope, f[k + 1], k + 1)
        OBVIOUS
    <2> DEFINE e == f[k]
               u == urls[k + 1]
               x == [url |-> u, depth |-> depth]
    <2>2. Fits(urls, seen, depth, scope, e, k)
        BY <1>3, <2>1
    <2>3. u \in Url /\ k + 1 \in 0..Len(urls) /\ (k + 1) - 1 = k /\ k + 1 # 0
        BY <2>1
    <2>4. f[k + 1] = IF u \in scope /\ Norm(u) \notin seen \cup Norms(e) THEN Append(e, x) ELSE e
        BY <1>1, <2>3 DEF EntriesOf
    <2>5. \A j \in 1..(k + 1) : j \in 1..k \/ j = k + 1
        OBVIOUS
    <2>6. e \in Seq(Found) /\ x \in Found /\ x.url = u
        <3>1. [url : Url, depth : {depth}] \subseteq Found
            BY DEF Found
        <3>2. x \in [url : Url, depth : {depth}] /\ x.url = u
            BY <2>3
        <3>3. e \in Seq([url : Url, depth : {depth}])
            BY <2>2 DEF Fits
        <3> HIDE DEF e, x, u
        <3>4. QED
            BY <3>1, <3>2, <3>3, SeqOfMore
    <2>7. CASE u \in scope /\ Norm(u) \notin seen \cup Norms(e)
        <3>1. f[k + 1] = Append(e, x)
            BY <2>4, <2>7
        <3>2. x \in [url : Url, depth : {depth}]
            BY <2>3
        <3>3. Append(e, x) \in Seq([url : Url, depth : {depth}])
            BY <2>2, <3>2 DEF Fits
        <3> HIDE DEF e, u, x
        <3> DEFINE a == Append(e, x)
        <3>4. /\ Len(a) = Len(e) + 1 /\ Len(e) \in Nat
              /\ \A i \in 1..Len(e) : a[i] = e[i]
              /\ a[Len(e) + 1] = x
              /\ Norms(a) = Norms(e) \cup {Norm(u)}
              /\ Distinct(a)
            BY <2>2, <2>6, <2>7, AppendEntry DEF Fits
        <3> HIDE DEF a
        <3>5. \A i \in 1..Len(a) : i \in 1..Len(e) \/ i = Len(e) + 1
            BY <3>4
        <3>6. \A i \in 1..Len(a) : /\ a[i].url \in scope /\ Norm(a[i].url) \notin seen
                                   /\ \E j \in 1..(k + 1) : a[i].url = urls[j]
            <4>1. \A j \in 1..k : j \in 1..(k + 1)
                OBVIOUS
            <4>2. k + 1 \in 1..(k + 1)
                OBVIOUS
            <4>3. ASSUME NEW i \in 1..Len(e)
                  PROVE  /\ a[i].url \in scope /\ Norm(a[i].url) \notin seen
                         /\ \E j \in 1..(k + 1) : a[i].url = urls[j]
                BY <2>2, <3>4, <4>1 DEF Fits
            <4>4. a[Len(e) + 1].url = urls[k + 1] /\ u = urls[k + 1]
                BY <2>6, <3>4 DEF u
            <4>5. QED
                BY <2>7, <3>5, <4>2, <4>3, <4>4
        <3>7. \A j \in 1..(k + 1) : urls[j] \in scope => Norm(urls[j]) \in seen \cup Norms(a)
            BY <2>2, <2>5, <3>4 DEF Fits, u
        <3>8. QED
            BY <3>1, <3>3, <3>4, <3>6, <3>7 DEF Fits, a
    <2>8. CASE ~(u \in scope /\ Norm(u) \notin seen \cup Norms(e))
        <3>1. f[k + 1] = e
            BY <2>4, <2>8
        <3> HIDE DEF e
        <3>2. \A j \in 1..(k + 1) : urls[j] \in scope => Norm(urls[j]) \in seen \cup Norms(e)
            BY <2>2, <2>5, <2>8 DEF Fits
        <3>3. \A j \in 1..k : j \in 1..(k + 1)
            OBVIOUS
        <3>4. QED
            BY <2>2, <3>1, <3>2, <3>3 DEF Fits
    <2>9. QED
        BY <2>7, <2>8
<1> HIDE DEF Done
<1>4. \A k \in Nat : k \in Done
    BY <1>2, <1>3, AllNat
<1>5. QED
    BY <1>1, <1>4 DEF Done

-----------------------------------------------------------------------------
(* Every URL that was queued was asked for or is still queued, and none    *)
(* of them twice.                                                          *)
Asked == {Norm(u) : u \in ToSet(tried)}

CrawlInv ==
    /\ CrawlTypeOK
    /\ visited = Asked \cup Norms(queue)
    /\ Asked \cap Norms(queue) = {}
    /\ Distinct(queue)
    /\ NoPageTwice
    /\ IsFiniteSet(got) /\ Cardinality(got) = fetched

QueueType == Seq([url : Url, depth : 0..MaxDepth])

LEMMA QueueTyped ==
    ASSUME CrawlTypeOK
    PROVE  /\ queue \in Seq(Found) /\ Len(queue) \in Nat
           /\ \A i \in 1..Len(queue) : queue[i].url \in Url /\ queue[i].depth \in 0..MaxDepth
           /\ tried \in Seq(Url) /\ Len(tried) \in Nat
<1>1. [url : Url, depth : 0..MaxDepth] \subseteq Found
    BY CrawlAssumption DEF Found
<1>2. queue \in Seq([url : Url, depth : 0..MaxDepth]) /\ tried \in Seq(Url)
    BY DEF CrawlTypeOK
<1>3. queue \in Seq(Found)
    BY <1>1, <1>2, SeqOfMore
<1>4. \A i \in 1..Len(queue) : queue[i] \in [url : Url, depth : 0..MaxDepth]
    BY <1>2, SeqOfMore
<1>5. \A x \in [url : Url, depth : 0..MaxDepth] : x.url \in Url /\ x.depth \in 0..MaxDepth
    OBVIOUS
<1>6. Len(queue) \in Nat /\ Len(tried) \in Nat
    BY <1>2
<1>7. QED
    BY <1>2, <1>3, <1>4, <1>5, <1>6

LEMMA LimitedTyped == Limited \in Seq(Url)
<1>1. Seeds \in Seq(Url) /\ MaxPages \in Nat
    BY CrawlAssumption
<1> DEFINE n == IF Len(Seeds) > MaxPages THEN MaxPages ELSE Len(Seeds)
<1>2. n \in Nat /\ n <= Len(Seeds)
    BY <1>1
<1> HIDE DEF n
<1>3. SubSeq(Seeds, 1, n) \in Seq(Url)
    BY <1>1, <1>2
<1>4. QED
    BY <1>3 DEF Limited, n

(* Asking for one more URL. *)
LEMMA AskedNext ==
    ASSUME tried \in Seq(Url), NEW u \in Url, tried' = Append(tried, u)
    PROVE  /\ tried' \in Seq(Url)
           /\ ToSet(tried)' = ToSet(tried) \cup {u}
           /\ Asked' = Asked \cup {Norm(u)}
           /\ NoPageTwice /\ Norm(u) \notin Asked => NoPageTwice'
<1>1. /\ tried' \in Seq(Url) /\ Len(tried') = Len(tried) + 1 /\ Len(tried) \in Nat
      /\ \A i \in 1..Len(tried) : tried'[i] = tried[i]
      /\ tried'[Len(tried) + 1] = u
      /\ DOMAIN tried = 1..Len(tried) /\ DOMAIN tried' = 1..Len(tried')
    OBVIOUS
<1>2. /\ \A i \in 1..Len(tried') : i \in 1..Len(tried) \/ i = Len(tried) + 1
      /\ Len(tried) + 1 \in 1..Len(tried') /\ 1..Len(tried) \subseteq 1..Len(tried')
    BY <1>1
<1>3. ToSet(tried)' = ToSet(tried) \cup {u}
    BY <1>1, <1>2 DEF ToSet
<1>4. Asked' = Asked \cup {Norm(u)}
    BY <1>3 DEF Asked
<1>5. ASSUME NoPageTwice, Norm(u) \notin Asked PROVE NoPageTwice'
    <2>1. \A i \in 1..Len(tried) : Norm(tried[i]) # Norm(u)
        BY <1>1, <1>5 DEF Asked, ToSet
    <2>2. QED
        BY <1>1, <1>2, <1>5, <2>1 DEF NoPageTwice
<1>6. QED
    BY <1>1, <1>3, <1>4, <1>5

(* The first of the queue is taken. *)
LEMMA TakeNext ==
    ASSUME CrawlInv, queue # <<>>
    PROVE  LET e == Head(queue)
           IN  /\ e = queue[1] /\ e.url \in Url /\ e.depth \in 0..MaxDepth
               /\ Tail(queue) \in QueueType
               /\ Norms(queue) = Norms(Tail(queue)) \cup {Norm(e.url)}
               /\ Distinct(Tail(queue))
               /\ Norm(e.url) \notin Norms(Tail(queue)) \cup Asked
               /\ e.url \notin got
<1>1. queue \in Seq(Found) /\ queue \in QueueType
    BY QueueTyped DEF CrawlInv, CrawlTypeOK, QueueType
<1>2. Tail(queue) \in QueueType
    BY <1>1 DEF QueueType
<1> DEFINE e == Head(queue)
<1>3. /\ e = queue[1] /\ 1 \in 1..Len(queue)
      /\ Norms(queue) = Norms(Tail(queue)) \cup {Norm(e.url)}
      /\ Distinct(Tail(queue)) /\ Norm(e.url) \notin Norms(Tail(queue))
    BY <1>1, TailEntries DEF CrawlInv
<1>4. e.url \in Url /\ e.depth \in 0..MaxDepth
    BY <1>3, QueueTyped DEF CrawlInv
<1>5. Norm(e.url) \notin Asked
    BY <1>3 DEF CrawlInv
<1>6. e.url \notin got
    BY <1>5 DEF CrawlInv, CrawlTypeOK, Asked
<1>7. QED
    BY <1>2, <1>3, <1>4, <1>5, <1>6

(* What a page's links become: entries one deeper, all of them new. *)
LEMMA FollowedFits ==
    ASSUME CrawlInv, NEW e, e.url \in Url, e.depth \in 0..MaxDepth
    PROVE  /\ Followed(e) \in QueueType /\ Followed(e) \in Seq(Found)
           /\ Distinct(Followed(e)) /\ Norms(Followed(e)) \cap visited = {}
           /\ Followed(e) # <<>> => e.url \in Html /\ e.depth < MaxDepth
           /\ \A i \in 1..Len(Followed(e)) :
                /\ Followed(e)[i].depth = e.depth + 1
                /\ Followed(e)[i].url \in InScope \cap ToSet(links[e.url])
           /\ e.url \in Html /\ e.depth < MaxDepth =>
                \A w \in InScope \cap ToSet(links[e.url]) : Norm(w) \in visited \cup Norms(Followed(e))
<1> DEFINE new == Followed(e)
<1>1. MaxDepth \in Nat /\ links[e.url] \in Seq(Url)
    BY CrawlAssumption DEF CrawlInv, CrawlTypeOK
<1>2. CASE e.url \in Html /\ MaxDepth > 0 /\ e.depth < MaxDepth
    <2>1. new = Fresh(links[e.url], visited, e.depth + 1, InScope)
        BY <1>2 DEF Followed
    <2>2. e.depth + 1 \in 0..MaxDepth /\ e.depth + 1 \in Int
        BY <1>1, <1>2
    <2>3. Fits(links[e.url], visited, e.depth + 1, InScope, new, Len(links[e.url]))
        BY <1>1, <2>1, <2>2, FreshFits
    <2> HIDE DEF new
    <2>4. new \in Seq([url : Url, depth : {e.depth + 1}])
        BY <2>3 DEF Fits
    <2>5. [url : Url, depth : {e.depth + 1}] \subseteq [url : Url, depth : 0..MaxDepth]
        BY <2>2
    <2>6. [url : Url, depth : {e.depth + 1}] \subseteq Found
        BY <2>2 DEF Found
    <2>7. new \in QueueType /\ new \in Seq(Found)
        <3>1. new \in Seq([url : Url, depth : 0..MaxDepth])
            <4> DEFINE A == [url : Url, depth : {e.depth + 1}]
                       B == [url : Url, depth : 0..MaxDepth]
            <4>1. new \in Seq(A) /\ A \subseteq B
                BY <2>4, <2>5
            <4> HIDE DEF A, B
            <4>2. new \in Seq(B)
                BY <4>1, SeqOfMore
            <4>3. QED
                BY <4>2 DEF B
        <3>2. new \in Seq(Found)
            BY <2>4, <2>6, SeqOfMore
        <3>3. QED
            BY <3>1, <3>2 DEF QueueType
    <2>8. Norms(new) \cap visited = {}
        BY <2>3, <2>7, NormsAre DEF Fits
    <2>9. \A i \in 1..Len(new) : new[i].depth = e.depth + 1
        <3>1. \A i \in 1..Len(new) : new[i] \in [url : Url, depth : {e.depth + 1}]
            BY <2>4, SeqOfMore
        <3>2. \A x \in [url : Url, depth : {e.depth + 1}] : x.depth = e.depth + 1
            OBVIOUS
        <3>3. QED
            BY <3>1, <3>2
    <2>10. ToSet(links[e.url]) = {links[e.url][j] : j \in 1..Len(links[e.url])}
        BY <1>1 DEF ToSet
    <2>11. QED
        BY <1>2, <2>3, <2>7, <2>8, <2>9, <2>10 DEF Fits, new
<1>3. CASE ~(e.url \in Html /\ MaxDepth > 0 /\ e.depth < MaxDepth)
    <2>1. new = <<>> /\ Len(new) = 0 /\ 1..0 = {} /\ Norms(new) = {}
        BY <1>3 DEF Followed, Norms
    <2>2. <<>> \in QueueType /\ <<>> \in Seq(Found) /\ Distinct(<<>>)
        BY DEF QueueType, Distinct
    <2>3. ~(e.url \in Html /\ e.depth < MaxDepth)
        BY <1>1, <1>3
    <2>4. QED
        BY <2>1, <2>2, <2>3
<1>4. QED
    BY <1>2, <1>3

LEMMA CrawlStarts == CrawlInit => CrawlInv
<1> SUFFICES ASSUME CrawlInit PROVE CrawlInv
    OBVIOUS
<1> USE DEF CrawlInit
<1>1. Fits(Limited, {}, 0, Url, queue, Len(Limited))
    BY LimitedTyped, FreshFits
<1>2. queue \in Seq([url : Url, depth : 0..MaxDepth])
    <2>1. queue \in Seq([url : Url, depth : {0}])
        BY <1>1 DEF Fits
    <2>2. [url : Url, depth : {0}] \subseteq [url : Url, depth : 0..MaxDepth]
        BY CrawlAssumption
    <2> DEFINE A == [url : Url, depth : {0}]
               B == [url : Url, depth : 0..MaxDepth]
    <2>3. queue \in Seq(A) /\ A \subseteq B
        BY <2>1, <2>2
    <2> HIDE DEF A, B
    <2>4. queue \in Seq(B)
        BY <2>3, SeqOfMore
    <2>5. QED
        BY <2>4 DEF B
<1>3. visited \subseteq {Norm(u) : u \in Url}
    BY <1>1, <1>2 DEF Norms, Fits
<1>4. ToSet(tried) = {} /\ Asked = {}
    BY DEF ToSet, Asked
<1>5. NoPageTwice
    BY DEF NoPageTwice
<1>6. CrawlTypeOK
    BY <1>2, <1>3, CrawlAssumption DEF CrawlTypeOK
<1>7. IsFiniteSet(got) /\ Cardinality(got) = fetched
    BY FS_EmptySet
<1>8. QED
    BY <1>1, <1>4, <1>5, <1>6, <1>7 DEF CrawlInv, Fits

LEMMA CrawlStep ==
    ASSUME CrawlInv, [CrawlNext]_crawlVars
    PROVE  CrawlInv'
<1> DEFINE e == Head(queue)
<1>1. CASE UNCHANGED <<links, queue, visited, fetched, files, tried, got>> /\ walk' \in {"running", "done", "error"}
    BY <1>1 DEF CrawlInv, CrawlTypeOK, Asked, NoPageTwice
<1>2. CASE Skip
    <2>1. /\ queue # <<>> /\ queue' = Tail(queue) /\ tried' = Append(tried, e.url)
          /\ UNCHANGED <<walk, visited, fetched, files, links, got>>
        BY <1>2 DEF Skip, Running
    <2>2. /\ e.url \in Url /\ Tail(queue) \in QueueType
          /\ Norms(queue) = Norms(Tail(queue)) \cup {Norm(e.url)} /\ Distinct(Tail(queue))
          /\ Norm(e.url) \notin Norms(Tail(queue)) \cup Asked
        BY <2>1, TakeNext
    <2>3. /\ tried' \in Seq(Url) /\ ToSet(tried)' = ToSet(tried) \cup {e.url}
          /\ Asked' = Asked \cup {Norm(e.url)} /\ NoPageTwice'
        BY <2>1, <2>2, AskedNext DEF CrawlInv, CrawlTypeOK
    <2> HIDE DEF e
    <2>4. CrawlTypeOK'
        BY <2>1, <2>2, <2>3 DEF CrawlInv, CrawlTypeOK, QueueType
    <2>5. QED
        BY <2>1, <2>2, <2>3, <2>4 DEF CrawlInv
<1>3. CASE Visit
    <2> DEFINE new == Followed(e)
    <2>1. /\ queue # <<>> /\ fetched < MaxPages
          /\ queue' = Tail(queue) \o new /\ tried' = Append(tried, e.url)
          /\ got' = got \cup {e.url} /\ fetched' = fetched + 1
          /\ visited' = visited \cup Norms(new) /\ UNCHANGED links
          /\ \/ UNCHANGED <<walk, files>>
             \/ /\ files' = [f \in DOMAIN files \cup {File(e.url)} |->
                               IF f = File(e.url) THEN e.url ELSE files[f]]
                /\ UNCHANGED walk
             \/ walk' = "error" /\ UNCHANGED files
        BY <1>3 DEF Visit, Running
    <2>2. /\ e.url \in Url /\ e.depth \in 0..MaxDepth /\ Tail(queue) \in QueueType
          /\ Norms(queue) = Norms(Tail(queue)) \cup {Norm(e.url)} /\ Distinct(Tail(queue))
          /\ Norm(e.url) \notin Norms(Tail(queue)) \cup Asked
          /\ e.url \notin got
        BY <2>1, TakeNext
    <2>3. /\ tried' \in Seq(Url) /\ ToSet(tried)' = ToSet(tried) \cup {e.url}
          /\ Asked' = Asked \cup {Norm(e.url)} /\ NoPageTwice'
        BY <2>1, <2>2, AskedNext DEF CrawlInv, CrawlTypeOK
    <2>4. new \in QueueType /\ new \in Seq(Found) /\ Distinct(new) /\ Norms(new) \cap visited = {}
        BY <2>2, FollowedFits
    <2>5. Tail(queue) \in Seq(Found)
        BY <2>1, QueueTyped, TailEntries DEF CrawlInv
    <2>6. queue' \in QueueType
        BY <2>1, <2>2, <2>4 DEF QueueType
    <2> HIDE DEF e, new
    <2>7. Norms(Tail(queue)) \cap Norms(new) = {}
        BY <2>2, <2>4 DEF CrawlInv
    <2>8. Norms(queue') = Norms(Tail(queue)) \cup Norms(new) /\ Distinct(queue')
        BY <2>1, <2>2, <2>4, <2>5, <2>7, ConcatEntries
    <2>9. visited' = Asked' \cup Norms(queue') /\ Asked' \cap Norms(queue') = {}
        BY <2>1, <2>2, <2>3, <2>4, <2>8 DEF CrawlInv
    <2>10. IsFiniteSet(got') /\ Cardinality(got') = fetched'
        BY <2>1, <2>2, FS_AddElement DEF CrawlInv
    <2>11. visited' \subseteq {Norm(u) : u \in Url}
        <3>1. Norms(new) \subseteq {Norm(u) : u \in Url}
            <4>1. \A i \in 1..Len(new) : new[i] \in Found
                BY <2>4, SeqOfMore
            <4>2. \A i \in 1..Len(new) : new[i].url \in Url
                BY <4>1 DEF Found
            <4>3. QED
                BY <2>4, <4>2, NormsAre
        <3>2. QED
            BY <2>1, <3>1 DEF CrawlInv, CrawlTypeOK
    <2>12. DOMAIN files' \subseteq {File(u) : u \in Url}
        BY <2>1, <2>2 DEF CrawlInv, CrawlTypeOK
    <2>13. fetched' \in 0..MaxPages /\ got' \subseteq ToSet(tried)'
        BY <2>1, <2>3, CrawlAssumption DEF CrawlInv, CrawlTypeOK
    <2>14. CrawlTypeOK'
        BY <2>1, <2>3, <2>6, <2>11, <2>12, <2>13 DEF CrawlInv, CrawlTypeOK, QueueType
    <2>15. QED
        BY <2>3, <2>8, <2>9, <2>10, <2>14 DEF CrawlInv
<1>4. QED
    BY <1>1, <1>2, <1>3 DEF CrawlNext, Cancel, Return, crawlVars, CrawlInv, CrawlTypeOK

THEOREM CrawlAlways == CrawlSpec => []CrawlInv
BY CrawlStarts, CrawlStep, PTL DEF CrawlSpec

(* Whatever the site links to, the queue, the pages and the files stay     *)
(* what they are, and what was fetched was asked for.                      *)
THEOREM CrawlTypeCorrect == CrawlSpec => []CrawlTypeOK
BY CrawlAlways, PTL DEF CrawlInv

(* No page is asked for twice, in whatever spelling and however often it   *)
(* is linked, on any site.                                                 *)
THEOREM PagesOnce == CrawlSpec => []NoPageTwice
BY CrawlAlways, PTL DEF CrawlInv

(* The limit on pages holds for any site and any limit. *)
THEOREM LimitHolds == CrawlSpec => []PagesLimited
<1>1. CrawlInv => PagesLimited
    BY CrawlAssumption DEF CrawlInv, CrawlTypeOK, PagesLimited
<1>2. QED
    BY <1>1, CrawlAlways, PTL

-----------------------------------------------------------------------------
(* How far each page is from the seeds.  The code keeps a depth only while *)
(* a page is queued; d says what it was for every page that ever was.  As  *)
(* the walk is breadth first, a page is first found along a shortest way:  *)
(* what a fetched page links to is at most one further than the page.      *)
SeedNorms == {Norm(Limited[i]) : i \in DOMAIN Limited}

FoundAt(d) ==
    /\ d \in [visited -> 0..MaxDepth]
    /\ \A i \in 1..Len(queue) : d[Norm(queue[i].url)] = queue[i].depth
    /\ \A n \in SeedNorms : n \in visited /\ d[n] = 0
    /\ \A u \in got \cap Html : d[Norm(u)] < MaxDepth =>
         \A w \in InScope \cap ToSet(links[u]) :
            Norm(w) \in visited /\ d[Norm(w)] <= d[Norm(u)] + 1
    /\ \A n \in visited :
         \/ d[n] = 0 /\ n \in SeedNorms
         \/ \E u \in got \cap Html, w \in InScope :
              /\ d[Norm(u)] + 1 = d[n]
              /\ w \in ToSet(links[u]) /\ n = Norm(w)
    /\ \A i, j \in 1..Len(queue) : i <= j => queue[i].depth <= queue[j].depth
    /\ queue # <<>> => \A n \in visited : d[n] <= queue[1].depth + 1

BreadthFirst == \E d : FoundAt(d)

LEMMA GotVisited ==
    ASSUME CrawlInv
    PROVE  \A u \in got : Norm(u) \in visited /\ Norm(u) \in Asked
BY DEF CrawlInv, CrawlTypeOK, Asked

LEMMA BreadthInit == CrawlInit => BreadthFirst
<1> SUFFICES ASSUME CrawlInit PROVE BreadthFirst
    OBVIOUS
<1>1. CrawlInv
    BY CrawlStarts
<1>2. Fits(Limited, {}, 0, Url, queue, Len(Limited)) /\ visited = Norms(queue) /\ got = {}
    BY LimitedTyped, FreshFits DEF CrawlInit
<1>3. queue \in Seq(Found) /\ Limited \in Seq(Url) /\ MaxDepth \in Nat
    BY <1>1, QueueTyped, LimitedTyped, CrawlAssumption DEF CrawlInv
<1>4. \A i \in 1..Len(queue) : queue[i].depth = 0
    <2>1. \A i \in 1..Len(queue) : queue[i] \in [url : Url, depth : {0}]
        BY <1>2, SeqOfMore DEF Fits
    <2>2. QED
        BY <2>1
<1>5. SeedNorms = visited
    <2>1. DOMAIN Limited = 1..Len(Limited) /\ \A i \in 1..Len(Limited) : Limited[i] \in Url
        BY <1>3
    <2>2. \A n \in SeedNorms : n \in visited
        BY <1>2, <2>1 DEF SeedNorms, Fits
    <2>3. \A n \in visited : n \in SeedNorms
        BY <1>2, <1>3, <2>1, NormsAre DEF SeedNorms, Fits
    <2>4. QED
        BY <2>2, <2>3
<1> DEFINE d == [n \in visited |-> 0]
<1>6. \A n \in visited : d[n] = 0
    OBVIOUS
<1>7. d \in [visited -> 0..MaxDepth]
    BY <1>3
<1> HIDE DEF d
<1>8. \A i \in 1..Len(queue) : Norm(queue[i].url) \in visited
    BY <1>2, <1>3, NormsAre
<1>9. queue # <<>> => queue[1].depth = 0
    BY <1>3, <1>4, TailEntries
<1>10. FoundAt(d)
    BY <1>2, <1>4, <1>5, <1>6, <1>7, <1>8, <1>9 DEF FoundAt
<1>11. QED
    BY <1>10 DEF BreadthFirst

LEMMA BreadthStep ==
    ASSUME CrawlInv, CrawlInv', BreadthFirst, [CrawlNext]_crawlVars
    PROVE  BreadthFirst'
<1> DEFINE e == Head(queue)
<1>1. PICK d : FoundAt(d)
    BY DEF BreadthFirst
<1>2. CASE UNCHANGED <<links, queue, visited, got>>
    <2>1. FoundAt(d)'
        BY <1>1, <1>2 DEF FoundAt, SeedNorms
    <2>2. QED
        BY <2>1 DEF BreadthFirst
<1> DEFINE T == Tail(queue)
<1>3. ASSUME queue # <<>>
      PROVE  /\ T \in Seq(Found) /\ Len(T) \in Nat
             /\ e.url \in Url /\ e.depth \in 0..MaxDepth
             /\ Norm(e.url) \in visited /\ Norm(e.url) \notin Asked /\ d[Norm(e.url)] = e.depth
             /\ \A i \in 1..Len(T) :
                  /\ d[Norm(T[i].url)] = T[i].depth /\ Norm(T[i].url) \in visited
                  /\ e.depth <= T[i].depth /\ T[i].depth <= e.depth + 1
             /\ \A i, j \in 1..Len(T) : i <= j => T[i].depth <= T[j].depth
             /\ \A n \in visited : d[n] <= e.depth + 1
             /\ \A i \in 1..Len(T) : T[i].depth \in 0..MaxDepth
    <2>1. queue \in Seq(Found)
        BY QueueTyped DEF CrawlInv
    <2>2. /\ e = queue[1] /\ 1 \in 1..Len(queue)
          /\ T \in Seq(Found) /\ Len(T) = Len(queue) - 1 /\ Len(queue) \in Nat
          /\ \A i \in 1..Len(T) : T[i] = queue[i + 1] /\ i + 1 \in 1..Len(queue)
          /\ Norms(queue) = Norms(T) \cup {Norm(e.url)}
        BY <1>3, <2>1, TailEntries
    <2>3. e.url \in Url /\ e.depth \in 0..MaxDepth /\ Norm(e.url) \notin Asked
        BY <1>3, TakeNext
    <2> HIDE DEF e, T
    <2>4. Norms(queue) \subseteq visited
        BY DEF CrawlInv
    <2>5. \A i \in 1..Len(queue) : Norm(queue[i].url) \in visited
        BY <2>1, <2>4, NormsAre
    <2>6. \A n \in visited : d[n] <= e.depth + 1
        BY <1>1, <1>3, <2>2 DEF FoundAt
    <2>7. \A i, j \in 1..Len(T) : i <= j => T[i].depth <= T[j].depth
        <3>1. SUFFICES ASSUME NEW i \in 1..Len(T), NEW j \in 1..Len(T), i <= j
                       PROVE  queue[i + 1].depth <= queue[j + 1].depth
            BY <2>2
        <3>2. i + 1 <= j + 1 /\ i + 1 \in 1..Len(queue) /\ j + 1 \in 1..Len(queue)
            BY <2>2, <3>1
        <3>3. QED
            BY <1>1, <3>2 DEF FoundAt
    <2>8. ASSUME NEW i \in 1..Len(T)
          PROVE  /\ d[Norm(T[i].url)] = T[i].depth /\ Norm(T[i].url) \in visited
                 /\ e.depth <= T[i].depth /\ T[i].depth <= e.depth + 1
                 /\ T[i].depth \in 0..MaxDepth
        <3>1. T[i] = queue[i + 1] /\ i + 1 \in 1..Len(queue) /\ 1 <= i + 1
            BY <2>2
        <3>2. d[Norm(T[i].url)] = T[i].depth /\ Norm(T[i].url) \in visited
            BY <1>1, <2>5, <3>1 DEF FoundAt
        <3>3. e.depth <= T[i].depth
            BY <1>1, <2>2, <3>1 DEF FoundAt
        <3>4. T[i].depth \in 0..MaxDepth
            BY <1>1, <3>2 DEF FoundAt
        <3>5. QED
            BY <2>6, <3>2, <3>3, <3>4
    <2>9. d[Norm(e.url)] = e.depth /\ Norm(e.url) \in visited
        BY <1>1, <2>2, <2>5 DEF FoundAt
    <2>10. Len(T) \in Nat
        BY <2>2
    <2>11. \A i \in 1..Len(T) :
              /\ d[Norm(T[i].url)] = T[i].depth /\ Norm(T[i].url) \in visited
              /\ e.depth <= T[i].depth /\ T[i].depth <= e.depth + 1
        BY <2>8
    <2>12. \A i \in 1..Len(T) : T[i].depth \in 0..MaxDepth
        BY <2>8
    <2>13. QED
        BY <2>2, <2>3, <2>6, <2>7, <2>9, <2>10, <2>11, <2>12, Zenon
<1>4. CASE Skip
    <2>1. queue # <<>> /\ queue' = T /\ UNCHANGED <<links, visited, got>>
        BY <1>4 DEF Skip, Running
    <2> HIDE DEF e, T
    <2>2. queue' # <<>> => 1 \in 1..Len(queue')
        BY <1>3, <2>1, TailEntries
    <2>3. T # <<>> => \A n \in visited : d[n] <= T[1].depth + 1
        <3>1. \A n \in visited : d[n] \in 0..MaxDepth
            BY <1>1 DEF FoundAt
        <3>2. QED
            BY <1>3, <2>1, <2>2, <3>1, CrawlAssumption
    <2>4. FoundAt(d)'
        BY <1>1, <1>3, <2>1, <2>3 DEF FoundAt, SeedNorms
    <2>5. QED
        BY <2>4 DEF BreadthFirst
<1>5. CASE Visit
    <2> DEFINE new == Followed(e)
               D == e.depth
               dd == [n \in visited' |-> IF n \in visited THEN d[n] ELSE D + 1]
    <2>1. /\ queue # <<>> /\ queue' = T \o new
          /\ got' = got \cup {e.url}
          /\ visited' = visited \cup Norms(new) /\ UNCHANGED links
        BY <1>5 DEF Visit, Running
    <2>2. /\ new \in Seq(Found) /\ Norms(new) \cap visited = {}
          /\ new # <<>> => e.url \in Html /\ D < MaxDepth
          /\ \A i \in 1..Len(new) :
                new[i].depth = D + 1 /\ new[i].url \in InScope \cap ToSet(links[e.url])
          /\ e.url \in Html /\ D < MaxDepth =>
                \A w \in InScope \cap ToSet(links[e.url]) : Norm(w) \in visited \cup Norms(new)
        BY <1>3, <2>1, FollowedFits
    <2>3. \A n \in visited : d[n] \in 0..MaxDepth /\ d[n] <= D + 1
        BY <1>1, <1>3, <2>1 DEF FoundAt
    <2>4. D \in 0..MaxDepth /\ MaxDepth \in Nat
        BY <1>3, <2>1, CrawlAssumption
    <2> HIDE DEF e, new, D, T
    <2>5. \A i \in 1..Len(new) : Norm(new[i].url) \in Norms(new)
        BY <2>2, NormsAre
    <2>6. \A n \in Norms(new) : \E i \in 1..Len(new) : n = Norm(new[i].url)
        BY <2>2, NormsAre
    <2>7. /\ \A n \in visited : n \in visited' /\ dd[n] = d[n]
          /\ \A n \in Norms(new) : n \in visited' /\ dd[n] = D + 1
        BY <2>1, <2>2
    <2>8. Norms(new) # {} => e.url \in Html /\ D < MaxDepth
        BY <2>2, <2>6
    <2>9. dd \in [visited' -> 0..MaxDepth]
        BY <2>1, <2>3, <2>4, <2>8
    <2> HIDE DEF dd
    <2>10. \A n \in visited' : dd[n] <= D + 1 /\ dd[n] \in Int
        BY <2>1, <2>3, <2>4, <2>7
    <2>11. /\ Len(queue') = Len(T) + Len(new) /\ Len(new) \in Nat /\ Len(T) \in Nat
           /\ \A i \in 1..Len(queue') :
                \/ i \in 1..Len(T) /\ queue'[i] = T[i]
                \/ i - Len(T) \in 1..Len(new) /\ i > Len(T) /\ queue'[i] = new[i - Len(T)]
        <3>1. /\ Len(T \o new) = Len(T) + Len(new)
              /\ \A i \in 1..Len(T) : (T \o new)[i] = T[i]
              /\ \A i \in 1..Len(new) : (T \o new)[Len(T) + i] = new[i]
              /\ \A i \in 1..Len(T \o new) : i \in 1..Len(T) \/ i - Len(T) \in 1..Len(new)
            BY <1>3, <2>1, <2>2, ConcatEntries
        <3>2. Len(new) \in Nat /\ Len(T) \in Nat
            BY <1>3, <2>1, <2>2
        <3>3. \A i \in 1..Len(queue') : i - Len(T) \in 1..Len(new) =>
                  i > Len(T) /\ Len(T) + (i - Len(T)) = i
            BY <3>2
        <3>4. QED
            BY <2>1, <3>1, <3>2, <3>3
    <2>12. \A i \in 1..Len(queue') : /\ dd[Norm(queue'[i].url)] = queue'[i].depth
                                     /\ D <= queue'[i].depth /\ queue'[i].depth <= D + 1
                                     /\ i > Len(T) => queue'[i].depth = D + 1
                                     /\ queue'[i].depth \in Int
        <3>1. ASSUME NEW i \in 1..Len(T)
              PROVE  /\ dd[Norm(T[i].url)] = T[i].depth /\ T[i].depth \in Int
                     /\ D <= T[i].depth /\ T[i].depth <= D + 1
            BY <1>3, <2>1, <2>7 DEF D
        <3>2. ASSUME NEW i \in 1..Len(new)
              PROVE  dd[Norm(new[i].url)] = D + 1 /\ new[i].depth = D + 1
            BY <2>2, <2>5, <2>7
        <3>3. \A i \in 1..Len(T) : ~(i > Len(T))
            BY <2>11
        <3>4. D <= D + 1
            BY <2>4
        <3>5. D + 1 \in Int /\ D + 1 <= D + 1
            BY <2>4
        <3>6. SUFFICES ASSUME NEW i \in 1..Len(queue')
                       PROVE  /\ dd[Norm(queue'[i].url)] = queue'[i].depth
                              /\ D <= queue'[i].depth /\ queue'[i].depth <= D + 1
                              /\ i > Len(T) => queue'[i].depth = D + 1
                              /\ queue'[i].depth \in Int
            OBVIOUS
        <3>7. CASE i \in 1..Len(T) /\ queue'[i] = T[i]
            BY <3>1, <3>3, <3>7
        <3>8. CASE i - Len(T) \in 1..Len(new) /\ queue'[i] = new[i - Len(T)]
            <4>1. dd[Norm(queue'[i].url)] = D + 1 /\ queue'[i].depth = D + 1
                BY <3>2, <3>8
            <4>2. QED
                BY <3>4, <3>5, <4>1
        <3>9. QED
            BY <2>11, <3>7, <3>8
    <2>13. \A i, j \in 1..Len(queue') : i <= j => queue'[i].depth <= queue'[j].depth
        <3>1. SUFFICES ASSUME NEW i \in 1..Len(queue'), NEW j \in 1..Len(queue'), i <= j
                       PROVE  queue'[i].depth <= queue'[j].depth
            OBVIOUS
        <3>2. CASE j > Len(T)
            BY <2>12, <3>2
        <3>3. CASE ~(j > Len(T))
            <4>1. i \in 1..Len(T) /\ j \in 1..Len(T) /\ queue'[i] = T[i] /\ queue'[j] = T[j]
                BY <2>11, <3>1, <3>3
            <4>2. QED
                BY <1>3, <2>1, <3>1, <4>1
        <3>4. QED
            BY <3>2, <3>3
    <2>14. ASSUME queue' # <<>> PROVE \A n \in visited' : dd[n] <= queue'[1].depth + 1
        <3>1. 1 \in 1..Len(queue')
            BY <2>14, QueueTyped DEF CrawlInv
        <3>2. D <= queue'[1].depth /\ queue'[1].depth \in Int
            BY <2>12, <3>1
        <3>3. QED
            BY <2>4, <2>10, <3>2
    <2>15. \A n \in SeedNorms' : n \in visited' /\ dd[n] = 0
        BY <1>1, <2>7 DEF FoundAt, SeedNorms
    <2>16. ASSUME NEW u \in got' \cap Html, dd[Norm(u)] < MaxDepth, NEW w \in InScope \cap ToSet(links'[u])
           PROVE  Norm(w) \in visited' /\ dd[Norm(w)] <= dd[Norm(u)] + 1
        <3>1. CASE u \in got
            <4>1. Norm(u) \in visited /\ dd[Norm(u)] = d[Norm(u)]
                BY <2>7, <3>1, GotVisited
            <4>2. Norm(w) \in visited /\ d[Norm(w)] <= d[Norm(u)] + 1
                BY <1>1, <2>1, <2>16, <3>1, <4>1 DEF FoundAt
            <4>3. QED
                BY <2>7, <4>1, <4>2
        <3>2. CASE u = e.url
            <4>1. Norm(u) \in visited /\ dd[Norm(u)] = D
                BY <1>3, <2>1, <2>7, <3>2 DEF D
            <4>2. Norm(w) \in visited \cup Norms(new)
                BY <2>1, <2>2, <2>16, <3>2, <4>1
            <4>3. Norm(w) \in visited'
                BY <2>1, <4>2
            <4>4. QED
                BY <2>10, <4>1, <4>3
        <3>3. QED
            BY <2>1, <2>16, <3>1, <3>2
    <2>17. ASSUME NEW n \in visited'
           PROVE  \/ dd[n] = 0 /\ n \in SeedNorms'
                  \/ \E u \in got' \cap Html, w \in InScope :
                       /\ dd[Norm(u)] + 1 = dd[n]
                       /\ w \in ToSet(links'[u]) /\ n = Norm(w)
        <3>1. CASE n \in visited
            <4>1. CASE d[n] = 0 /\ n \in SeedNorms
                BY <2>7, <3>1, <4>1 DEF SeedNorms
            <4>2. ASSUME NEW u \in got \cap Html, NEW w \in InScope,
                         d[Norm(u)] + 1 = d[n], w \in ToSet(links[u]), n = Norm(w)
                  PROVE  \E v \in got' \cap Html, x \in InScope :
                       /\ dd[Norm(v)] + 1 = dd[n]
                       /\ x \in ToSet(links'[v]) /\ n = Norm(x)
                <5>1. dd[Norm(u)] = d[Norm(u)] /\ dd[n] = d[n] /\ u \in got' \cap Html
                    BY <2>1, <2>7, <3>1, GotVisited
                <5>2. QED
                    BY <2>1, <4>2, <5>1
            <4>3. QED
                BY <1>1, <3>1, <4>1, <4>2 DEF FoundAt
        <3>2. CASE n \notin visited
            <4>1. n \in Norms(new)
                BY <2>1, <3>2
            <4>2. PICK i \in 1..Len(new) : n = Norm(new[i].url)
                BY <2>6, <4>1
            <4>3. dd[Norm(e.url)] = D /\ dd[n] = D + 1
                BY <1>3, <2>1, <2>7, <4>1 DEF D
            <4>4. new[i].url \in InScope \cap ToSet(links'[e.url]) /\ e.url \in got' \cap Html
                BY <2>1, <2>2, <2>8, <4>1
            <4>5. QED
                BY <4>2, <4>3, <4>4
        <3>3. QED
            BY <3>1, <3>2
    <2>18. PICK g : g = dd
        OBVIOUS
    <2>19. FoundAt(g)'
        BY <2>9, <2>12, <2>13, <2>14, <2>15, <2>16, <2>17, <2>18 DEF FoundAt
    <2>20. QED
        BY <2>19 DEF BreadthFirst
<1>6. QED
    BY <1>2, <1>4, <1>5 DEF CrawlNext, Cancel, Return, crawlVars

(* The pages linked from those in near, and the levels of Reach.           *)
LinkedFrom(near) ==
    {Norm(v) : v \in {w \in InScope :
        \E u \in got \cap Html : Norm(u) \in near /\ w \in ToSet(links[u])}}

Levels(w) ==
    w = [k \in 0..MaxDepth |-> IF k = 0 THEN SeedNorms ELSE w[k - 1] \cup LinkedFrom(w[k - 1])]

LEMMA ReachIsLastLevel == \E w : Levels(w) /\ Reach = w[MaxDepth]
<1> DEFINE Pages == {Norm(u) : u \in Url}
           step == [p \in Nat \X SUBSET Pages |-> p[2] \cup LinkedFrom(p[2])]
           n == MaxDepth
<1>1. n \in Nat /\ SeedNorms \in SUBSET Pages
    <2>1. \A i \in DOMAIN Limited : Limited[i] \in Url
        BY LimitedTyped
    <2>2. QED
        BY <2>1, CrawlAssumption DEF SeedNorms
<1>2. \A near : LinkedFrom(near) \in SUBSET Pages
    BY DEF LinkedFrom, InScope
<1>3. step \in [Nat \X SUBSET Pages -> SUBSET Pages]
    BY <1>2
<1>4. PICK f \in [0..n -> SUBSET Pages] : Recursion(SeedNorms, step, n, f)
    <2> DEFINE A == SUBSET Pages
    <2>1. n \in Nat /\ SeedNorms \in A /\ step \in [Nat \X A -> A]
        BY <1>1, <1>3
    <2> HIDE DEF A, step, n
    <2>2. \E f \in [0..n -> A] : Recursion(SeedNorms, step, n, f)
        BY <2>1, RecursionExists
    <2>3. QED
        BY <2>2 DEF A
<1>5. \A k \in 1..n : f[k] = f[k - 1] \cup LinkedFrom(f[k - 1])
    <2>1. ASSUME NEW k \in 1..n PROVE f[k] = f[k - 1] \cup LinkedFrom(f[k - 1])
        <3>1. k - 1 \in 0..n /\ k \in Nat
            BY <1>1
        <3>2. <<k, f[k - 1]>> \in Nat \X SUBSET Pages
            BY <1>4, <3>1
        <3>3. QED
            BY <1>4, <3>2 DEF Recursion
    <2>2. QED
        BY <2>1
<1>6. Levels(f)
    <2>1. f = [k \in 0..n |-> f[k]]
        BY <1>4
    <2>2. \A k \in 0..n : k = 0 \/ k \in 1..n
        BY <1>1
    <2>3. f[0] = SeedNorms
        BY <1>4 DEF Recursion
    <2> HIDE DEF Pages
    <2>4. QED
        BY <1>5, <2>1, <2>2, <2>3 DEF Levels
<1> DEFINE c == CHOOSE w : Levels(w)
<1>7. Levels(c)
    BY <1>6
<1>8. Reach = c[MaxDepth]
    BY DEF Reach, Levels, SeedNorms, LinkedFrom
<1>9. QED
    BY <1>7, <1>8

(* Level k has just the pages that were found at a depth up to k.          *)
LEMMA LevelsFound ==
    ASSUME CrawlInv, NEW d, FoundAt(d), NEW w, Levels(w)
    PROVE  w[MaxDepth] = visited
<1> DEFINE Done == {k \in Nat : k <= MaxDepth => w[k] = {n \in visited : d[n] <= k}}
<1>1. MaxDepth \in Nat /\ \A n \in visited : d[n] \in 0..MaxDepth
    BY CrawlAssumption DEF FoundAt
<1>2. 0 \in Done
    <2>1. w[0] = SeedNorms
        BY <1>1 DEF Levels
    <2>2. \A n \in visited : d[n] <= 0 => n \in SeedNorms
        <3>1. ASSUME NEW n \in visited, d[n] <= 0 PROVE n \in SeedNorms
            <4>1. d[n] = 0
                BY <1>1, <3>1
            <4>2. ASSUME NEW u \in got, d[Norm(u)] + 1 = 0 PROVE FALSE
                <5>1. d[Norm(u)] \in 0..MaxDepth
                    BY <1>1, GotVisited
                <5>2. QED
                    BY <4>2, <5>1
            <4>3. QED
                BY <4>1, <4>2 DEF FoundAt
        <3>2. QED
            BY <3>1
    <2>3. \A n \in SeedNorms : n \in visited /\ d[n] <= 0
        BY DEF FoundAt
    <2>4. QED
        BY <2>1, <2>2, <2>3
<1>3. ASSUME NEW k \in Nat, k \in Done PROVE k + 1 \in Done
    <2>1. SUFFICES ASSUME k + 1 <= MaxDepth PROVE w[k + 1] = {n \in visited : d[n] <= k + 1}
        OBVIOUS
    <2>2. w[k] = {n \in visited : d[n] <= k}
        BY <1>1, <1>3, <2>1
    <2>3. w[k + 1] = w[k] \cup LinkedFrom(w[k])
        <3>1. k + 1 \in 0..MaxDepth /\ k + 1 # 0 /\ (k + 1) - 1 = k
            BY <1>1, <2>1
        <3>2. QED
            BY <3>1 DEF Levels
    <2>4. ASSUME NEW n \in w[k + 1] PROVE n \in visited /\ d[n] <= k + 1
        <3>1. CASE n \in w[k]
            BY <1>1, <2>2, <3>1
        <3>2. CASE n \in LinkedFrom(w[k])
            <4>1. PICK v \in InScope, u \in got \cap Html :
                     n = Norm(v) /\ Norm(u) \in w[k] /\ v \in ToSet(links[u])
                BY <3>2 DEF LinkedFrom
            <4>2. d[Norm(u)] <= k /\ d[Norm(u)] \in 0..MaxDepth /\ d[Norm(u)] < MaxDepth
                BY <1>1, <2>1, <2>2, <4>1
            <4>3. Norm(v) \in visited /\ d[Norm(v)] <= d[Norm(u)] + 1
                BY <4>1, <4>2 DEF FoundAt
            <4>4. QED
                BY <1>1, <4>1, <4>2, <4>3
        <3>3. QED
            BY <2>3, <2>4, <3>1, <3>2
    <2>5. ASSUME NEW n \in visited, d[n] <= k + 1 PROVE n \in w[k + 1]
        <3>1. CASE d[n] <= k
            BY <2>2, <2>3, <2>5, <3>1
        <3>2. CASE d[n] = k + 1
            <4>1. PICK u \in got \cap Html, v \in InScope :
                     d[Norm(u)] + 1 = d[n] /\ v \in ToSet(links[u]) /\ n = Norm(v)
                BY <2>5, <3>2 DEF FoundAt
            <4>2. Norm(u) \in visited /\ d[Norm(u)] \in 0..MaxDepth
                BY <1>1, GotVisited
            <4>3. Norm(u) \in w[k]
                BY <2>2, <3>2, <4>1, <4>2
            <4>4. n \in LinkedFrom(w[k])
                BY <4>1, <4>3 DEF LinkedFrom
            <4>5. QED
                BY <2>3, <4>4
        <3>3. d[n] <= k \/ d[n] = k + 1
            BY <1>1, <2>5
        <3>4. QED
            BY <3>1, <3>2, <3>3
    <2>6. QED
        BY <2>4, <2>5
<1> HIDE DEF Done
<1>4. \A k \in Nat : k \in Done
    BY <1>2, <1>3, AllNat
<1>5. w[MaxDepth] = {n \in visited : d[n] <= MaxDepth}
    BY <1>1, <1>4 DEF Done
<1>6. QED
    BY <1>1, <1>5

(* A walk that ran to its end has asked for exactly the pages that are     *)
(* within MaxDepth links of the seeds, whatever the site looks like: none  *)
(* is missed because a longer way to it was found first.                   *)
THEOREM WalkReaches == CrawlSpec => []WalkIsReach
<1>1. CrawlInv /\ BreadthFirst /\ [CrawlNext]_crawlVars /\ CrawlInv' => BreadthFirst'
    BY BreadthStep
<1>2. CrawlInv /\ BreadthFirst => WalkIsReach
    <2>1. SUFFICES ASSUME CrawlInv, BreadthFirst, walk = "done", queue = <<>>
                   PROVE  Asked = Reach
        BY DEF WalkIsReach, Asked
    <2>2. PICK d : FoundAt(d)
        BY <2>1 DEF BreadthFirst
    <2>3. PICK w : Levels(w) /\ Reach = w[MaxDepth]
        BY ReachIsLastLevel
    <2>4. Reach = visited
        BY <2>1, <2>2, <2>3, LevelsFound
    <2>5. Norms(queue) = {}
        BY <2>1 DEF Norms
    <2>6. QED
        BY <2>1, <2>4, <2>5 DEF CrawlInv
<1>3. QED
    BY <1>1, <1>2, BreadthInit, CrawlAlways, PTL DEF CrawlSpec

-----------------------------------------------------------------------------
(* The places that the segments of a name lead to. *)
Leads(path, f) ==
    /\ f[0] = <<>> /\ \A k \in 1..Len(path) : f[k] = Down(f[k - 1], path[k])
    /\ Place(path) = f[Len(path)]

LEMMA DownTyped ==
    ASSUME NEW S, NEW p \in Seq(S \cup {".."}), NEW s \in S
    PROVE  Down(p, s) \in Seq(S \cup {".."})
<1> DEFINE T == S \cup {".."}
<1>1. <<"..">> \in Seq(T) /\ s \in T
    OBVIOUS
<1> HIDE DEF T
<1>2. Append(p, s) \in Seq(T)
    BY <1>1 DEF T
<1>3. p # <<>> => Front(p) \in Seq(T)
    <2>1. p \in Seq(T)
        BY DEF T
    <2>2. p # <<>> => Len(p) - 1 \in 0..Len(p)
        BY <2>1
    <2>3. \A i \in 1..(Len(p) - 1) : p[i] \in T
        BY <2>1
    <2>4. Len(p) - 1 \in Int
        BY <2>1
    <2>5. QED
        BY <2>3, <2>4, SubSeqProperties DEF Front
<1>4. QED
    BY <1>1, <1>2, <1>3 DEF Down, Outside, T

LEMMA PlaceLeads ==
    ASSUME NEW S, NEW path \in Seq(S)
    PROVE  \E f \in [0..Len(path) -> Seq(S \cup {".."})] : Leads(path, f)
<1> DEFINE A == Seq(S \cup {".."})
           n == Len(path)
           step == [q \in Nat \X A |-> IF q[1] \in 1..n THEN Down(q[2], path[q[1]]) ELSE q[2]]
           none == <<>>
<1>1. n \in Nat /\ \A k \in 1..n : path[k] \in S
    OBVIOUS
<1>2. none \in A
    OBVIOUS
<1>3. step \in [Nat \X A -> A]
    <2>1. \A k \in 1..n : \A p \in A : Down(p, path[k]) \in A
        BY <1>1, DownTyped
    <2> HIDE DEF A, n
    <2>2. QED
        BY <2>1
<1> HIDE DEF A, none
<1>4. PICK f \in [0..n -> A] : f[0] = none /\ \A k \in 1..n : f[k] = step[<<k, f[k - 1]>>]
    <2> HIDE DEF n, step
    <2>1. \E f \in [0..n -> A] : Recursion(none, step, n, f)
        BY <1>1, <1>2, <1>3, RecursionExists
    <2>2. QED
        BY <2>1 DEF Recursion
<1>5. ASSUME NEW k \in 1..n PROVE f[k] = Down(f[k - 1], path[k])
    <2>1. k - 1 \in 0..n /\ k \in Nat
        BY <1>1
    <2>2. <<k, f[k - 1]>> \in Nat \X A
        BY <1>4, <2>1
    <2>3. QED
        BY <1>4, <2>2
<1> HIDE DEF n
<1> DEFINE Fun(g) == g = [k \in 0..n |-> IF k = 0 THEN none ELSE Down(g[k - 1], path[k])]
<1>6. Fun(f)
    <2>1. f = [k \in 0..n |-> f[k]]
        BY <1>4
    <2>2. \A k \in 0..n : k = 0 \/ k \in 1..n
        BY <1>1
    <2>3. ASSUME NEW k \in 0..n PROVE f[k] = IF k = 0 THEN none ELSE Down(f[k - 1], path[k])
        <3>1. CASE k = 0
            BY <1>4, <3>1
        <3>2. CASE k # 0
            BY <1>5, <2>2, <3>2
        <3>3. QED
            BY <3>1, <3>2
    <2>4. QED
        BY <2>1, <2>3
<1> DEFINE c == CHOOSE g : Fun(g)
<1>7. Fun(c)
    BY <1>6
<1>8. Place(path) = c[n]
    BY DEF Place, n, none
<1> HIDE DEF c
<1>9. c[0] = none /\ \A k \in 1..n : c[k] = Down(c[k - 1], path[k])
    <2>1. 0 \in 0..n /\ \A k \in 1..n : k \in 0..n /\ k # 0
        BY <1>1
    <2>2. QED
        BY <1>7, <2>1
<1> DEFINE Same == {k \in Nat : k \in 0..n => c[k] = f[k]}
<1>10. 0 \in Same
    BY <1>4, <1>9
<1>11. ASSUME NEW k \in Nat, k \in Same PROVE k + 1 \in Same
    <2>1. CASE k + 1 \in 0..n
        <3>1. k \in 0..n /\ k + 1 \in 1..n /\ (k + 1) - 1 = k
            BY <1>1, <2>1
        <3>2. c[k] = f[k]
            BY <1>11, <3>1
        <3>3. c[k + 1] = f[k + 1]
            BY <1>5, <1>9, <3>1, <3>2
        <3>4. QED
            BY <3>3
    <2>2. CASE k + 1 \notin 0..n
        BY <2>2
    <2>3. QED
        BY <2>1, <2>2
<1> HIDE DEF Same
<1>12. n \in Same
    BY <1>1, <1>10, <1>11, AllNat
<1>13. Place(path) = f[n]
    <2>1. n \in 0..n
        BY <1>1
    <2>2. QED
        BY <1>8, <1>12, <2>1 DEF Same
<1>14. Leads(path, f)
    BY <1>4, <1>5, <1>13 DEF Leads, n, none
<1>15. QED
    BY <1>4, <1>14 DEF A, n

LEMMA PlaceTyped ==
    ASSUME NEW S, NEW path \in Seq(S)
    PROVE  Place(path) \in Seq(S \cup {".."})
<1>1. PICK f \in [0..Len(path) -> Seq(S \cup {".."})] : Leads(path, f)
    BY PlaceLeads
<1>2. Len(path) \in 0..Len(path)
    OBVIOUS
<1>3. QED
    BY <1>1, <1>2 DEF Leads

(* What has left the directory stays outside. *)
LEMMA OutsideStays ==
    ASSUME NEW S, NEW path \in Seq(S), NEW f, Leads(path, f),
           NEW k \in 0..Len(path), f[k] = Outside
    PROVE  Place(path) = Outside
<1> DEFINE n == Len(path)
           Out == {m \in Nat : k + m \in 0..n => f[k + m] = Outside}
<1>1. n \in Nat /\ k \in Nat /\ k + 0 = k /\ k <= n
    OBVIOUS
<1>2. 0 \in Out
    BY <1>1
<1>3. ASSUME NEW m \in Nat, m \in Out PROVE m + 1 \in Out
    <2>1. CASE k + (m + 1) \in 0..n
        <3>1. k + m \in 0..n /\ k + (m + 1) \in 1..n /\ (k + (m + 1)) - 1 = k + m
            BY <1>1, <2>1
        <3>2. f[k + m] = Outside
            BY <1>3, <3>1
        <3>3. f[k + (m + 1)] = Down(f[k + m], path[k + (m + 1)])
            BY <3>1 DEF Leads
        <3>4. f[k + (m + 1)] = Outside
            BY <3>2, <3>3 DEF Down
        <3>5. QED
            BY <3>4
    <2>2. CASE k + (m + 1) \notin 0..n
        BY <2>2
    <2>3. QED
        BY <2>1, <2>2
<1>4. n - k \in Nat /\ k + (n - k) = n /\ n \in 0..n
    BY <1>1
<1> HIDE DEF Out
<1>5. n - k \in Out
    BY <1>2, <1>3, <1>4, AllNat
<1>6. f[n] = Outside
    BY <1>4, <1>5 DEF Out
<1>7. QED
    BY <1>6 DEF Leads

(* The place of a name is that of the rest of it, below that of its first  *)
(* segment.                                                                *)
LEMMA PlaceBelow ==
    ASSUME NEW S, NEW path \in Seq(S), path # <<>>,
           Place(Tail(path)) # Outside, Down(<<>>, path[1]) # Outside
    PROVE  Place(path) = Down(<<>>, path[1]) \o Place(Tail(path))
<1> DEFINE R == S \cup {".."}
           n == Len(path)
           tail == Tail(path)
           top == Down(<<>>, path[1])
<1>1. n \in Nat /\ n >= 1 /\ path[1] \in S /\ \A k \in 1..n : path[k] \in S
    OBVIOUS
<1>2. tail \in Seq(S) /\ Len(tail) = n - 1 /\ \A k \in 1..(n - 1) : tail[k] = path[k + 1]
    BY HeadTailProperties
<1>3. top = <<>> \/ (top = <<path[1]>> /\ path[1] # "..")
    <2>1. <<>> # Outside
        BY DEF Outside
    <2>2. Append(<<>>, path[1]) = <<path[1]>>
        OBVIOUS
    <2> DEFINE none == <<>>
    <2>3. top = none \/ (top = Append(none, path[1]) /\ path[1] # "..")
        <3>1. none # Outside /\ Down(none, path[1]) # Outside
            BY <2>1
        <3> HIDE DEF none
        <3>2. path[1] = ".." => (Down(none, path[1]) = Outside \/ none # <<>>)
            BY <3>1 DEF Down
        <3>3. none = <<>>
            BY DEF none
        <3>4. path[1] # ".."
            BY <3>1, <3>2, <3>3
        <3>5. Down(none, path[1]) \in {none, Append(none, path[1])}
            BY <3>1, <3>4 DEF Down
        <3>6. QED
            BY <3>4, <3>5, <3>3
    <2>4. QED
        BY <2>2, <2>3
<1>4. top \in Seq(R)
    <2>1. path[1] \in R
        BY <1>1
    <2> HIDE DEF R, top
    <2>2. <<path[1]>> \in Seq(R) /\ <<>> \in Seq(R)
        BY <2>1
    <2>3. QED
        BY <1>3, <2>2
<1>5. PICK f \in [0..n -> Seq(R)] : Leads(path, f)
    BY PlaceLeads
<1>6. PICK g \in [0..(n - 1) -> Seq(R)] : Leads(tail, g)
    <2>1. \E g \in [0..Len(tail) -> Seq(R)] : Leads(tail, g)
        BY <1>2, PlaceLeads
    <2>2. QED
        BY <1>2, <2>1
<1> HIDE DEF tail, top
<1>7. ASSUME NEW k \in 0..(n - 1) PROVE g[k] # Outside
    <2>1. k \in 0..Len(tail)
        BY <1>2
    <2>2. QED
        BY <1>2, <1>6, <2>1, OutsideStays DEF tail
<1>8. ASSUME NEW q \in Seq(R), q # Outside PROVE top \o q # Outside
    <2>1. CASE top = <<>>
        <3> HIDE DEF R
        <3>1. <<>> \o q = q
            BY <1>8, ConcatEmptySeq
        <3>2. QED
            BY <1>8, <2>1, <3>1
    <2>2. CASE top = <<path[1]>> /\ path[1] # ".."
        <3>1. top \in Seq(R) /\ Len(top) = 1 /\ top[1] = path[1]
            BY <1>4, <2>2
        <3> HIDE DEF R
        <3>2. Len(top) + Len(q) >= 1 /\ 1 \in 1..(Len(top) + Len(q)) /\ 1 <= Len(top)
            BY <1>8, <3>1
        <3>3. (top \o q)[1] = top[1]
            BY <1>8, <3>1, <3>2, ConcatProperties
        <3>4. Outside[1] = ".."
            BY DEF Outside
        <3>5. QED
            BY <2>2, <3>1, <3>3, <3>4
    <2>3. QED
        BY <1>3, <2>1, <2>2
<1>9. ASSUME NEW q \in Seq(R), q # Outside, NEW s \in S, Down(q, s) # Outside
      PROVE  Down(top \o q, s) = top \o Down(q, s)
    <2>1. top \o q # Outside /\ top \o q \in Seq(R)
        <3> HIDE DEF R
        <3>1. top \o q \in Seq(R)
            BY <1>4, <1>9, ConcatProperties
        <3>2. QED
            BY <1>8, <1>9, <3>1
    <2>2. CASE s \in {"", "."}
        BY <2>2 DEF Down
    <2>3. CASE s = ".."
        <3>1. q # <<>> /\ Down(q, s) = Front(q)
            BY <1>9, <2>3 DEF Down
        <3>2. Len(q) \in Nat /\ Len(q) >= 1 /\ Len(top) \in Nat /\ Len(top \o q) = Len(top) + Len(q)
            BY <1>4, <3>1
        <3>3. top \o q # <<>>
            BY <2>1, <3>2
        <3>4. Down(top \o q, s) = Front(top \o q)
            BY <2>1, <2>3, <3>3 DEF Down
        <3> DEFINE left == Front(top \o q)
                   right == top \o Front(q)
        <3>5. /\ Front(q) \in Seq(R) /\ Len(Front(q)) = Len(q) - 1
              /\ \A i \in 1..(Len(q) - 1) : Front(q)[i] = q[i]
            <4>1. \A i \in 1..(Len(q) - 1) : q[i] \in R
                BY <3>2
            <4>2. Len(q) - 1 \in Int
                BY <3>2
            <4> HIDE DEF R
            <4>3. /\ Front(q) \in Seq(R)
                  /\ Len(Front(q)) = IF 1 <= Len(q) - 1 THEN (Len(q) - 1) - 1 + 1 ELSE 0
                  /\ \A i \in 1..((Len(q) - 1) - 1 + 1) : Front(q)[i] = q[1 + i - 1]
                BY <4>1, <4>2, SubSeqProperties DEF Front
            <4>4. (Len(q) - 1) - 1 + 1 = Len(q) - 1 /\ \A i \in 1..(Len(q) - 1) : 1 + i - 1 = i
                BY <3>2
            <4>5. Len(Front(q)) = Len(q) - 1
                <5>1. (IF 1 <= Len(q) - 1 THEN (Len(q) - 1) - 1 + 1 ELSE 0) = Len(q) - 1
                    <6>1. \A l \in Nat : l >= 1 => (IF 1 <= l - 1 THEN (l - 1) - 1 + 1 ELSE 0) = l - 1
                        OBVIOUS
                    <6>2. QED
                        BY <3>2, <6>1
                <5>2. QED
                    BY <4>3, <5>1
            <4>6. ASSUME NEW i \in 1..(Len(q) - 1) PROVE Front(q)[i] = q[i]
                <5>1. i \in 1..((Len(q) - 1) - 1 + 1) /\ 1 + i - 1 = i
                    BY <3>2
                <5>2. QED
                    BY <4>3, <5>1
            <4>7. QED
                BY <4>3, <4>5, <4>6
        <3>6. /\ left \in Seq(R) /\ Len(left) = Len(top) + Len(q) - 1
              /\ \A i \in 1..(Len(top) + Len(q) - 1) : left[i] = (top \o q)[i]
            <4> DEFINE w == top \o q
                       m == Len(w) - 1
            <4>1. w \in Seq(R) /\ m \in Nat /\ m = Len(top) + Len(q) - 1
                BY <2>1, <3>2
            <4>2. \A i \in 1..m : w[i] \in R
                BY <4>1
            <4>6. m \in Int /\ left = SubSeq(w, 1, m)
                BY <4>1 DEF Front
            <4> HIDE DEF R, w, m, left
            <4>3. /\ left \in Seq(R) /\ Len(left) = IF 1 <= m THEN m - 1 + 1 ELSE 0
                  /\ \A i \in 1..(m - 1 + 1) : left[i] = w[1 + i - 1]
                BY <4>2, <4>6, SubSeqProperties
            <4>4. m - 1 + 1 = m /\ \A i \in 1..m : 1 + i - 1 = i
                BY <4>1
            <4>5. QED
                BY <4>1, <4>3, <4>4 DEF w
        <3>7. /\ right \in Seq(R) /\ Len(right) = Len(top) + Len(q) - 1
              /\ \A i \in 1..(Len(top) + Len(q) - 1) :
                    right[i] = IF i <= Len(top) THEN top[i] ELSE Front(q)[i - Len(top)]
            <4> DEFINE left2 == Front(q)
            <4>1. left2 \in Seq(R) /\ Len(left2) = Len(q) - 1 /\ Len(q) \in Nat /\ Len(top) \in Nat
                BY <3>2, <3>5
            <4>2. right = top \o left2
                OBVIOUS
            <4> HIDE DEF R, left2, right
            <4>3. /\ top \o left2 \in Seq(R) /\ Len(top \o left2) = Len(top) + Len(left2)
                  /\ \A i \in 1..(Len(top) + Len(left2)) :
                        (top \o left2)[i] = IF i <= Len(top) THEN top[i] ELSE left2[i - Len(top)]
                BY <1>4, <4>1, ConcatProperties
            <4>4. Len(top) + Len(left2) = Len(top) + Len(q) - 1
                BY <4>1
            <4>5. QED
                BY <4>2, <4>3, <4>4 DEF left2
        <3>8. ASSUME NEW i \in 1..(Len(top) + Len(q) - 1) PROVE left[i] = right[i]
            <4>1. CASE i <= Len(top)
                <5>1. (top \o q)[i] = top[i]
                    BY <1>4, <3>2, <4>1
                <5>2. QED
                    BY <3>6, <3>7, <4>1, <5>1
            <4>2. CASE ~(i <= Len(top))
                <5>1. i - Len(top) \in 1..(Len(q) - 1)
                    BY <3>2, <4>2
                <5>2. (top \o q)[i] = q[i - Len(top)]
                    BY <1>4, <3>2, <4>2
                <5>3. QED
                    BY <3>5, <3>6, <3>7, <4>2, <5>1, <5>2
            <4>3. QED
                BY <4>1, <4>2
        <3> HIDE DEF left, right, R
        <3>9. left = right
            BY <3>6, <3>7, <3>8, SeqEqual
        <3>10. QED
            BY <3>1, <3>4, <3>9 DEF left, right
    <2>4. CASE s \notin {"", ".", ".."}
        <3>1. Down(q, s) = Append(q, s) /\ Down(top \o q, s) = Append(top \o q, s)
            BY <1>9, <2>1, <2>4 DEF Down
        <3>2. s \in R
            OBVIOUS
        <3> HIDE DEF R
        <3>3. Append(top \o q, s) = top \o Append(q, s)
            <4>1. q \in Seq(R) /\ top \o q \in Seq(R) /\ <<s>> \in Seq(R)
                BY <1>9, <2>1, <3>2
            <4>2. Append(top \o q, s) = (top \o q) \o <<s>> /\ Append(q, s) = q \o <<s>>
                BY <3>2, <4>1, AppendIsConcat
            <4>3. (top \o q) \o <<s>> = top \o (q \o <<s>>)
                BY <1>4, <4>1, ConcatAssociative
            <4>4. QED
                BY <4>2, <4>3
        <3>4. QED
            BY <3>1, <3>3
    <2>5. QED
        BY <2>2, <2>3, <2>4
<1> HIDE DEF R
<1> DEFINE Same == {k \in Nat : k \in 0..(n - 1) => f[k + 1] = top \o g[k]}
<1>10. 0 \in Same
    <2>1. f[1] = top /\ g[0] = <<>>
        <3>1. 1 \in 1..n /\ 1 - 1 = 0
            BY <1>1
        <3>2. f[1] = Down(f[1 - 1], path[1]) /\ f[0] = <<>>
            BY <1>5, <3>1 DEF Leads
        <3>3. g[0] = <<>>
            BY <1>6 DEF Leads
        <3>4. QED
            BY <3>1, <3>2, <3>3 DEF top
    <2>2. top \o <<>> = top
        BY <1>4, ConcatEmptySeq
    <2>3. QED
        BY <2>1, <2>2
<1>11. ASSUME NEW k \in Nat, k \in Same PROVE k + 1 \in Same
    <2>1. CASE k + 1 \in 0..(n - 1)
        <3>1. /\ k \in 0..(n - 1) /\ k + 1 \in 1..(n - 1) /\ (k + 1) - 1 = k
              /\ (k + 1) + 1 \in 1..n /\ ((k + 1) + 1) - 1 = k + 1
            BY <1>1, <2>1
        <3>2. f[k + 1] = top \o g[k]
            BY <1>11, <3>1
        <3>3. f[(k + 1) + 1] = Down(f[k + 1], path[(k + 1) + 1])
            BY <1>5, <3>1 DEF Leads
        <3>4. g[k + 1] = Down(g[k], tail[k + 1]) /\ tail[k + 1] = path[(k + 1) + 1]
            BY <1>2, <1>6, <3>1 DEF Leads
        <3>5. g[k] \in Seq(R) /\ g[k] # Outside /\ g[k + 1] # Outside /\ path[(k + 1) + 1] \in S
            BY <1>1, <1>6, <1>7, <2>1, <3>1
        <3>6. f[(k + 1) + 1] = top \o g[k + 1]
            BY <1>9, <3>2, <3>3, <3>4, <3>5
        <3>7. QED
            BY <3>6
    <2>2. CASE k + 1 \notin 0..(n - 1)
        BY <2>2
    <2>3. QED
        BY <2>1, <2>2
<1> HIDE DEF Same
<1>12. n - 1 \in Nat /\ n - 1 \in 0..(n - 1) /\ (n - 1) + 1 = n
    BY <1>1
<1>13. n - 1 \in Same
    BY <1>10, <1>11, <1>12, AllNat
<1>14. f[n] = top \o g[n - 1]
    BY <1>12, <1>13 DEF Same
<1>15. Place(path) = f[n] /\ Place(tail) = g[n - 1]
    BY <1>2, <1>5, <1>6 DEF Leads
<1>16. QED
    BY <1>14, <1>15 DEF top, tail


(* Two names with the same first segment, below which they have the same   *)
(* place, have the same place.                                             *)
LEMMA SamePlace ==
    ASSUME NEW S, NEW p \in Seq(S), p # <<>>, NEW T, NEW q \in Seq(T), q # <<>>,
           p[1] = q[1], Place(Tail(p)) = Place(Tail(q)),
           Place(Tail(p)) # Outside, Place(p) # Outside
    PROVE  Place(p) = Place(q)
<1>1. Down(<<>>, p[1]) # Outside
    <2>1. PICK f \in [0..Len(p) -> Seq(S \cup {".."})] : Leads(p, f)
        BY PlaceLeads
    <2>2. 1 \in 1..Len(p) /\ 1 \in 0..Len(p) /\ 1 - 1 = 0
        OBVIOUS
    <2>3. f[1] = Down(f[1 - 1], p[1]) /\ f[0] = <<>>
        BY <2>1, <2>2 DEF Leads
    <2>4. f[1] # Outside
        BY <2>1, <2>2, OutsideStays
    <2>5. QED
        BY <2>2, <2>3, <2>4
<1>2. Place(p) = Down(<<>>, p[1]) \o Place(Tail(p))
    BY <1>1, PlaceBelow
<1>3. Place(q) = Down(<<>>, q[1]) \o Place(Tail(q))
    BY <1>1, PlaceBelow
<1>4. QED
    BY <1>2, <1>3

(* The root of the archive has the place of the directory. *)
LEMMA RootPlace == Place(<<>>) = <<>> /\ Place(<<".">>) = <<>>
<1>1. Place(<<>>) = <<>>
    <2> DEFINE none == <<>>
               S == {"."}
    <2>1. none \in Seq(S) /\ Len(none) = 0
        OBVIOUS
    <2> HIDE DEF none, S
    <2>2. PICK f \in [0..Len(none) -> Seq(S \cup {".."})] : Leads(none, f)
        BY <2>1, PlaceLeads
    <2>3. QED
        BY <2>1, <2>2 DEF Leads, none
<1>2. Place(<<".">>) = <<>>
    <2> DEFINE here == <<".">>
               S == {"."}
    <2>1. here \in Seq(S) /\ Len(here) = 1 /\ here[1] = "."
        OBVIOUS
    <2> HIDE DEF here, S
    <2>2. PICK f \in [0..Len(here) -> Seq(S \cup {".."})] : Leads(here, f)
        BY <2>1, PlaceLeads
    <2>3. 1 \in 1..Len(here) /\ 1 - 1 = 0
        BY <2>1
    <2>4. f[0] = <<>> /\ f[1] = Down(f[0], ".") /\ Place(here) = f[1]
        BY <2>1, <2>2, <2>3 DEF Leads
    <2>5. QED
        BY <2>4 DEF Down, here
<1>3. QED
    BY <1>1, <1>2

-----------------------------------------------------------------------------
(* The place that entry i has, as long as no other wrapper is found. *)
Used(i) == Place(Stripped(download.entries[i], topDir))

TopIsFirst ==
    /\ topDir = NoDir => \A i \in Packed : i < entry => ~HasSlash(download.entries[i])
    /\ topDir # NoDir => \E i \in DOMAIN download.entries :
                            HasSlash(download.entries[i]) /\ <<Path(i)[1]>> = topDir

FilesAreUsed ==
    \A q \in Extracted : /\ tree[q] \in Packed /\ tree[q] < entry
                     /\ Used(tree[q]) = q /\ q \notin {<<>>, Outside}

UsedAreFiles ==
    \A i \in Packed : i < entry /\ Used(i) \notin {<<>>, Outside} =>
                        Used(i) \in Extracted /\ tree[Used(i)] >= i

ArchiveInv ==
    /\ download \in Downloads /\ entry \in Nat /\ entry >= 1
    /\ fetch = "response" => entry = 1 /\ topDir = NoDir /\ Extracted = {}
    /\ fetch = "extracted" => entry > Len(download.entries)
    /\ fetch \in {"extract", "extracted"} => TopIsFirst /\ FilesAreUsed /\ UsedAreFiles

LEMMA EntryTyped ==
    ASSUME ArchiveInv, NEW i \in DOMAIN download.entries
    PROVE  /\ i \in Nat /\ i >= 1 /\ i <= Len(download.entries) /\ Len(download.entries) \in Nat
           /\ Path(i) \in Seq({Path(i)[k] : k \in DOMAIN Path(i)})
           /\ Path(i) # <<>> /\ <<Path(i)[1]>> # NoDir
<1>1. download.entries \in Seq({download.entries[k] : k \in DOMAIN download.entries})
    BY DownloadAssumption DEF ArchiveInv
<1>2. /\ Path(i) \in Seq({Path(i)[k] : k \in DOMAIN Path(i)})
      /\ Path(i) # <<>>
    BY DownloadAssumption DEF ArchiveInv, Path
<1>5. <<Path(i)[1]>> # NoDir
    BY DEF NoDir
<1>3. DOMAIN download.entries = 1..Len(download.entries) /\ Len(download.entries) \in Nat
    BY <1>1
<1>4. QED
    BY <1>2, <1>3, <1>5

LEMMA ArchiveInitial == ArchiveInit => ArchiveInv
<1> SUFFICES ASSUME ArchiveInit PROVE ArchiveInv
    OBVIOUS
<1>1. Extracted = {}
    BY DEF ArchiveInit, Extracted
<1>2. fetch = "response" /\ download \in Downloads /\ entry = 1 /\ topDir = NoDir
    BY DEF ArchiveInit
<1>3. QED
    BY <1>1, <1>2 DEF ArchiveInv

(* An entry that has been read keeps its place. *)
LEMMA UsedStays ==
    ASSUME ArchiveInv, fetch = "extract", Entry
    PROVE  \A i \in Packed : i < entry => Used(i)' = Used(i)
<1> SUFFICES ASSUME NEW i \in Packed, i < entry PROVE Used(i)' = Used(i)
    OBVIOUS
<1>1. download' = download /\ topDir' = Wrapper(download.entries[entry])
    BY DEF Entry
<1>2. CASE topDir' = topDir
    BY <1>1, <1>2 DEF Used
<1>3. CASE topDir = NoDir
    <2>1. ~HasSlash(download.entries[i])
        BY <1>3 DEF ArchiveInv, TopIsFirst
    <2>2. QED
        BY <1>1, <2>1 DEF Used, Stripped
<1>4. QED
    BY <1>1, <1>2, <1>3 DEF Wrapper

(* What making directories does to the files. *)
LEMMA DirsKeepFiles ==
    ASSUME NEW dirs, CanMake(dirs)
    PROVE  LET new == With(dirs, Dir)
           IN  /\ \A q \in DOMAIN new : new[q] # Dir => q \in Extracted /\ new[q] = tree[q]
               /\ \A q \in Extracted : q \in DOMAIN new /\ new[q] = tree[q]
<1>1. \A q \in Extracted : q \notin dirs
    BY DEF CanMake, Extracted
<1>2. QED
    BY <1>1 DEF With, Extracted

LEMMA FileIsWritten ==
    ASSUME NEW dirs, CanMake(dirs), NEW p, NEW n, n # Dir,
           tree' = [With(dirs \cup {p}, Dir) EXCEPT ![p] = n]
    PROVE  /\ Extracted' = Extracted \cup {p} /\ tree'[p] = n
           /\ \A q \in Extracted : q # p => tree'[q] = tree[q]
<1>1. \A q \in Extracted : q \notin dirs
    BY DEF CanMake, Extracted
<1>2. DOMAIN tree' = (dirs \cup {p}) \cup DOMAIN tree
    BY DEF With
<1>3. tree'[p] = n
    BY <1>2 DEF With
<1>4. \A q \in DOMAIN tree' : q # p => tree'[q] = IF q \in dirs THEN Dir ELSE tree[q]
    BY <1>2 DEF With
<1>5. \A q \in Extracted : q # p => tree'[q] = tree[q] /\ q \in DOMAIN tree'
    BY <1>1, <1>2, <1>4 DEF Extracted
<1>6. Extracted' = Extracted \cup {p}
    <2>1. \A q : q \in Extracted' <=> q \in DOMAIN tree' /\ tree'[q] # Dir
        BY DEF Extracted
    <2>2. \A q : q \in Extracted' <=> q \in Extracted \cup {p}
        BY <1>2, <1>3, <1>4, <1>5, <2>1 DEF Extracted
    <2>3. QED
        BY <2>2
<1>7. QED
    BY <1>3, <1>5, <1>6

LEMMA EntryStep ==
    ASSUME ArchiveInv, Entry
    PROVE  ArchiveInv'
<1> DEFINE e == download.entries[entry]
           tail == Stripped(e, Wrapper(e))
           p == Place(tail)
           dirs == IF e.type = "dir" THEN Along(p) ELSE Along(Front(p))
           over == tail \in {<<>>, <<".">>} \/ p \in {<<>>, Outside} \/ e.type = "other"
<1>1. /\ fetch = "extract" /\ entry <= Len(download.entries) /\ topDir' = Wrapper(e)
      /\ entry' = entry + 1 /\ download' = download
    BY DEF Entry
<1>2. /\ entry \in Nat /\ entry >= 1 /\ download \in Downloads
      /\ TopIsFirst /\ FilesAreUsed /\ UsedAreFiles
    BY <1>1 DEF ArchiveInv
<1>3. entry \in DOMAIN download.entries /\ entry' \in Nat /\ entry' >= 1
    <2>1. download.entries \in Seq({download.entries[k] : k \in DOMAIN download.entries})
        BY <1>2, DownloadAssumption
    <2>2. QED
        BY <1>1, <1>2, <2>1
<1>4. Path(entry) = e.path /\ <<Path(entry)[1]>> # NoDir
    BY <1>3, EntryTyped DEF Path
<1>5. Packed' = Packed
    BY <1>1 DEF Packed
<1>6. PICK n \in Nat : n = entry
    BY <1>2
<1>7. Used(n)' = p
    BY <1>1, <1>6 DEF Used
<1>8. \A i \in Packed : i < entry => Used(i)' = Used(i)
    BY <1>1, UsedStays
<1>9. TopIsFirst'
    <2>1. CASE topDir' = NoDir
        <3>1. topDir = NoDir /\ ~HasSlash(e)
            BY <1>1, <1>4, <2>1 DEF Wrapper
        <3>2. \A i \in Packed : i < entry => ~HasSlash(download.entries[i])
            BY <1>2, <3>1 DEF TopIsFirst
        <3>3. \A i \in Packed : i < entry + 1 => i < entry \/ i = entry
            <4>1. \A i \in Packed : i \in Nat
                BY <1>1, EntryTyped DEF Packed
            <4>2. QED
                BY <1>2, <4>1
        <3>4. \A i \in Packed : i < entry + 1 => ~HasSlash(download.entries[i])
            BY <3>1, <3>2, <3>3
        <3>5. QED
            BY <1>1, <1>5, <2>1, <3>4 DEF TopIsFirst
    <2>2. CASE topDir' # NoDir
        <3>1. \E i \in DOMAIN download.entries : HasSlash(download.entries[i]) /\ <<Path(i)[1]>> = topDir'
            <4>1. CASE topDir' = topDir
                BY <1>2, <2>2, <4>1 DEF TopIsFirst
            <4>2. CASE topDir' # topDir
                <5>1. topDir' = <<e.path[1]>> /\ HasSlash(e)
                    BY <1>1, <4>2 DEF Wrapper
                <5>2. QED
                    BY <1>3, <1>4, <5>1
            <4>3. QED
                BY <4>1, <4>2
        <3>2. \E i \in DOMAIN download'.entries : HasSlash(download'.entries[i]) /\ <<Path(i)'[1]>> = topDir'
            BY <1>1, <3>1 DEF Path
        <3>3. QED
            BY <2>2, <3>2 DEF TopIsFirst
    <2>3. QED
        BY <2>1, <2>2
<1>10. ASSUME FilesAreUsed', UsedAreFiles' PROVE ArchiveInv'
    <2>1. fetch' # "response" /\ fetch' # "extracted"
        BY <1>1 DEF Entry
    <2>2. QED
        BY <1>1, <1>2, <1>3, <1>9, <1>10, <2>1 DEF ArchiveInv
<1>11. ASSUME fetch' = "failed" PROVE ArchiveInv'
    BY <1>1, <1>2, <1>3, <1>11 DEF ArchiveInv
<1>14. \A i \in Packed : i \in Nat /\ (i < entry' => i < entry \/ i = entry)
    <2>1. \A i \in Packed : i \in Nat
        BY <1>1, EntryTyped DEF Packed
    <2>2. QED
        BY <1>1, <1>2, <2>1
<1>12. ASSUME Extracted' = Extracted, \A q \in Extracted : tree'[q] = tree[q],
              entry \in Packed => p \in {<<>>, Outside}
       PROVE  ArchiveInv'
    <2>1. ASSUME NEW q \in Extracted PROVE /\ tree'[q] \in Packed' /\ tree'[q] < entry'
                                       /\ Used(tree[q])' = q /\ q \notin {<<>>, Outside}
        <3>1. PICK i \in Packed : i = tree[q] /\ i < entry /\ Used(i) = q /\ q \notin {<<>>, Outside}
            BY <1>2 DEF FilesAreUsed
        <3>2. Used(i)' = q /\ tree'[q] = i
            BY <1>8, <1>12, <3>1
        <3>3. i \in Nat /\ i < entry'
            BY <1>1, <1>2, <3>1, EntryTyped DEF Packed
        <3>4. Used(tree[q])' = Used(i)'
            BY <3>1, <3>2
        <3>5. QED
            BY <1>5, <3>1, <3>2, <3>3, <3>4
    <2>2. FilesAreUsed'
        BY <1>12, <2>1 DEF FilesAreUsed
    <2>3. ASSUME NEW i \in Packed, i < entry', Used(i)' \notin {<<>>, Outside}
          PROVE  Used(i)' \in Extracted' /\ tree'[Used(i)'] >= i
        <3>1. i < entry
            BY <1>6, <1>7, <1>12, <1>14, <2>3
        <3>2. Used(i)' = Used(i) /\ Used(i) \notin {<<>>, Outside}
            BY <1>8, <2>3, <3>1
        <3>3. Used(i) \in Extracted /\ tree[Used(i)] >= i
            BY <1>2, <3>1, <3>2 DEF UsedAreFiles
        <3>4. QED
            BY <1>12, <3>2, <3>3
    <2>5. UsedAreFiles'
        BY <1>5, <2>3 DEF UsedAreFiles
    <2>4. QED
        BY <1>10, <2>2, <2>5
<1>13. ASSUME entry \in Packed, p \notin {<<>>, Outside},
              Extracted' = Extracted \cup {p}, tree'[p] = entry,
              \A q \in Extracted : q # p => tree'[q] = tree[q]
       PROVE  ArchiveInv'
    <2>1. ASSUME NEW q \in Extracted' PROVE /\ tree'[q] \in Packed' /\ tree'[q] < entry'
                                        /\ Used(tree[q])' = q /\ q \notin {<<>>, Outside}
        <3>1. CASE q = p
            <4>1. Used(tree[q])' = Used(n)'
                BY <1>6, <1>13, <3>1
            <4>2. entry < entry'
                BY <1>1, <1>2
            <4>3. QED
                BY <1>5, <1>7, <1>13, <3>1, <4>1, <4>2
        <3>2. CASE q # p
            <4>1. PICK i \in Packed : i = tree[q] /\ i < entry /\ Used(i) = q /\ q \notin {<<>>, Outside}
                BY <1>2, <1>13, <2>1, <3>2 DEF FilesAreUsed
            <4>2. Used(i)' = q /\ tree'[q] = i
                BY <1>8, <1>13, <2>1, <3>2, <4>1
            <4>3. i < entry'
                BY <1>1, <1>2, <1>14, <4>1
            <4>4. Used(tree[q])' = Used(i)'
                BY <4>1, <4>2
            <4>5. QED
                BY <1>5, <4>1, <4>2, <4>3, <4>4
        <3>3. QED
            BY <3>1, <3>2
    <2>2. FilesAreUsed'
        BY <2>1 DEF FilesAreUsed
    <2>3. ASSUME NEW i \in Packed, i < entry', Used(i)' \notin {<<>>, Outside}
          PROVE  Used(i)' \in Extracted' /\ tree'[Used(i)'] >= i
        <3>1. CASE Used(i)' = p
            <4>1. i <= entry
                BY <1>2, <1>14, <2>3
            <4>2. QED
                BY <1>13, <1>14, <1>2, <3>1, <4>1
        <3>2. CASE Used(i)' # p
            <4>1. i < entry
                BY <1>6, <1>7, <1>14, <2>3, <3>2
            <4>2. Used(i)' = Used(i)
                BY <1>8, <4>1
            <4>3. Used(i) \in Extracted /\ tree[Used(i)] >= i
                BY <1>2, <2>3, <4>1, <4>2 DEF UsedAreFiles
            <4>4. QED
                BY <1>13, <3>2, <4>2, <4>3
        <3>3. QED
            BY <3>1, <3>2
    <2>4. UsedAreFiles'
        BY <1>5, <2>3 DEF UsedAreFiles
    <2>5. QED
        BY <1>10, <2>2, <2>4
<1>15. CASE over /\ UNCHANGED <<fetch, tree>>
    <2>1. Extracted' = Extracted
        BY <1>15 DEF Extracted
    <2>2. entry \in Packed => p \in {<<>>, Outside}
        <3>1. tail \in {<<>>, <<".">>} => p = <<>>
            BY RootPlace
        <3>2. entry \in Packed => e.type # "other"
            BY DEF Packed
        <3>3. QED
            BY <1>15, <3>1, <3>2
    <2>3. QED
        BY <1>12, <1>15, <2>1, <2>2
<1>16. CASE p \notin {<<>>, Outside} /\ e.type = "dir" /\ CanMake(dirs) /\ tree' = With(dirs, Dir)
    <2> HIDE DEF p, dirs
    <2>1. /\ \A q \in DOMAIN tree' : tree'[q] # Dir => q \in Extracted /\ tree'[q] = tree[q]
          /\ \A q \in Extracted : q \in DOMAIN tree' /\ tree'[q] = tree[q]
        BY <1>16, DirsKeepFiles
    <2>2. Extracted' = Extracted
        <3>1. \A q : q \in Extracted' <=> q \in DOMAIN tree' /\ tree'[q] # Dir
            BY DEF Extracted
        <3>2. \A q \in Extracted : tree[q] # Dir
            BY DEF Extracted
        <3>3. \A q : q \in Extracted' <=> q \in Extracted
            BY <2>1, <3>1, <3>2
        <3>4. QED
            BY <3>3
    <2>3. entry \notin Packed
        BY <1>16 DEF Packed
    <2>4. QED
        BY <1>12, <2>1, <2>2, <2>3
<1>17. CASE /\ p \notin {<<>>, Outside} /\ e.type = "file" /\ CanMake(dirs)
            /\ tree' = [With(dirs \cup {p}, Dir) EXCEPT ![p] = entry]
    <2> HIDE DEF p, dirs
    <2>1. entry # Dir
        BY <1>2 DEF Dir
    <2>2. CanMake(dirs) /\ tree' = [With(dirs \cup {p}, Dir) EXCEPT ![p] = entry]
        BY <1>17, Zenon
    <2>3. /\ Extracted' = Extracted \cup {p} /\ tree'[p] = entry
          /\ \A q \in Extracted : q # p => tree'[q] = tree[q]
        BY <2>1, <2>2, FileIsWritten, Zenon
    <2>4. entry \in Packed
        BY <1>3, <1>17 DEF Packed
    <2>5. QED
        BY <1>13, <1>17, <2>3, <2>4
<1>18. e.type \in {"dir", "file", "other"}
    BY <1>2, <1>3, DownloadAssumption
<1>19. \/ over /\ UNCHANGED <<fetch, tree>>
       \/ fetch' = "failed"
       \/ p \notin {<<>>, Outside} /\ e.type = "dir" /\ CanMake(dirs) /\ tree' = With(dirs, Dir)
       \/ /\ p \notin {<<>>, Outside} /\ e.type \notin {"dir", "other"} /\ CanMake(dirs)
          /\ tree' = [With(dirs \cup {p}, Dir) EXCEPT ![p] = entry]
    BY Zenon DEF Entry
<1>20. QED
    BY <1>11, <1>15, <1>16, <1>17, <1>18, <1>19

LEMMA ArchiveInductive == ArchiveInv /\ [ArchiveNext]_archiveVars => ArchiveInv'
<1> SUFFICES ASSUME ArchiveInv, [ArchiveNext]_archiveVars PROVE ArchiveInv'
    OBVIOUS
<1>1. CASE Response
    <2>1. /\ fetch = "response" /\ fetch' \in {"extract", "saved", "failed"}
          /\ UNCHANGED <<download, entry, topDir>>
        BY <1>1 DEF Response
    <2>2. fetch' = "extract" => tree' = tree
        BY <1>1 DEF Response
    <2>3. entry = 1 /\ topDir = NoDir /\ Extracted = {} /\ download \in Downloads
        BY <2>1 DEF ArchiveInv
    <2>4. CASE fetch' = "extract"
        <3>1. Extracted' = {}
            BY <2>2, <2>3, <2>4 DEF Extracted
        <3>2. \A i \in Packed' : i \in Nat /\ i >= 1 /\ ~(i < entry')
            <4>1. Packed' = Packed
                BY <2>1 DEF Packed
            <4>2. \A i \in Packed : i \in Nat /\ i >= 1
                BY EntryTyped DEF Packed
            <4>3. QED
                BY <2>1, <2>3, <4>1, <4>2
        <3>3. TopIsFirst' /\ FilesAreUsed' /\ UsedAreFiles'
            BY <2>1, <2>3, <3>1, <3>2 DEF TopIsFirst, FilesAreUsed, UsedAreFiles
        <3>4. QED
            BY <2>1, <2>3, <2>4, <3>3 DEF ArchiveInv
    <2>5. CASE fetch' # "extract"
        BY <2>1, <2>3, <2>5 DEF ArchiveInv
    <2>6. QED
        BY <2>4, <2>5
<1>2. CASE Entry
    BY <1>2, EntryStep
<1>3. CASE EndOfArchive \/ UNCHANGED archiveVars
    <2>1. UNCHANGED <<download, entry, topDir, tree>>
        BY <1>3 DEF EndOfArchive, archiveVars
    <2>2. /\ TopIsFirst' <=> TopIsFirst
          /\ FilesAreUsed' <=> FilesAreUsed
          /\ UsedAreFiles' <=> UsedAreFiles
          /\ Extracted' = Extracted
        BY <2>1 DEF TopIsFirst, FilesAreUsed, UsedAreFiles, Extracted, Used, Packed, Path
    <2>3. \/ fetch' = fetch
          \/ fetch' = "failed"
          \/ fetch = "extract" /\ fetch' = "extracted" /\ entry > Len(download.entries)
        BY <1>3 DEF EndOfArchive, archiveVars
    <2>4. QED
        BY <2>1, <2>2, <2>3 DEF ArchiveInv
<1>4. QED
    BY <1>1, <1>2, <1>3 DEF ArchiveNext

LEMMA ArchiveInvKeeps == ArchiveInv => ArchiveIsKept
<1> SUFFICES ASSUME ArchiveInv, fetch = "extracted"
             PROVE  ArchiveIsKept
    BY DEF ArchiveIsKept
<1>1. entry > Len(download.entries) /\ TopIsFirst /\ FilesAreUsed /\ UsedAreFiles /\ entry \in Nat
    BY DEF ArchiveInv
<1>2. \A i \in Packed : i \in DOMAIN download.entries /\ i < entry /\ i \in Nat
    BY <1>1, EntryTyped DEF Packed
<1>3. ASSUME NEW i \in Packed
      PROVE  \/ Used(i) = Named(i)
             \/ HasSlash(download.entries[i]) /\ <<Path(i)[1]>> = topDir /\ Used(i) = Below(i)
    BY DEF Used, Stripped, Named, Below, Path
<1>4. ASSUME NEW dir \in {Path(i)[1] : i \in DOMAIN download.entries}, WrappedIn(dir)
      PROVE  LET Kept == {i \in Packed : Below(i) \notin {<<>>, Outside}}
             IN  /\ Extracted = {Below(i) : i \in Kept}
                 /\ \A i \in Kept : tree[Below(i)] >= i /\ Below(tree[Below(i)]) = Below(i)
    <2>1. ASSUME NEW i \in Packed PROVE Used(i) = Below(i)
        <3>1. HasSlash(download.entries[i]) /\ Path(i)[1] = dir
            BY <1>2, <1>4 DEF WrappedIn, Packed, Path
        <3>2. topDir # NoDir
            BY <1>1, <1>2, <3>1 DEF TopIsFirst
        <3>3. topDir = <<dir>>
            BY <1>1, <1>4, <3>2 DEF TopIsFirst, WrappedIn, Path
        <3>4. QED
            BY <3>1, <3>3 DEF Used, Stripped, Below, Path
    <2> DEFINE Kept == {i \in Packed : Below(i) \notin {<<>>, Outside}}
    <2>2. \A q \in Extracted : q \in {Below(i) : i \in Kept}
        BY <1>1, <2>1 DEF FilesAreUsed
    <2>3. ASSUME NEW i \in Kept
          PROVE  Below(i) \in Extracted /\ tree[Below(i)] >= i /\ Below(tree[Below(i)]) = Below(i)
        <3>1. Below(i) \in Extracted /\ tree[Below(i)] >= i
            BY <1>1, <1>2, <2>1 DEF UsedAreFiles
        <3>2. tree[Below(i)] \in Packed /\ Used(tree[Below(i)]) = Below(i)
            BY <1>1, <3>1 DEF FilesAreUsed
        <3>3. QED
            BY <2>1, <3>1, <3>2
    <2>4. Extracted = {Below(i) : i \in Kept}
        BY <2>2, <2>3
    <2>5. QED
        BY <2>3, <2>4
<1>5. ASSUME NEW i \in Packed,
             Outside \notin {Named(i), Below(i)}, Named(i) # <<>>,
             HasSlash(download.entries[i]) => Below(i) # <<>>
      PROVE  \E p \in {Named(i), Below(i)} \cap Extracted :
                LET j == tree[p] IN j >= i /\ (Named(i) \in {Named(j), Below(j)} \/ Below(i) = Named(j))
    <2>1. Used(i) \in {Named(i), Below(i)} /\ Used(i) \notin {<<>>, Outside}
        BY <1>3, <1>5
    <2>2. Used(i) \in Extracted /\ tree[Used(i)] >= i
        BY <1>1, <1>2, <2>1 DEF UsedAreFiles
    <2>3. PICK j \in Packed : j = tree[Used(i)] /\ Used(j) = Used(i)
        BY <1>1, <2>2 DEF FilesAreUsed
    <2>4. Named(i) \in {Named(j), Below(j)} \/ Below(i) = Named(j)
        <3>1. CASE Used(i) = Named(i)
            BY <1>3, <2>3, <3>1
        <3>2. CASE <<Path(i)[1]>> = topDir /\ Used(i) = Below(i)
            <4>1. CASE Used(j) = Named(j)
                BY <2>3, <3>2, <4>1
            <4>2. CASE <<Path(j)[1]>> = topDir /\ Used(j) = Below(j)
                <5>1. Path(i)[1] = Path(j)[1] /\ Below(i) = Below(j)
                    BY <2>3, <3>2, <4>2
                <5>2. /\ Path(i) \in Seq({Path(i)[k] : k \in DOMAIN Path(i)}) /\ Path(i) # <<>>
                      /\ Path(j) \in Seq({Path(j)[k] : k \in DOMAIN Path(j)}) /\ Path(j) # <<>>
                    BY <1>2, EntryTyped
                <5>3. Named(i) = Named(j)
                    BY <1>5, <5>1, <5>2, SamePlace DEF Named, Below
                <5>4. QED
                    BY <5>3
            <4>3. QED
                BY <1>3, <4>1, <4>2
        <3>3. QED
            BY <1>3, <3>1, <3>2
    <2>5. QED
        BY <2>1, <2>2, <2>3, <2>4
<1>6. QED
    BY <1>4, <1>5 DEF ArchiveIsKept

(* extractTarGz: however an archive is made, whatever its wrapper and in    *)
(* whatever order its entries come, extracting it to the end leaves every  *)
(* file where its name says, lost only to a later entry of that place.     *)
THEOREM ArchivesAreKept == ArchiveSpec => []ArchiveIsKept
<1>1. ArchiveSpec => []ArchiveInv
    BY ArchiveInitial, ArchiveInductive, PTL DEF ArchiveSpec
<1>2. QED
    BY <1>1, ArchiveInvKeeps, PTL

-----------------------------------------------------------------------------
(* Credentials: what parseNetrc has after each pair of words is what the   *)
(* definitions up to that pair say.                                        *)
Text == STRING \cup {"default", ""}
Entries == [there : BOOLEAN, login : Text, password : Text]
Currents == {"match", "fallback", "other", "none"}
Parsed == [match : Entries, fallback : Entries, current : Currents, inMacro : BOOLEAN]

(* What p has of a key, when own are the definitions of it. *)
IsValue(own, v) == IF own = {} THEN v = "" ELSE \E d \in LastIn(own) : v = Definition(d)[2]

(* The entry that is read now is one of these. *)
Open(entries, ds) == \E b \in entries : \A e \in ds : Before(b, e) => ~Begins(e)

Reads(p, ds) ==
    /\ p.match.there <=> Machine(ds) # {}
    /\ p.match.there \/ \A d \in ds : Definition(d) # <<"machine", request.host>>
    /\ p.fallback.there <=> Default(ds) # {}
    /\ p.current = "match" <=> Open(Machine(ds), ds)
    /\ p.current = "fallback" <=> Open(Default(ds), ds)
    /\ IsValue(Own(Machine(ds), "login", ds), p.match.login)
    /\ IsValue(Own(Machine(ds), "password", ds), p.match.password)
    /\ IsValue(Own(Default(ds), "login", ds), p.fallback.login)
    /\ IsValue(Own(Default(ds), "password", ds), p.fallback.password)

Pos == Nat \X Nat

(* Positions are in a strict total order. *)
LEMMA BeforeOrder ==
    /\ \A d \in Pos : ~Before(d, d)
    /\ \A d, e \in Pos : ~(Before(d, e) /\ Before(e, d))
    /\ \A d, e \in Pos : d # e => Before(d, e) \/ Before(e, d)
BY DEF Before, Pos

(* The last definition of a key is what an entry says. *)
LEMMA ValueIsSaid ==
    ASSUME NEW entries, NEW key, NEW ds \in SUBSET Pos, NEW v, IsValue(Own(entries, key, ds), v)
    PROVE  Says(entries, key, ds) = v
<1> DEFINE own == Own(entries, key, ds)
<1>1. Says(entries, key, ds) = IF own = {} THEN "" ELSE Definition(Final(own))[2]
    BY DEF Says
<1>2. own \subseteq Pos
    BY DEF Own
<1> HIDE DEF own
<1>3. CASE own = {}
    BY <1>1, <1>3 DEF IsValue, own
<1>4. CASE own # {}
    <2>1. PICK d \in LastIn(own) : v = Definition(d)[2]
        BY <1>4 DEF IsValue, own
    <2>2. d \in own /\ \A e \in own : e \in LastIn(own) => e = d
        BY <1>2, <2>1, BeforeOrder DEF LastIn
    <2>3. Final(own) = d
        BY <2>1, <2>2 DEF Final
    <2>4. QED
        BY <1>1, <1>4, <2>1, <2>3
<1>5. QED
    BY <1>3, <1>4

LEMMA ValueIsNext ==
    ASSUME NEW own \in SUBSET Pos, NEW a \in Pos, \A e \in own : Before(e, a)
    PROVE  IsValue(own \cup {a}, Definition(a)[2])
<1>1. a \in LastIn(own \cup {a})
    BY BeforeOrder DEF LastIn
<1>2. QED
    BY <1>1 DEF IsValue

(* One more definition, after all others. *)
Follows(ds, a) == ds \in SUBSET Pos /\ a \in Pos /\ a \notin ds /\ \A d \in ds : Before(d, a)

(* A later definition takes nothing from an entry, and closes it or not. *)
LEMMA BelongsStays ==
    ASSUME NEW ds, NEW a, Follows(ds, a), NEW entries \in SUBSET ds, NEW more \in SUBSET {a}
    PROVE  /\ \A d \in ds : BelongsTo(entries \cup more, d, ds \cup {a}) <=> BelongsTo(entries, d, ds)
           /\ BelongsTo(entries \cup more, a, ds \cup {a}) <=> Open(entries, ds) /\ ~Begins(a)
           /\ Open(entries \cup more, ds \cup {a}) <=> more = {a} \/ (Open(entries, ds) /\ ~Begins(a))
<1>1. \A d \in ds : Before(d, a) /\ ~Before(a, d)
    BY BeforeOrder DEF Follows
<1>2. ~Before(a, a)
    BY BeforeOrder DEF Follows
<1>3. ASSUME NEW d \in ds
      PROVE  BelongsTo(entries \cup more, d, ds \cup {a}) <=> BelongsTo(entries, d, ds)
    BY <1>1 DEF BelongsTo
<1>4. BelongsTo(entries \cup more, a, ds \cup {a}) <=> Open(entries, ds) /\ ~Begins(a)
    BY <1>1, <1>2 DEF BelongsTo, Open
<1>5. Open(entries \cup more, ds \cup {a}) <=> more = {a} \/ (Open(entries, ds) /\ ~Begins(a))
    BY <1>1, <1>2 DEF Open
<1>6. QED
    BY <1>3, <1>4, <1>5

LEMMA OwnNext ==
    ASSUME NEW ds, NEW a, Follows(ds, a), NEW entries \in SUBSET ds, NEW more \in SUBSET {a},
           NEW key
    PROVE  \A d : d \in Own(entries \cup more, key, ds \cup {a}) <=>
                    \/ d \in Own(entries, key, ds)
                    \/ d = a /\ Definition(a)[1] = key /\ Open(entries, ds) /\ ~Begins(a)
<1>1. \A d : d \in Own(entries \cup more, key, ds \cup {a}) <=>
                d \in ds \cup {a} /\ Definition(d)[1] = key
                /\ BelongsTo(entries \cup more, d, ds \cup {a})
    BY DEF Own
<1>2. \A d : d \in Own(entries, key, ds) <=>
                d \in ds /\ Definition(d)[1] = key /\ BelongsTo(entries, d, ds)
    BY DEF Own
<1>3. a \notin ds
    BY DEF Follows
<1>4. /\ \A d \in ds : BelongsTo(entries \cup more, d, ds \cup {a}) <=> BelongsTo(entries, d, ds)
      /\ BelongsTo(entries \cup more, a, ds \cup {a}) <=> Open(entries, ds) /\ ~Begins(a)
    BY BelongsStays
<1>5. QED
    BY <1>1, <1>2, <1>3, <1>4

(* The first entry of the host stays the first; a default entry is added. *)
LEMMA MachineNext ==
    ASSUME NEW ds, NEW a, Follows(ds, a),
           Machine(ds) # {} \/ \A d \in ds : Definition(d) # <<"machine", request.host>>
    PROVE  /\ Machine(ds) \subseteq ds /\ Default(ds) \subseteq ds
           /\ Machine(ds \cup {a}) = Machine(ds) \cup
                 IF Machine(ds) = {} /\ Definition(a) = <<"machine", request.host>> THEN {a} ELSE {}
           /\ Default(ds \cup {a}) = Default(ds) \cup
                 IF Definition(a) = <<"default", "">> THEN {a} ELSE {}
<1> DEFINE Is(d) == Definition(d) = <<"machine", request.host>>
           one == {d \in ds : Is(d)}
           two == {d \in ds \cup {a} : Is(d)}
<1>1. \A d \in ds : Before(d, a) /\ ~Before(a, d)
    BY BeforeOrder DEF Follows
<1>2. ~Before(a, a) /\ a \notin ds
    BY BeforeOrder DEF Follows
<1>3. Machine(ds) = FirstIn(one) /\ Machine(ds \cup {a}) = FirstIn(two)
    BY DEF Machine
<1>4. Machine(ds) \subseteq ds /\ Default(ds) \subseteq ds
    BY DEF Machine, FirstIn, Default
<1>5. Default(ds \cup {a}) = Default(ds) \cup IF Definition(a) = <<"default", "">> THEN {a} ELSE {}
    BY DEF Default
<1>6. two = one \cup IF Is(a) THEN {a} ELSE {}
    OBVIOUS
<1>7. one \subseteq ds
    OBVIOUS
<1> HIDE DEF one, two, Is
<1>8. CASE Machine(ds) = {}
    <2>1. one = {}
        BY <1>8 DEF one, Is
    <2>2. FirstIn(two) = two
        BY <1>2, <1>6, <2>1 DEF FirstIn
    <2>3. QED
        BY <1>3, <1>4, <1>5, <1>6, <1>8, <2>1, <2>2 DEF Is
<1>9. CASE Machine(ds) # {}
    <2>1. PICK f \in one : f \in FirstIn(one)
        BY <1>3, <1>9 DEF FirstIn
    <2>2. \A d : d \in FirstIn(two) <=> d \in two /\ \A e \in two : ~Before(e, d)
        BY DEF FirstIn
    <2>3. \A d : d \in FirstIn(one) <=> d \in one /\ \A e \in one : ~Before(e, d)
        BY DEF FirstIn
    <2>4. a \notin FirstIn(two)
        BY <1>1, <1>6, <1>7, <2>1, <2>2
    <2>5. \A d \in one : d \in FirstIn(two) <=> d \in FirstIn(one)
        BY <1>1, <1>6, <1>7, <2>2, <2>3
    <2>6. FirstIn(two) = FirstIn(one)
        <3>1. \A d : d \in FirstIn(two) <=> d \in FirstIn(one)
            BY <1>6, <2>2, <2>3, <2>4, <2>5
        <3>2. QED
            BY <3>1
    <2>7. QED
        BY <1>3, <1>4, <1>5, <1>9, <2>6
<1>10. QED
    BY <1>8, <1>9

(* What a pair of words does, field by field. *)
Taken(p, pair, q) ==
    /\ q \in Parsed
    /\ q.match.there <=> (p.match.there \/ pair = <<"machine", request.host>>)
    /\ q.fallback.there <=> (p.fallback.there \/ pair = <<"default", "">>)
    /\ q.match.login =
          IF pair[1] = "login" /\ p.current = "match" THEN pair[2] ELSE p.match.login
    /\ q.match.password =
          IF pair[1] = "password" /\ p.current = "match" THEN pair[2] ELSE p.match.password
    /\ q.fallback.login =
          IF pair[1] = "login" /\ p.current = "fallback" THEN pair[2] ELSE p.fallback.login
    /\ q.fallback.password =
          IF pair[1] = "password" /\ p.current = "fallback" THEN pair[2] ELSE p.fallback.password
    /\ q.current =
          IF pair = <<"machine", request.host>> /\ ~p.match.there THEN "match"
          ELSE IF pair[1] = "machine" THEN "other"
          ELSE IF pair = <<"default", "">> THEN "fallback"
          ELSE IF pair[1] = "macdef" THEN "none" ELSE p.current
    /\ q.inMacro <=> (p.inMacro \/ pair[1] = "macdef")

(* An entry that is not there says nothing. *)
Silent(p) == ~p.match.there => p.match.login = "" /\ p.match.password = ""

LEMMA AnEntryIs ==
    AnEntry \in Entries /\ AnEntry.login = "" /\ AnEntry.password = "" /\ AnEntry.there
BY DEF AnEntry, NoEntry, Entries, Text

(* What the cases of Words make of p. *)
MatchBegun(p) == [p EXCEPT !.match = AnEntry, !.current = "match"]
OtherBegun(p) == [p EXCEPT !.current = "other"]
DefaultBegun(p) == [p EXCEPT !.fallback.there = TRUE, !.current = "fallback"]
MacroBegun(p) == [p EXCEPT !.inMacro = TRUE, !.current = "none"]
WithLogin(p, v) == [p EXCEPT !.match.login = v]
WithPassword(p, v) == [p EXCEPT !.match.password = v]
WithDefaultLogin(p, v) == [p EXCEPT !.fallback.login = v]
WithDefaultPassword(p, v) == [p EXCEPT !.fallback.password = v]

LEMMA CurrentsThere == "match" \in Currents /\ "other" \in Currents /\ "fallback" \in Currents /\ "none" \in Currents
BY DEF Currents

LEMMA MatchSet ==
    ASSUME NEW p \in Parsed
    PROVE  LET q == MatchBegun(p)
           IN  /\ q \in Parsed /\ q.match = AnEntry /\ q.current = "match"
               /\ q.inMacro = p.inMacro /\ q.fallback = p.fallback
BY AnEntryIs, CurrentsThere DEF Parsed, MatchBegun

LEMMA OtherSet ==
    ASSUME NEW p \in Parsed
    PROVE  LET q == OtherBegun(p)
           IN  /\ q \in Parsed /\ q.match = p.match /\ q.current = "other"
               /\ q.inMacro = p.inMacro /\ q.fallback = p.fallback
BY CurrentsThere DEF Parsed, OtherBegun

LEMMA DefaultSet ==
    ASSUME NEW p \in Parsed
    PROVE  LET q == DefaultBegun(p)
           IN  /\ q \in Parsed /\ q.match = p.match /\ q.current = "fallback"
               /\ q.inMacro = p.inMacro /\ q.fallback.there
               /\ q.fallback.login = p.fallback.login
               /\ q.fallback.password = p.fallback.password
BY CurrentsThere DEF Parsed, Entries, DefaultBegun

LEMMA MacroSet ==
    ASSUME NEW p \in Parsed
    PROVE  LET q == MacroBegun(p)
           IN  /\ q \in Parsed /\ q.match = p.match /\ q.current = "none"
               /\ q.inMacro /\ q.fallback = p.fallback
BY CurrentsThere DEF Parsed, MacroBegun

LEMMA LoginSet ==
    ASSUME NEW p \in Parsed, NEW v \in Text
    PROVE  LET q == WithLogin(p, v)
           IN  /\ q \in Parsed /\ q.current = p.current /\ q.inMacro = p.inMacro
               /\ q.fallback = p.fallback /\ q.match.there = p.match.there
               /\ q.match.login = v /\ q.match.password = p.match.password
BY DEF Parsed, Entries, WithLogin

LEMMA PasswordSet ==
    ASSUME NEW p \in Parsed, NEW v \in Text
    PROVE  LET q == WithPassword(p, v)
           IN  /\ q \in Parsed /\ q.current = p.current /\ q.inMacro = p.inMacro
               /\ q.fallback = p.fallback /\ q.match.there = p.match.there
               /\ q.match.password = v /\ q.match.login = p.match.login
BY DEF Parsed, Entries, WithPassword

LEMMA DefaultLoginSet ==
    ASSUME NEW p \in Parsed, NEW v \in Text
    PROVE  LET q == WithDefaultLogin(p, v)
           IN  /\ q \in Parsed /\ q.current = p.current /\ q.inMacro = p.inMacro
               /\ q.match = p.match /\ q.fallback.there = p.fallback.there
               /\ q.fallback.login = v /\ q.fallback.password = p.fallback.password
BY DEF Parsed, Entries, WithDefaultLogin

LEMMA DefaultPasswordSet ==
    ASSUME NEW p \in Parsed, NEW v \in Text
    PROVE  LET q == WithDefaultPassword(p, v)
           IN  /\ q \in Parsed /\ q.current = p.current /\ q.inMacro = p.inMacro
               /\ q.match = p.match /\ q.fallback.there = p.fallback.there
               /\ q.fallback.password = v /\ q.fallback.login = p.fallback.login
BY DEF Parsed, Entries, WithDefaultPassword

LEMMA DefaultNamed ==
    ASSUME NEW pair, pair[1] # "default"
    PROVE  pair # <<"default", "">>
<1>1. ASSUME NEW a, NEW b, pair = <<a, b>> PROVE pair[1] = a
    BY <1>1
<1>2. QED
    BY <1>1

LEMMA WordsCases ==
    ASSUME NEW p, NEW pair
    PROVE  /\ pair[1] = "machine" /\ pair[2] = request.host /\ ~p.match.there =>
                Words(p, pair) = MatchBegun(p)
           /\ pair[1] = "machine" /\ ~(pair[2] = request.host /\ ~p.match.there) =>
                Words(p, pair) = OtherBegun(p)
           /\ pair[1] # "machine" /\ pair = <<"default", "">> => Words(p, pair) = DefaultBegun(p)
           /\ pair[1] = "login" /\ p.current = "match" => Words(p, pair) = WithLogin(p, pair[2])
           /\ pair[1] = "password" /\ p.current = "match" => Words(p, pair) = WithPassword(p, pair[2])
           /\ pair[1] = "login" /\ p.current = "fallback" => Words(p, pair) = WithDefaultLogin(p, pair[2])
           /\ pair[1] = "password" /\ p.current = "fallback" => Words(p, pair) = WithDefaultPassword(p, pair[2])
           /\ pair[1] = "macdef" => Words(p, pair) = MacroBegun(p)
           /\ pair[1] \notin {"machine", "macdef"} /\ pair # <<"default", "">>
              /\ ~(pair[1] \in {"login", "password"} /\ p.current \in {"match", "fallback"}) =>
                Words(p, pair) = p
<1>1. ASSUME pair[1] = "machine"
      PROVE  Words(p, pair) = IF pair[2] = request.host /\ ~p.match.there
                              THEN MatchBegun(p) ELSE OtherBegun(p)
    <2>1. pair # <<"default", "">>
        BY <1>1, DefaultNamed
    <2>3. pair[1] # "macdef" /\ pair[1] \notin {"login", "password"}
        BY <1>1
    <2>2. QED
        BY <1>1, <2>1, <2>3, Zenon DEF Words, MatchBegun, OtherBegun
<1>2. ASSUME pair[1] # "machine", pair = <<"default", "">>
      PROVE  Words(p, pair) = DefaultBegun(p)
    BY <1>2 DEF Words, DefaultBegun
<1>3. ASSUME pair[1] = "login", p.current = "match"
      PROVE  Words(p, pair) = WithLogin(p, pair[2])
    BY <1>3 DEF Words, WithLogin
<1>4. ASSUME pair[1] = "password", p.current = "match"
      PROVE  Words(p, pair) = WithPassword(p, pair[2])
    BY <1>4 DEF Words, WithPassword
<1>5. ASSUME pair[1] = "login", p.current = "fallback"
      PROVE  Words(p, pair) = WithDefaultLogin(p, pair[2])
    BY <1>5 DEF Words, WithDefaultLogin
<1>6. ASSUME pair[1] = "password", p.current = "fallback"
      PROVE  Words(p, pair) = WithDefaultPassword(p, pair[2])
    BY <1>6 DEF Words, WithDefaultPassword
<1>7. ASSUME pair[1] = "macdef" PROVE Words(p, pair) = MacroBegun(p)
    BY <1>7 DEF Words, MacroBegun
<1>8. ASSUME pair[1] \notin {"machine", "macdef"}, pair # <<"default", "">>,
             ~(pair[1] \in {"login", "password"} /\ p.current \in {"match", "fallback"})
      PROVE  Words(p, pair) = p
    BY <1>8 DEF Words
<1>9. QED
    BY <1>1, <1>2, <1>3, <1>4, <1>5, <1>6, <1>7, <1>8, Zenon

(* Words does to each field what Taken says. *)
LEMMA WordsTaken ==
    ASSUME NEW p \in Parsed, NEW pair \in Text \X Text, Silent(p)
    PROVE  Taken(p, pair, Words(p, pair))
<1> DEFINE q == Words(p, pair)
<1>1. pair[2] \in Text
    BY DEF Text
<1>2. pair = <<"machine", request.host>> <=> pair[1] = "machine" /\ pair[2] = request.host
    <2>1. PICK a, b : pair = <<a, b>>
        OBVIOUS
    <2>2. QED
        BY <2>1, Zenon
<1>3. p.inMacro \in BOOLEAN
    BY DEF Parsed
<1> HIDE DEF q
<1>4. CASE pair[1] = "machine" /\ pair[2] = request.host /\ ~p.match.there
    <2>5. Words(p, pair) = MatchBegun(p)
        BY <1>4, WordsCases, Zenon
    <2>1. /\ q \in Parsed /\ q.match = AnEntry /\ q.current = "match"
          /\ q.inMacro = p.inMacro /\ q.fallback = p.fallback
        BY <2>5, MatchSet, Zenon DEF q
    <2>2. pair[1] # "login" /\ pair[1] # "password" /\ pair[1] # "macdef"
        BY <1>4
    <2>6. pair # <<"default", "">>
        BY <1>4, DefaultNamed
    <2>3. p.match.login = "" /\ p.match.password = ""
        BY <1>4, Zenon DEF Silent
    <2>4. QED
        BY <1>2, <1>4, <2>1, <2>2, <2>6, <2>3, AnEntryIs, Zenon DEF Taken, q
<1>5. CASE pair[1] = "machine" /\ ~(pair[2] = request.host /\ ~p.match.there)
    <2>5. Words(p, pair) = OtherBegun(p)
        BY <1>5, WordsCases, Zenon
    <2>1. /\ q \in Parsed /\ q.match = p.match /\ q.current = "other"
          /\ q.inMacro = p.inMacro /\ q.fallback = p.fallback
        BY <2>5, OtherSet, Zenon DEF q
    <2>2. pair[1] # "login" /\ pair[1] # "password" /\ pair[1] # "macdef"
        BY <1>5
    <2>6. pair # <<"default", "">>
        BY <1>5, DefaultNamed
    <2>3. QED
        BY <1>2, <1>5, <2>1, <2>2, <2>6, Zenon DEF Taken, q
<1>6. CASE pair = <<"default", "">>
    <2>1. pair[1] # "machine" /\ pair[1] # "login" /\ pair[1] # "password" /\ pair[1] # "macdef"
        BY <1>6
    <2>5. Words(p, pair) = DefaultBegun(p)
        BY <1>6, <2>1, WordsCases, Zenon
    <2>2. /\ q \in Parsed /\ q.match = p.match /\ q.current = "fallback" /\ q.inMacro = p.inMacro
          /\ q.fallback.there /\ q.fallback.login = p.fallback.login
          /\ q.fallback.password = p.fallback.password
        BY <2>5, DefaultSet, Zenon DEF q
    <2>3. QED
        BY <1>2, <1>6, <2>1, <2>2, Zenon DEF Taken, q
<1>7. CASE pair[1] = "macdef"
    <2>5. Words(p, pair) = MacroBegun(p)
        BY <1>7, WordsCases, Zenon
    <2>1. /\ q \in Parsed /\ q.match = p.match /\ q.current = "none"
          /\ q.inMacro /\ q.fallback = p.fallback
        BY <2>5, MacroSet, Zenon DEF q
    <2>2. pair[1] # "login" /\ pair[1] # "password" /\ pair[1] # "machine"
        BY <1>7
    <2>6. pair # <<"default", "">>
        BY <1>7, DefaultNamed
    <2>3. QED
        BY <1>2, <1>7, <2>1, <2>2, <2>6, Zenon DEF Taken, q
<1>8. ASSUME pair[1] \notin {"machine", "macdef"}, pair # <<"default", "">>
      PROVE  Taken(p, pair, q)
    <2>0. pair[1] # "machine" /\ pair[1] # "macdef"
        BY <1>8
    <2>1. CASE pair[1] = "login" /\ p.current = "match"
        <3>4. Words(p, pair) = WithLogin(p, pair[2])
            BY <2>1, WordsCases, Zenon
        <3>1. /\ q \in Parsed /\ q.current = p.current /\ q.inMacro = p.inMacro
              /\ q.fallback = p.fallback /\ q.match.there = p.match.there
              /\ q.match.login = pair[2] /\ q.match.password = p.match.password
            BY <1>1, <3>4, LoginSet DEF q
        <3>2. pair[1] # "password" /\ p.current # "fallback"
            BY <2>1
        <3>3. QED
            BY <1>2, <1>8, <2>0, <2>1, <3>1, <3>2, Zenon DEF Taken
    <2>2. CASE pair[1] = "password" /\ p.current = "match"
        <3>4. Words(p, pair) = WithPassword(p, pair[2])
            BY <2>2, WordsCases, Zenon
        <3>1. /\ q \in Parsed /\ q.current = p.current /\ q.inMacro = p.inMacro
              /\ q.fallback = p.fallback /\ q.match.there = p.match.there
              /\ q.match.password = pair[2] /\ q.match.login = p.match.login
            BY <1>1, <3>4, PasswordSet DEF q
        <3>2. pair[1] # "login" /\ p.current # "fallback"
            BY <2>2
        <3>3. QED
            BY <1>2, <1>8, <2>0, <2>2, <3>1, <3>2, Zenon DEF Taken
    <2>3. CASE pair[1] = "login" /\ p.current = "fallback"
        <3>4. Words(p, pair) = WithDefaultLogin(p, pair[2])
            BY <2>3, WordsCases, Zenon
        <3>1. /\ q \in Parsed /\ q.current = p.current /\ q.inMacro = p.inMacro
              /\ q.match = p.match /\ q.fallback.there = p.fallback.there
              /\ q.fallback.login = pair[2] /\ q.fallback.password = p.fallback.password
            BY <1>1, <3>4, DefaultLoginSet DEF q
        <3>2. pair[1] # "password" /\ p.current # "match"
            BY <2>3
        <3>3. QED
            BY <1>2, <1>8, <2>0, <2>3, <3>1, <3>2, Zenon DEF Taken
    <2>4. CASE pair[1] = "password" /\ p.current = "fallback"
        <3>4. Words(p, pair) = WithDefaultPassword(p, pair[2])
            BY <2>4, WordsCases, Zenon
        <3>1. /\ q \in Parsed /\ q.current = p.current /\ q.inMacro = p.inMacro
              /\ q.match = p.match /\ q.fallback.there = p.fallback.there
              /\ q.fallback.password = pair[2] /\ q.fallback.login = p.fallback.login
            BY <1>1, <3>4, DefaultPasswordSet DEF q
        <3>2. pair[1] # "login" /\ p.current # "match"
            BY <2>4
        <3>3. QED
            BY <1>2, <1>8, <2>0, <2>4, <3>1, <3>2, Zenon DEF Taken
    <2>5. CASE ~(pair[1] \in {"login", "password"} /\ p.current \in {"match", "fallback"})
        <3>1. q = p
            BY <1>8, <2>5, WordsCases, Zenon DEF q
        <3>2. ~(pair[1] = "login" /\ p.current = "match") /\ ~(pair[1] = "password" /\ p.current = "match")
              /\ ~(pair[1] = "login" /\ p.current = "fallback") /\ ~(pair[1] = "password" /\ p.current = "fallback")
            BY <2>5
        <3>3. QED
            BY <1>2, <1>8, <2>0, <3>1, <3>2, Zenon DEF Taken
    <2>6. QED
        BY <2>1, <2>2, <2>3, <2>4, <2>5
<1>9. QED
    BY <1>4, <1>5, <1>6, <1>7, <1>8 DEF q

LEMMA OwnOfNone ==
    ASSUME NEW key, NEW ds
    PROVE  Own({}, key, ds) = {}
BY DEF Own, BelongsTo

Updated(v, c, x, w) == w = IF c THEN x ELSE v

(* The entries are read as far as ds, then a is read and v becomes w. *)
ReadNext(ds, a, entries, more, key, v, w) ==
    /\ Follows(ds, a) /\ entries \in SUBSET ds /\ more \in SUBSET {a}
    /\ IsValue(Own(entries, key, ds), v)
    /\ Definition(a)[1] = key => ~Begins(a)
    /\ Updated(v, Definition(a)[1] = key /\ Open(entries, ds), Definition(a)[2], w)

(* A key has the value that the new definition gives it, or the one it had. *)
LEMMA ValueStep ==
    ASSUME NEW ds, NEW a, NEW entries, NEW more, NEW key, NEW v, NEW w,
           ReadNext(ds, a, entries, more, key, v, w)
    PROVE  IsValue(Own(entries \cup more, key, ds \cup {a}), w)
<1>0. /\ Follows(ds, a) /\ entries \in SUBSET ds /\ more \in SUBSET {a}
      /\ IsValue(Own(entries, key, ds), v)
      /\ Definition(a)[1] = key => ~Begins(a)
      /\ Updated(v, Definition(a)[1] = key /\ Open(entries, ds), Definition(a)[2], w)
    BY Zenon DEF ReadNext
<1> DEFINE own == Own(entries, key, ds)
           now == Own(entries \cup more, key, ds \cup {a})
<1>1. \A d : d \in now <=>
                \/ d \in own
                \/ d = a /\ Definition(a)[1] = key /\ Open(entries, ds) /\ ~Begins(a)
    BY <1>0, OwnNext, Zenon
<1>8. own \subseteq ds
    BY DEF Own
<1>2. own \in SUBSET Pos /\ \A d \in own : Before(d, a)
    BY <1>0 DEF Own, Follows
<1>3. a \in Pos
    BY <1>0 DEF Follows
<1>4. IsValue(own \cup {a}, Definition(a)[2])
    BY <1>2, <1>3, ValueIsNext
<1> HIDE DEF own, now
<1>5. CASE Definition(a)[1] = key /\ Open(entries, ds)
    <2>1. now = own \cup {a} /\ w = Definition(a)[2]
        BY <1>0, <1>1, <1>5, <1>8 DEF Updated
    <2>2. QED
        BY <1>4, <2>1, Zenon DEF now
<1>6. CASE ~(Definition(a)[1] = key /\ Open(entries, ds))
    <2>1. now = own /\ w = v
        <3>1. now = own
            BY <1>0, <1>1, <1>6, <1>8
        <3>2. QED
            BY <1>0, <1>6, <3>1 DEF Updated
    <2>2. QED
        BY <1>0, <2>1, Zenon DEF now, own
<1>7. QED
    BY <1>5, <1>6

(* One pair of words: what is parsed says what the definitions say, with the new one. *)
LEMMA WordsRead ==
    ASSUME NEW ds, NEW a, Follows(ds, a), NEW p \in Parsed, Reads(p, ds),
           Definition(a) \in Text \X Text
    PROVE  LET q == Words(p, Definition(a))
           IN  /\ q \in Parsed /\ Reads(q, ds \cup {a})
               /\ q.inMacro <=> (p.inMacro \/ Definition(a)[1] = "macdef")
<1> DEFINE q == Words(p, Definition(a))
           pair == Definition(a)
           M == Machine(ds)
           D == Default(ds)
           m == IF M = {} /\ pair = <<"machine", request.host>> THEN {a} ELSE {}
           n == IF pair = <<"default", "">> THEN {a} ELSE {}
<1>1. /\ p.match.there <=> M # {}
      /\ p.match.there \/ \A d \in ds : Definition(d) # <<"machine", request.host>>
      /\ p.fallback.there <=> D # {}
      /\ p.current = "match" <=> Open(M, ds)
      /\ p.current = "fallback" <=> Open(D, ds)
    BY Zenon DEF Reads
<1>2. /\ IsValue(Own(M, "login", ds), p.match.login)
      /\ IsValue(Own(M, "password", ds), p.match.password)
      /\ IsValue(Own(D, "login", ds), p.fallback.login)
      /\ IsValue(Own(D, "password", ds), p.fallback.password)
    BY Zenon DEF Reads
<1>3. Silent(p)
    <2>1. CASE p.match.there
        BY <2>1, Zenon DEF Silent
    <2>2. CASE M = {}
        <3>1. p.match.login = "" /\ p.match.password = ""
            BY <1>2, <2>2, OwnOfNone, Zenon DEF IsValue
        <3>2. QED
            BY <3>1, Zenon DEF Silent
    <2>3. QED
        BY <1>1, <2>1, <2>2, Zenon
<1>4. Taken(p, pair, q)
    BY <1>3, WordsTaken, Zenon
<1>5. /\ M \subseteq ds /\ D \subseteq ds
      /\ Machine(ds \cup {a}) = M \cup m /\ Default(ds \cup {a}) = D \cup n
    <2>1. M # {} \/ \A d \in ds : Definition(d) # <<"machine", request.host>>
        BY <1>1, Zenon
    <2>2. QED
        BY <2>1, MachineNext, Zenon
<1>6. m \in SUBSET {a} /\ n \in SUBSET {a} /\ M \in SUBSET ds /\ D \in SUBSET ds
    BY <1>5
<1>7. /\ pair[1] = "login" => pair[1] # "machine" /\ pair[1] # "macdef" /\ pair # <<"default", "">>
      /\ pair[1] = "password" => pair[1] # "machine" /\ pair[1] # "macdef" /\ pair # <<"default", "">>
    <2>1. pair[1] = "login" \/ pair[1] = "password" => pair[1] # "machine" /\ pair[1] # "macdef" /\ pair[1] # "default"
        OBVIOUS
    <2>2. QED
        BY <2>1, DefaultNamed, Zenon
<1>8. Begins(a) <=> pair[1] = "machine" \/ pair[1] = "macdef" \/ pair = <<"default", "">>
    BY Zenon DEF Begins
<1>9. pair = <<"machine", request.host>> => pair[1] = "machine"
    <2>1. ASSUME NEW h, NEW b, pair = <<h, b>> PROVE pair[1] = h
        BY <2>1
    <2>2. QED
        BY <2>1, Zenon
<1>10. /\ m = {a} <=> M = {} /\ pair = <<"machine", request.host>>
       /\ n = {a} <=> pair = <<"default", "">>
    BY Zenon
<1> HIDE DEF q, pair, M, D, m, n
<1>11. /\ q \in Parsed
       /\ q.match.there <=> (p.match.there \/ pair = <<"machine", request.host>>)
       /\ q.fallback.there <=> (p.fallback.there \/ pair = <<"default", "">>)
       /\ q.inMacro <=> (p.inMacro \/ pair[1] = "macdef")
       /\ q.match.login = IF pair[1] = "login" /\ p.current = "match" THEN pair[2] ELSE p.match.login
       /\ q.match.password =
             IF pair[1] = "password" /\ p.current = "match" THEN pair[2] ELSE p.match.password
       /\ q.fallback.login =
             IF pair[1] = "login" /\ p.current = "fallback" THEN pair[2] ELSE p.fallback.login
       /\ q.fallback.password =
             IF pair[1] = "password" /\ p.current = "fallback" THEN pair[2] ELSE p.fallback.password
    BY <1>4, Zenon DEF Taken
<1>12. q.current =
          IF pair = <<"machine", request.host>> /\ ~p.match.there THEN "match"
          ELSE IF pair[1] = "machine" THEN "other"
          ELSE IF pair = <<"default", "">> THEN "fallback"
          ELSE IF pair[1] = "macdef" THEN "none" ELSE p.current
    BY <1>4, Zenon DEF Taken
<1>13. IsValue(Own(M \cup m, "login", ds \cup {a}), q.match.login)
    <2>1. Updated(p.match.login, Definition(a)[1] = "login" /\ Open(M, ds), Definition(a)[2], q.match.login)
        BY <1>1, <1>11, Zenon DEF pair, Updated
    <2>2. Definition(a)[1] = "login" => ~Begins(a)
        BY <1>7, <1>8, Zenon DEF pair
    <2>3. IsValue(Own(M, "login", ds), p.match.login)
        BY <1>2
    <2>4. m \in SUBSET {a} /\ M \in SUBSET ds
        BY <1>6
    <2>5. ReadNext(ds, a, M, m, "login", p.match.login, q.match.login)
        BY <2>1, <2>2, <2>3, <2>4, Zenon DEF ReadNext
    <2>6. QED
        BY <2>5, ValueStep, Zenon
<1>14. IsValue(Own(M \cup m, "password", ds \cup {a}), q.match.password)
    <2>1. Updated(p.match.password, Definition(a)[1] = "password" /\ Open(M, ds), Definition(a)[2], q.match.password)
        BY <1>1, <1>11, Zenon DEF pair, Updated
    <2>2. Definition(a)[1] = "password" => ~Begins(a)
        BY <1>7, <1>8, Zenon DEF pair
    <2>3. IsValue(Own(M, "password", ds), p.match.password)
        BY <1>2
    <2>4. m \in SUBSET {a} /\ M \in SUBSET ds
        BY <1>6
    <2>5. ReadNext(ds, a, M, m, "password", p.match.password, q.match.password)
        BY <2>1, <2>2, <2>3, <2>4, Zenon DEF ReadNext
    <2>6. QED
        BY <2>5, ValueStep, Zenon
<1>15. IsValue(Own(D \cup n, "login", ds \cup {a}), q.fallback.login)
    <2>1. Updated(p.fallback.login, Definition(a)[1] = "login" /\ Open(D, ds), Definition(a)[2], q.fallback.login)
        BY <1>1, <1>11, Zenon DEF pair, Updated
    <2>2. Definition(a)[1] = "login" => ~Begins(a)
        BY <1>7, <1>8, Zenon DEF pair
    <2>3. IsValue(Own(D, "login", ds), p.fallback.login)
        BY <1>2
    <2>4. n \in SUBSET {a} /\ D \in SUBSET ds
        BY <1>6
    <2>5. ReadNext(ds, a, D, n, "login", p.fallback.login, q.fallback.login)
        BY <2>1, <2>2, <2>3, <2>4, Zenon DEF ReadNext
    <2>6. QED
        BY <2>5, ValueStep, Zenon
<1>16. IsValue(Own(D \cup n, "password", ds \cup {a}), q.fallback.password)
    <2>1. Updated(p.fallback.password, Definition(a)[1] = "password" /\ Open(D, ds), Definition(a)[2], q.fallback.password)
        BY <1>1, <1>11, Zenon DEF pair, Updated
    <2>2. Definition(a)[1] = "password" => ~Begins(a)
        BY <1>7, <1>8, Zenon DEF pair
    <2>3. IsValue(Own(D, "password", ds), p.fallback.password)
        BY <1>2
    <2>4. n \in SUBSET {a} /\ D \in SUBSET ds
        BY <1>6
    <2>5. ReadNext(ds, a, D, n, "password", p.fallback.password, q.fallback.password)
        BY <2>1, <2>2, <2>3, <2>4, Zenon DEF ReadNext
    <2>6. QED
        BY <2>5, ValueStep, Zenon
<1>17. /\ Open(M \cup m, ds \cup {a}) <=> m = {a} \/ (Open(M, ds) /\ ~Begins(a))
       /\ Open(D \cup n, ds \cup {a}) <=> n = {a} \/ (Open(D, ds) /\ ~Begins(a))
    BY <1>5, <1>6, BelongsStays, Zenon
<1>18. /\ "match" # "other" /\ "match" # "fallback" /\ "match" # "none"
       /\ "fallback" # "other" /\ "fallback" # "none"
    OBVIOUS
<1>20. pair = <<"default", "">> => pair[1] # "machine"
    <2>1. pair = <<"default", "">> => pair[1] = "default"
        BY DefaultNamed, Zenon
    <2>2. "default" # "machine"
        OBVIOUS
    <2>3. QED
        BY <2>1, <2>2, Zenon
<1>21. q.current = "match" <=> Open(M \cup m, ds \cup {a})
    <2>1. CASE pair[1] = "machine"
        BY <1>1, <1>8, <1>10, <1>12, <1>17, <1>18, <2>1, Zenon
    <2>2. CASE pair[1] # "machine"
        <3>1. m # {a}
            BY <1>9, <1>10, <2>2, Zenon
        <3>2. CASE Begins(a)
            <4>1. q.current # "match"
                BY <1>8, <1>9, <1>12, <1>18, <2>2, <3>2, Zenon
            <4>2. QED
                BY <1>17, <3>1, <3>2, <4>1, Zenon
        <3>3. CASE ~Begins(a)
            <4>1. q.current = p.current
                BY <1>8, <1>9, <1>12, <2>2, <3>3, Zenon
            <4>2. QED
                BY <1>1, <1>17, <3>1, <3>3, <4>1, Zenon
        <3>4. QED
            BY <3>2, <3>3
    <2>3. QED
        BY <2>1, <2>2
<1>22. q.current = "fallback" <=> Open(D \cup n, ds \cup {a})
    <2>1. CASE pair = <<"default", "">>
        BY <1>9, <1>10, <1>12, <1>17, <1>20, <2>1, Zenon
    <2>2. CASE pair # <<"default", "">>
        <3>1. n # {a}
            BY <1>10, <2>2, Zenon
        <3>2. CASE Begins(a)
            <4>1. q.current # "fallback"
                BY <1>8, <1>9, <1>12, <1>18, <2>2, <3>2, Zenon
            <4>2. QED
                BY <1>17, <3>1, <3>2, <4>1, Zenon
        <3>3. CASE ~Begins(a)
            <4>1. q.current = p.current
                BY <1>8, <1>9, <1>12, <2>2, <3>3, Zenon
            <4>2. QED
                BY <1>1, <1>17, <3>1, <3>3, <4>1, Zenon
        <3>4. QED
            BY <3>2, <3>3
    <2>3. QED
        BY <2>1, <2>2
<1>23. q.match.there <=> M \cup m # {}
    <2>1. M \cup m # {} <=> M # {} \/ m = {a}
        BY <1>6
    <2>2. QED
        BY <1>1, <1>10, <1>11, <2>1, Zenon
<1>24. q.fallback.there <=> D \cup n # {}
    <2>1. D \cup n # {} <=> D # {} \/ n = {a}
        BY <1>6
    <2>2. QED
        BY <1>1, <1>10, <1>11, <2>1, Zenon
<1>25. q.match.there \/ \A d \in ds \cup {a} : Definition(d) # <<"machine", request.host>>
    BY <1>1, <1>11, Zenon DEF pair
<1>26. Reads(q, ds \cup {a})
    BY <1>5, <1>13, <1>14, <1>15, <1>16, <1>21, <1>22, <1>23, <1>24, <1>25, Zenon DEF Reads
<1>27. QED
    BY <1>11, <1>26, Zenon DEF q, pair

LEMMA WordsTyped ==
    ASSUME NEW p \in Parsed, NEW pair \in Text \X Text
    PROVE  Words(p, pair) \in Parsed
<1>1. pair[2] \in Text
    BY DEF Text
<1>2. Words(p, pair) \in {MatchBegun(p), OtherBegun(p), DefaultBegun(p), MacroBegun(p), p,
                          WithLogin(p, pair[2]), WithPassword(p, pair[2]),
                          WithDefaultLogin(p, pair[2]), WithDefaultPassword(p, pair[2])}
    <2>1. CASE pair[1] = "machine"
        BY <2>1, WordsCases, Zenon
    <2>2. CASE pair[1] = "macdef"
        BY <2>2, WordsCases, Zenon
    <2>3. CASE pair[1] # "machine" /\ pair = <<"default", "">>
        BY <2>3, WordsCases, Zenon
    <2>4. CASE pair[1] = "login" \/ pair[1] = "password"
        <3>1. CASE p.current = "match"
            BY <2>4, <3>1, WordsCases, Zenon
        <3>2. CASE p.current = "fallback"
            BY <2>4, <3>2, WordsCases, Zenon
        <3>3. CASE p.current # "match" /\ p.current # "fallback"
            <4>1. /\ pair[1] \notin {"machine", "macdef"} /\ pair[1] # "default"
                  /\ ~(pair[1] \in {"login", "password"} /\ p.current \in {"match", "fallback"})
                BY <2>4, <3>3
            <4>2. QED
                BY <4>1, DefaultNamed, WordsCases, Zenon
        <3>4. QED
            BY <3>1, <3>2, <3>3
    <2>5. CASE /\ pair[1] \notin {"machine", "macdef"} /\ pair # <<"default", "">>
               /\ pair[1] # "login" /\ pair[1] # "password"
        BY <2>5, WordsCases, Zenon
    <2>6. pair[1] = "machine" \/ pair[1] # "machine"
        OBVIOUS
    <2>7. QED
        BY <2>1, <2>2, <2>3, <2>4, <2>5, Zenon
<1>3. /\ MatchBegun(p) \in Parsed /\ OtherBegun(p) \in Parsed /\ DefaultBegun(p) \in Parsed
      /\ MacroBegun(p) \in Parsed
    BY MatchSet, OtherSet, DefaultSet, MacroSet, Zenon
<1>4. /\ WithLogin(p, pair[2]) \in Parsed /\ WithPassword(p, pair[2]) \in Parsed
      /\ WithDefaultLogin(p, pair[2]) \in Parsed /\ WithDefaultPassword(p, pair[2]) \in Parsed
    BY <1>1, LoginSet, PasswordSet, DefaultLoginSet, DefaultPasswordSet, Zenon
<1>5. QED
    BY <1>2, <1>3, <1>4, Zenon

(* What has been read after each pair of a line. *)
Turns(p, pairs, f) ==
    /\ f[0] = p /\ \A k \in 1..Len(pairs) : f[k] = Words(f[k - 1], pairs[k])
    /\ AllWords(p, pairs) = f[Len(pairs)]

LEMMA WordsInTurn ==
    ASSUME NEW p \in Parsed, NEW pairs \in Seq(Text \X Text)
    PROVE  \E f \in [0..Len(pairs) -> Parsed] : Turns(p, pairs, f)
<1> DEFINE n == Len(pairs)
           step == [q \in Nat \X Parsed |-> IF q[1] \in 1..n THEN Words(q[2], pairs[q[1]]) ELSE q[2]]
<1>1. n \in Nat /\ \A k \in 1..n : pairs[k] \in Text \X Text
    OBVIOUS
<1>3. step \in [Nat \X Parsed -> Parsed]
    <2>1. \A k \in 1..n : \A q \in Parsed : Words(q, pairs[k]) \in Parsed
        BY <1>1, WordsTyped, Zenon
    <2> HIDE DEF n
    <2>2. QED
        BY <2>1
<1>4. PICK f \in [0..n -> Parsed] : f[0] = p /\ \A k \in 1..n : f[k] = step[<<k, f[k - 1]>>]
    <2> HIDE DEF n, step
    <2>1. \E f \in [0..n -> Parsed] : Recursion(p, step, n, f)
        BY <1>1, <1>3, RecursionExists
    <2>2. QED
        BY <2>1 DEF Recursion
<1>5. ASSUME NEW k \in 1..n PROVE f[k] = Words(f[k - 1], pairs[k])
    <2>1. k - 1 \in 0..n /\ k \in Nat
        BY <1>1
    <2>2. <<k, f[k - 1]>> \in Nat \X Parsed
        BY <1>4, <2>1
    <2>3. QED
        BY <1>4, <2>2
<1> HIDE DEF n
<1> DEFINE Fun(g) == g = [k \in 0..n |-> IF k = 0 THEN p ELSE Words(g[k - 1], pairs[k])]
<1>6. Fun(f)
    <2>1. f = [k \in 0..n |-> f[k]]
        BY <1>4
    <2>2. \A k \in 0..n : k = 0 \/ k \in 1..n
        BY <1>1
    <2>3. ASSUME NEW k \in 0..n PROVE f[k] = IF k = 0 THEN p ELSE Words(f[k - 1], pairs[k])
        <3>1. CASE k = 0
            BY <1>4, <3>1
        <3>2. CASE k # 0
            BY <1>5, <2>2, <3>2
        <3>3. QED
            BY <3>1, <3>2
    <2>4. QED
        BY <2>1, <2>3
<1> DEFINE c == CHOOSE g : Fun(g)
<1>7. Fun(c)
    BY <1>6
<1>8. AllWords(p, pairs) = c[n]
    BY DEF AllWords, n
<1> HIDE DEF c
<1>9. c[0] = p /\ \A k \in 1..n : c[k] = Words(c[k - 1], pairs[k])
    <2>1. 0 \in 0..n /\ \A k \in 1..n : k \in 0..n /\ k # 0
        BY <1>1
    <2>2. QED
        BY <1>7, <2>1
<1> DEFINE NetrcStays == {k \in Nat : k \in 0..n => c[k] = f[k]}
<1>10. 0 \in NetrcStays
    BY <1>4, <1>9
<1>11. ASSUME NEW k \in Nat, k \in NetrcStays PROVE k + 1 \in NetrcStays
    <2>1. CASE k + 1 \in 0..n
        <3>1. k \in 0..n /\ k + 1 \in 1..n /\ (k + 1) - 1 = k
            BY <1>1, <2>1
        <3>2. c[k] = f[k]
            BY <1>11, <3>1
        <3>3. c[k + 1] = f[k + 1]
            BY <1>5, <1>9, <3>1, <3>2
        <3>4. QED
            BY <3>3
    <2>2. CASE k + 1 \notin 0..n
        BY <2>2
    <2>3. QED
        BY <2>1, <2>2
<1> HIDE DEF NetrcStays
<1>12. n \in NetrcStays
    BY <1>1, <1>10, <1>11, AllNat
<1>13. AllWords(p, pairs) = f[n]
    <2>1. n \in 0..n
        BY <1>1
    <2>2. QED
        BY <1>8, <1>12, <2>1 DEF NetrcStays
<1>14. Turns(p, pairs, f)
    BY <1>4, <1>5, <1>13 DEF Turns, n
<1>15. QED
    BY <1>4, <1>14 DEF n

LEMMA PairsTyped ==
    ASSUME NEW line \in Seq(STRING)
    PROVE  PairsOf(line) \in Seq(Text \X Text) /\ (line = <<>> => PairsOf(line) = <<>>)
<1> DEFINE T == Text \X Text
           n == Len(line) \div 2
           pairs == [i \in 1..n |-> <<line[2 * i - 1], line[2 * i]>>]
           more == IF Len(line) % 2 = 1 /\ Last(line) = "default" THEN <<<<"default", "">>>> ELSE <<>>
<1>1. n \in Nat
    OBVIOUS
<1>2. \A i \in 1..n : 2 * i - 1 \in 1..Len(line) /\ 2 * i \in 1..Len(line)
    OBVIOUS
<1>3. \A k \in 1..Len(line) : line[k] \in Text
    <2>1. \A k \in 1..Len(line) : line[k] \in STRING
        BY SMT
    <2>2. QED
        BY <2>1, Zenon DEF Text
<1>4. pairs \in Seq(T)
    BY <1>1, <1>2, <1>3
<1>5. more \in Seq(T)
    <2> DEFINE x == <<"default", "">>
    <2>1. x \in T
        BY DEF Text
    <2> HIDE DEF T, x
    <2>2. <<x>> \in Seq(T) /\ <<>> \in Seq(T)
        BY <2>1
    <2>3. more = <<x>> \/ more = <<>>
        BY Zenon DEF x
    <2> HIDE DEF more
    <2>4. QED
        BY <2>2, <2>3, Zenon
<1>6. PairsOf(line) = pairs \o more
    BY DEF PairsOf
<1>7. line = <<>> => pairs = <<>> /\ more = <<>>
    <2>1. line = <<>> => Len(line) = 0 /\ n = 0
        OBVIOUS
    <2>2. n = 0 => pairs = <<>>
        OBVIOUS
    <2>3. QED
        BY <2>1, <2>2
<1> HIDE DEF T, pairs, more
<1>8. pairs \o more \in Seq(T)
    BY <1>4, <1>5, ConcatProperties
<1>9. line = <<>> => pairs \o more = <<>>
    BY <1>7
<1>10. QED
    BY <1>6, <1>8, <1>9 DEF T

Netrc == netrc \in Seq(Seq(STRING))

(* The definitions up to pair k of line l. *)
Upto(l, k) == {d \in Definitions : d[1] < l \/ (d[1] = l /\ d[2] <= k)}

(* Definitions are the pairs of the lines that belong to no macro. *)
LEMMA DefinitionsAre ==
    ASSUME Netrc
    PROVE  /\ Definitions \subseteq Pos
           /\ \A l \in 1..Len(netrc) : Len(PairsOf(netrc[l])) \in Nat
           /\ \A l, k \in Nat : <<l, k>> \in Definitions <=>
                 l \in 1..Len(netrc) /\ ~InMacro(l) /\ k \in 1..Len(PairsOf(netrc[l]))
           /\ \A d \in Definitions : d = <<d[1], d[2]>> /\ d[1] \in Nat /\ d[2] \in Nat
<1>1. DOMAIN netrc = 1..Len(netrc) /\ Len(netrc) \in Nat
    BY DEF Netrc
<1>2. ASSUME NEW l \in 1..Len(netrc)
      PROVE  /\ DOMAIN PairsOf(netrc[l]) = 1..Len(PairsOf(netrc[l]))
             /\ Len(PairsOf(netrc[l])) \in Nat
    <2>1. PairsOf(netrc[l]) \in Seq(Text \X Text)
        BY PairsTyped DEF Netrc
    <2>2. QED
        BY <2>1
<1>3. \A d : d \in Definitions <=>
                \E l \in 1..Len(netrc) : ~InMacro(l) /\ d \in {l} \X (1..Len(PairsOf(netrc[l])))
    BY <1>1, <1>2 DEF Definitions
<1>4. Definitions \subseteq Pos
    BY <1>1, <1>2, <1>3 DEF Pos
<1>5. QED
    BY <1>2, <1>3, <1>4 DEF Pos

(* A line in a macro adds no definition, another one adds its pairs in order. *)
LEMMA UptoNext ==
    ASSUME Netrc, NEW l \in 1..Len(netrc)
    PROVE  /\ InMacro(l) => Upto(l + 1, 0) = Upto(l, 0)
           /\ ~InMacro(l) =>
                /\ Upto(l + 1, 0) = Upto(l, Len(PairsOf(netrc[l])))
                /\ \A k \in 1..Len(PairsOf(netrc[l])) :
                      Upto(l, k) = Upto(l, k - 1) \cup {<<l, k>>} /\ Follows(Upto(l, k - 1), <<l, k>>)
<1>1. l \in Nat /\ l >= 1
    BY DEF Netrc
<1>2. \A d \in Definitions : d = <<d[1], d[2]>> /\ d[1] \in Nat /\ d[2] \in Nat /\ d[2] >= 1
    BY DefinitionsAre
<1>3. ASSUME InMacro(l) PROVE Upto(l + 1, 0) = Upto(l, 0)
    <2>1. \A d \in Definitions : d[1] # l
        BY <1>2, <1>3, DefinitionsAre
    <2>2. \A d \in Definitions : d \in Upto(l + 1, 0) <=> d \in Upto(l, 0)
        BY <1>1, <1>2, <2>1 DEF Upto
    <2>3. QED
        BY <2>2 DEF Upto
<1>4. ASSUME ~InMacro(l) PROVE Upto(l + 1, 0) = Upto(l, Len(PairsOf(netrc[l])))
    <2>1. \A d \in Definitions : d[1] = l => d[2] <= Len(PairsOf(netrc[l]))
        BY <1>2, DefinitionsAre
    <2>2. \A d \in Definitions : d \in Upto(l + 1, 0) <=> d \in Upto(l, Len(PairsOf(netrc[l])))
        BY <1>1, <1>2, <2>1 DEF Upto
    <2>3. QED
        BY <2>2 DEF Upto
<1>5. ASSUME ~InMacro(l), NEW k \in 1..Len(PairsOf(netrc[l]))
      PROVE  Upto(l, k) = Upto(l, k - 1) \cup {<<l, k>>} /\ Follows(Upto(l, k - 1), <<l, k>>)
    <2>1. k \in Nat /\ k >= 1 /\ <<l, k>> \in Definitions
        BY <1>1, <1>5, DefinitionsAre
    <2>2. \A d \in Definitions : d \in Upto(l, k) <=> d \in Upto(l, k - 1) \/ d = <<l, k>>
        BY <1>1, <1>2, <2>1 DEF Upto
    <2>3. Upto(l, k) = Upto(l, k - 1) \cup {<<l, k>>}
        <3>1. \A d : d \in Upto(l, k) <=> d \in Upto(l, k - 1) \cup {<<l, k>>}
            BY <2>1, <2>2 DEF Upto
        <3>2. QED
            BY <3>1
    <2>4. Upto(l, k - 1) \subseteq Pos
        BY DefinitionsAre DEF Upto
    <2>5. \A d \in Upto(l, k - 1) : Before(d, <<l, k>>) /\ d # <<l, k>>
        <3>1. ASSUME NEW d \in Upto(l, k - 1) PROVE d[1] < l \/ (d[1] = l /\ d[2] < k)
            BY <1>1, <1>2, <2>1 DEF Upto
        <3>2. ASSUME NEW d \in Upto(l, k - 1) PROVE d # <<l, k>>
            BY <1>1, <2>1, <3>1
        <3>3. QED
            BY <3>1, <3>2 DEF Before
    <2>6. <<l, k>> \in Pos
        BY <1>1, <2>1 DEF Pos
    <2>7. QED
        BY <2>3, <2>4, <2>5, <2>6 DEF Follows
<1>6. QED
    BY <1>3, <1>4, <1>5

(* A macro begins with its macdef and goes on to the next empty line. *)
LEMMA MacroNext ==
    ASSUME Netrc, NEW l \in 1..Len(netrc)
    PROVE  InMacro(l + 1) <=>
              \/ \E pair \in ToSet(PairsOf(netrc[l])) : pair[1] = "macdef"
              \/ InMacro(l) /\ netrc[l] # <<>>
<1> DEFINE Mac(j) == \E pair \in ToSet(PairsOf(netrc[j])) : pair[1] = "macdef"
           To(j, i) == \A k \in (j + 1)..(i - 1) : netrc[k] # <<>>
<1>1. l \in Nat /\ l >= 1 /\ (l + 1) - 1 = l
    BY DEF Netrc
<1>2. /\ InMacro(l) <=> \E j \in 1..(l - 1) : Mac(j) /\ To(j, l)
      /\ InMacro(l + 1) <=> \E j \in 1..((l + 1) - 1) : Mac(j) /\ To(j, l + 1)
    BY DEF InMacro
<1>3. \A j \in 1..(l - 1) : To(j, l + 1) <=> To(j, l) /\ netrc[l] # <<>>
    <2>1. \A j \in 1..(l - 1) : \A k : k \in (j + 1)..((l + 1) - 1) <=> k \in (j + 1)..(l - 1) \/ k = l
        BY <1>1
    <2>2. QED
        BY <2>1
<1>4. To(l, l + 1)
    BY <1>1
<1>5. \A j : j \in 1..((l + 1) - 1) <=> j \in 1..(l - 1) \/ j = l
    BY <1>1
<1> HIDE DEF Mac, To
<1>6. InMacro(l + 1) <=> Mac(l) \/ (InMacro(l) /\ netrc[l] # <<>>)
    BY <1>2, <1>3, <1>4, <1>5
<1>7. QED
    BY <1>6 DEF Mac

(* A line outside macros, pair by pair. *)
LEMMA LineRead ==
    ASSUME Netrc, NEW l \in 1..Len(netrc), ~InMacro(l), NEW p \in Parsed, Reads(p, Upto(l, 0))
    PROVE  LET q == AllWords(p, PairsOf(netrc[l]))
           IN  /\ q \in Parsed /\ Reads(q, Upto(l + 1, 0))
               /\ q.inMacro <=> p.inMacro \/ \E pair \in ToSet(PairsOf(netrc[l])) : pair[1] = "macdef"
<1> DEFINE pairs == PairsOf(netrc[l])
           n == Len(pairs)
           Mac(k) == \E j \in 1..k : pairs[j][1] = "macdef"
<1>1. pairs \in Seq(Text \X Text) /\ l \in Nat
    BY PairsTyped DEF Netrc
<1>2. n \in Nat /\ \A k \in 1..n : pairs[k] \in Text \X Text
    BY <1>1
<1>3. ToSet(pairs) = {pairs[k] : k \in 1..n}
    BY <1>1 DEF ToSet
<1>4. PICK f \in [0..n -> Parsed] : Turns(p, pairs, f)
    BY <1>1, WordsInTurn
<1>5. /\ f[0] = p /\ \A k \in 1..n : f[k] = Words(f[k - 1], pairs[k])
      /\ AllWords(p, pairs) = f[n]
    BY <1>4 DEF Turns
<1>6. \A k \in 1..n : Definition(<<l, k>>) = pairs[k]
    BY DEF Definition
<1> DEFINE Done(k) == Reads(f[k], Upto(l, k)) /\ (f[k].inMacro <=> p.inMacro \/ Mac(k))
           Good == {k \in Nat : k \in 0..n => Done(k)}
<1>7. 0 \in Good
    <2>1. ~Mac(0)
        OBVIOUS
    <2>2. Done(0)
        BY <1>5, <2>1, Zenon
    <2> HIDE DEF Done
    <2>3. QED
        BY <2>2
<1>8. ASSUME NEW k \in Nat, k \in Good PROVE k + 1 \in Good
    <2>1. CASE k + 1 \in 0..n
        <3>1. k \in 0..n /\ k + 1 \in 1..n /\ (k + 1) - 1 = k
            BY <1>2, <2>1
        <3>2. Reads(f[k], Upto(l, k)) /\ (f[k].inMacro <=> p.inMacro \/ Mac(k)) /\ f[k] \in Parsed
            BY <1>4, <1>8, <3>1
        <3>3. f[k + 1] = Words(f[k], Definition(<<l, k + 1>>))
            BY <1>5, <1>6, <3>1
        <3>4. Follows(Upto(l, k), <<l, k + 1>>) /\ Upto(l, k + 1) = Upto(l, k) \cup {<<l, k + 1>>}
            BY <3>1, UptoNext
        <3>5. Definition(<<l, k + 1>>) \in Text \X Text
            BY <1>2, <1>6, <3>1
        <3>6. /\ Reads(f[k + 1], Upto(l, k) \cup {<<l, k + 1>>})
              /\ f[k + 1].inMacro <=> f[k].inMacro \/ Definition(<<l, k + 1>>)[1] = "macdef"
            <4>1. LET q == Words(f[k], Definition(<<l, k + 1>>))
                  IN  /\ q \in Parsed /\ Reads(q, Upto(l, k) \cup {<<l, k + 1>>})
                      /\ q.inMacro <=> (f[k].inMacro \/ Definition(<<l, k + 1>>)[1] = "macdef")
                BY <3>2, <3>4, <3>5, WordsRead, Zenon
            <4>2. QED
                BY <3>3, <4>1, Zenon
        <3>7. Mac(k + 1) <=> Mac(k) \/ pairs[k + 1][1] = "macdef"
            <4>1. \A j : j \in 1..(k + 1) <=> j \in 1..k \/ j = k + 1
                BY <3>1
            <4>2. QED
                BY <4>1, Zenon
        <3>8. Definition(<<l, k + 1>>) = pairs[k + 1]
            BY <1>6, <3>1
        <3>9. Done(k + 1)
            <4> HIDE DEF Mac, pairs
            <4>1. QED
                BY <3>2, <3>4, <3>6, <3>7, <3>8, Zenon
        <3> HIDE DEF Done
        <3>10. QED
            BY <3>9
    <2>2. CASE k + 1 \notin 0..n
        BY <2>2
    <2>3. QED
        BY <2>1, <2>2
<1> HIDE DEF Good
<1>9. n \in Good /\ n \in 0..n
    BY <1>2, <1>7, <1>8, AllNat
<1>10. Reads(f[n], Upto(l, n)) /\ (f[n].inMacro <=> p.inMacro \/ Mac(n)) /\ f[n] \in Parsed
    BY <1>4, <1>9 DEF Good
<1>11. Upto(l + 1, 0) = Upto(l, n)
    BY UptoNext
<1>12. Mac(n) <=> \E pair \in ToSet(pairs) : pair[1] = "macdef"
    BY <1>3
<1>13. QED
    BY <1>5, <1>10, <1>11, <1>12, Zenon

(* A step that keeps these keeps all that is said of the netrc file. *)
NetrcStays == netrc' = netrc /\ request' = request

LEMMA SameDefinitions ==
    ASSUME NetrcStays
    PROVE  /\ \A d : Definition(d)' = Definition(d)
           /\ \A i : InMacro(i)' <=> InMacro(i)
           /\ Definitions' = Definitions
<1>1. \A d : Definition(d)' = Definition(d)
    BY DEF Definition, NetrcStays
<1>2. \A i : InMacro(i)' <=> InMacro(i)
    BY DEF InMacro, NetrcStays
<1>3. Definitions' = Definitions
    BY <1>2 DEF Definitions, NetrcStays
<1>4. QED
    BY <1>1, <1>2, <1>3

LEMMA SameEntries ==
    ASSUME NetrcStays, NEW ds
    PROVE  Machine(ds)' = Machine(ds) /\ Default(ds)' = Default(ds)
<1>1. Machine(ds)' = Machine(ds)
    BY SameDefinitions DEF Machine, NetrcStays
<1>2. Default(ds)' = Default(ds)
    BY SameDefinitions DEF Default
<1>3. QED
    BY <1>1, <1>2

LEMMA SameOwn ==
    ASSUME NetrcStays, NEW entries, NEW ds
    PROVE  /\ \A d : BelongsTo(entries, d, ds)' <=> BelongsTo(entries, d, ds)
           /\ Open(entries, ds)' <=> Open(entries, ds)
           /\ \A key : Own(entries, key, ds)' = Own(entries, key, ds)
<1>1. \A d : Begins(d)' <=> Begins(d)
    BY SameDefinitions DEF Begins
<1>2. \A d : BelongsTo(entries, d, ds)' <=> BelongsTo(entries, d, ds)
    BY <1>1 DEF BelongsTo
<1>3. Open(entries, ds)' <=> Open(entries, ds)
    BY <1>1 DEF Open
<1>4. \A key : Own(entries, key, ds)' = Own(entries, key, ds)
    BY <1>2, SameDefinitions DEF Own
<1>5. QED
    BY <1>2, <1>3, <1>4

LEMMA SameValue ==
    ASSUME NetrcStays, NEW own, NEW v
    PROVE  IsValue(own, v)' <=> IsValue(own, v)
BY SameDefinitions DEF IsValue, LastIn, Before

LEMMA SameReads ==
    ASSUME NetrcStays, NEW p, NEW ds, Reads(p, ds)
    PROVE  Reads(p, ds)'
<1>1. PICK M, D : M = Machine(ds) /\ D = Default(ds)
    OBVIOUS
<1>2. Machine(ds)' = M /\ Default(ds)' = D
    BY <1>1, SameEntries
<1>3. (Open(M, ds)' <=> Open(M, ds)) /\ (Open(D, ds)' <=> Open(D, ds))
    BY SameOwn
<1>4. \A d : Definition(d)' = Definition(d)
    BY SameDefinitions
<1>5. /\ (p.match.there <=> M # {})
      /\ (p.match.there \/ \A d \in ds : Definition(d) # <<"machine", request.host>>)'
      /\ (p.fallback.there <=> D # {})
      /\ (p.current = "match" <=> Open(M, ds)')
      /\ (p.current = "fallback" <=> Open(D, ds)')
    BY <1>1, <1>3, <1>4, Zenon DEF Reads, NetrcStays
<1>6. ASSUME NEW own, NEW key, NEW v, IsValue(Own(own, key, ds), v)
      PROVE  IsValue(Own(own, key, ds), v)'
    <2>1. PICK w : w = Own(own, key, ds)
        OBVIOUS
    <2>2. Own(own, key, ds)' = w
        BY <2>1, SameOwn
    <2>3. IsValue(w, v)'
        BY <1>6, <2>1, SameValue
    <2>4. QED
        BY <2>2, <2>3
<1>7. QED
    BY <1>1, <1>2, <1>5, <1>6 DEF Reads

LEMMA SameSays ==
    ASSUME NetrcStays
    PROVE  NetrcSays' = NetrcSays
<1>1. PICK ds, M, D : ds = Definitions /\ M = Machine(ds) /\ D = Default(ds)
    OBVIOUS
<1>2. Definitions' = ds /\ Machine(ds)' = M /\ Default(ds)' = D
    BY <1>1, SameDefinitions, SameEntries
<1>3. ASSUME NEW own, NEW key
      PROVE  Says(own, key, ds)' = Says(own, key, ds)
    <2>1. PICK w : w = Own(own, key, ds)
        OBVIOUS
    <2>2. Own(own, key, ds)' = w
        BY <2>1, SameOwn
    <2>3. PICK last : last = Final(w)
        OBVIOUS
    <2>4. Final(w)' = last
        BY <2>3 DEF Final, LastIn, Before
    <2>5. Says(own, key, ds) = IF w = {} THEN "" ELSE Definition(last)[2]
        BY <2>1, <2>3 DEF Says
    <2>6. Says(own, key, ds)' = IF w = {} THEN "" ELSE Definition(last)'[2]
        BY <2>2, <2>4 DEF Says
    <2>7. Definition(last)' = Definition(last)
        BY SameDefinitions
    <2>8. Definition(last)'[2] = Definition(last)[2]
        BY <2>7
    <2>9. QED
        <3>1. CASE w = {}
            BY <2>5, <2>6, <3>1
        <3>2. CASE w # {}
            <4>1. Says(own, key, ds) = Definition(last)[2]
                BY <2>5, <3>2
            <4>2. Says(own, key, ds)' = Definition(last)'[2]
                BY <2>6, <3>2
            <4>3. QED
                BY <2>8, <4>1, <4>2
        <3>3. QED
            BY <3>1, <3>2
<1>4. \A own : EntryOf(own, ds)' = EntryOf(own, ds)
    BY <1>3 DEF EntryOf
<1>5. QED
    BY <1>1, <1>2, <1>4 DEF NetrcSays

LEMMA SameUpto ==
    ASSUME NetrcStays, NEW l, NEW k
    PROVE  Upto(l, k)' = Upto(l, k)
BY SameDefinitions DEF Upto

Spelled == {h \in DOMAIN store : Lower[h] = Lower[request.host]}

(* The hosts that Load has come to, each with what one of its spellings has. *)
Loaded ==
    /\ todo \subseteq DOMAIN store
    /\ \A l : l \in DOMAIN hosts <=> \E h \in DOMAIN store : h \notin todo /\ Lower[h] = l
    /\ \A l \in DOMAIN hosts : \E h \in DOMAIN store : Lower[h] = l /\ hosts[l] = store[h]

(* The lines before l are parsed. *)
ParsedTo(l) ==
    /\ rest \in Seq(Seq(STRING)) /\ Len(rest) = Len(netrc) + 1 - l
    /\ \A i \in 1..Len(rest) : rest[i] = netrc[l - 1 + i]
    /\ parsed \in Parsed /\ Reads(parsed, Upto(l, 0)) /\ (parsed.inMacro <=> InMacro(l))

(* No request is made yet. *)
Unasked == target = request.host /\ ~strayed

(* The first request has the headers of its host; who is asked outside of   *)
(* the host's domain is asked after a redirect has led out of it.           *)
Asking ==
    /\ headers \in HostHeaders
    /\ hops \in Nat /\ hops # 0
    /\ hops = 1 => Unasked
    /\ hops # 1 => request.by = "source" /\ hops <= MaxRequests
    /\ ~InDomain(target) => strayed

(* Until the request is sent, hosts has what was loaded and parsed what was *)
(* read.                                                                    *)
CredentialsInv ==
    /\ Netrc
    /\ Loaded
    /\ phase \in {"load", "netrc"} => Unasked /\ \E l \in 1..(Len(netrc) + 1) : ParsedTo(l)
    /\ phase = "netrc" => Spelled = {}
    /\ phase \in {"send", "answered"} => Asking

LEMMA NoneIsOpen ==
    ~Open({}, {}) /\ Machine({}) = {} /\ Default({}) = {} /\ \A key : Own({}, key, {}) = {}
BY DEF Open, Machine, FirstIn, Default, Own

LEMMA InitParsed ==
    ASSUME CredentialsInit
    PROVE  Netrc /\ ParsedTo(1)
<1>1. Netrc
    BY RequestAssumption DEF CredentialsInit, Netrc
<1>2. rest \in Seq(Seq(STRING)) /\ Len(rest) = Len(netrc) + 1 - 1
      /\ \A i \in 1..Len(rest) : rest[i] = netrc[1 - 1 + i]
    BY <1>1 DEF CredentialsInit, Netrc
<1>3. ~InMacro(1)
    BY DEF InMacro
<1>4. Upto(1, 0) = {}
    <2>1. \A d \in Definitions : d[1] \in Nat /\ d[2] \in Nat /\ d[1] >= 1 /\ d[2] >= 1
        BY <1>1, DefinitionsAre
    <2>2. \A d \in Definitions : d \notin Upto(1, 0)
        BY <2>1 DEF Upto
    <2>3. QED
        BY <2>2 DEF Upto
<1>5. /\ parsed = [match |-> NoEntry, fallback |-> NoEntry, current |-> "none", inMacro |-> FALSE]
    BY DEF CredentialsInit
<1>6. NoEntry \in Entries /\ NoEntry.there = FALSE /\ NoEntry.login = "" /\ NoEntry.password = ""
    BY DEF NoEntry, Entries, Text
<1>7. /\ parsed \in Parsed /\ parsed.inMacro = FALSE /\ parsed.current = "none"
      /\ parsed.match = NoEntry /\ parsed.fallback = NoEntry
    BY <1>5, <1>6, CurrentsThere DEF Parsed
<1>8. parsed.current # "match" /\ parsed.current # "fallback"
    BY <1>7
<1>9. Reads(parsed, {})
    BY <1>6, <1>7, <1>8, NoneIsOpen, Zenon DEF Reads, IsValue
<1>10. QED
    BY <1>1, <1>2, <1>3, <1>4, <1>7, <1>9, Zenon DEF ParsedTo

(* NetrcLine, whether the line is in a macro or not. *)
LEMMA LineStep ==
    ASSUME Netrc, NEW l \in 1..(Len(netrc) + 1), ParsedTo(l), NetrcLine
    PROVE  l + 1 \in 1..(Len(netrc) + 1) /\ ParsedTo(l + 1)'
<1>1. Len(netrc) \in Nat /\ l \in Nat /\ l >= 1
    BY DEF Netrc
<1>2. /\ rest \in Seq(Seq(STRING)) /\ Len(rest) = Len(netrc) + 1 - l
      /\ \A i \in 1..Len(rest) : rest[i] = netrc[l - 1 + i]
      /\ rest # <<>> /\ rest' = Tail(rest) /\ netrc' = netrc
    BY DEF ParsedTo, NetrcLine
<1>3. Len(rest) >= 1 /\ l \in 1..Len(netrc) /\ Head(rest) = netrc[l]
    <2>1. Len(rest) # 0
        BY <1>2
    <2>2. Head(rest) = rest[1] /\ Len(rest) \in Nat
        BY <1>2
    <2>3. QED
        BY <1>1, <1>2, <2>1, <2>2
<1>4. /\ (rest \in Seq(Seq(STRING)))' /\ (Len(rest) = Len(netrc) + 1 - (l + 1))'
      /\ (\A i \in 1..Len(rest) : rest[i] = netrc[(l + 1) - 1 + i])'
    <2>1. /\ Tail(rest) \in Seq(Seq(STRING)) /\ Len(Tail(rest)) = Len(rest) - 1
          /\ \A i \in 1..Len(Tail(rest)) : Tail(rest)[i] = rest[i + 1]
        BY <1>2, <1>3
    <2>2. \A i \in 1..Len(Tail(rest)) : i + 1 \in 1..Len(rest) /\ l - 1 + (i + 1) = (l + 1) - 1 + i
        BY <1>1, <1>3, <2>1
    <2>3. \A i \in 1..Len(Tail(rest)) : Tail(rest)[i] = netrc[(l + 1) - 1 + i]
        BY <1>2, <2>1, <2>2
    <2>4. Len(Tail(rest)) = Len(netrc) + 1 - (l + 1)
        BY <1>1, <1>2, <2>1
    <2>5. QED
        BY <1>2, <2>1, <2>3, <2>4
<1>5. parsed \in Parsed /\ Reads(parsed, Upto(l, 0)) /\ (parsed.inMacro <=> InMacro(l))
    BY Zenon DEF ParsedTo
<1>6. parsed' \in Parsed /\ Reads(parsed', Upto(l + 1, 0)) /\ (parsed'.inMacro <=> InMacro(l + 1))
    <2>1. parsed' = IF parsed.inMacro THEN [parsed EXCEPT !.inMacro = Head(rest) # <<>>]
                    ELSE AllWords(parsed, PairsOf(Head(rest)))
        BY DEF NetrcLine
    <2>2. CASE parsed.inMacro
        <3>1. parsed' = [parsed EXCEPT !.inMacro = netrc[l] # <<>>]
            BY <1>3, <2>1, <2>2, Zenon
        <3>2. /\ parsed' \in Parsed /\ parsed'.inMacro = (netrc[l] # <<>>)
              /\ parsed'.match = parsed.match /\ parsed'.fallback = parsed.fallback
              /\ parsed'.current = parsed.current
            BY <1>5, <3>1 DEF Parsed
        <3>3. Upto(l + 1, 0) = Upto(l, 0)
            BY <1>3, <1>5, <2>2, UptoNext, Zenon
        <3>4. netrc[l] = <<>> => ~\E pair \in ToSet(PairsOf(netrc[l])) : pair[1] = "macdef"
            <4>1. netrc[l] = <<>> => PairsOf(netrc[l]) = <<>>
                BY <1>3, PairsTyped DEF Netrc
            <4>2. ToSet(<<>>) = {}
                BY DEF ToSet
            <4>3. QED
                BY <4>1, <4>2
        <3>5. InMacro(l + 1) <=> netrc[l] # <<>>
            BY <1>3, <1>5, <2>2, <3>4, MacroNext, Zenon
        <3>6. Reads(parsed', Upto(l, 0))
            BY <1>5, <3>2, Zenon DEF Reads
        <3>7. QED
            BY <3>2, <3>3, <3>5, <3>6, Zenon
    <2>3. CASE ~parsed.inMacro
        <3>1. parsed' = AllWords(parsed, PairsOf(netrc[l]))
            BY <1>3, <2>1, <2>3, Zenon
        <3>2. ~InMacro(l)
            BY <1>5, <2>3, Zenon
        <3>3. LET q == AllWords(parsed, PairsOf(netrc[l]))
              IN  /\ q \in Parsed /\ Reads(q, Upto(l + 1, 0))
                  /\ q.inMacro <=> (parsed.inMacro \/ \E pair \in ToSet(PairsOf(netrc[l])) : pair[1] = "macdef")
            BY <1>3, <1>5, <3>2, LineRead, Zenon
        <3>4. InMacro(l + 1) <=> \E pair \in ToSet(PairsOf(netrc[l])) : pair[1] = "macdef"
            BY <1>3, <3>2, MacroNext, Zenon
        <3>5. QED
            BY <2>3, <3>1, <3>3, <3>4, Zenon
    <2>4. QED
        BY <2>2, <2>3
<1>7. NetrcStays
    BY DEF NetrcLine, NetrcStays
<1>8. (parsed \in Parsed /\ Reads(parsed, Upto(l + 1, 0)) /\ (parsed.inMacro <=> InMacro(l + 1)))'
    <2>1. PICK p, ds, m : p = parsed' /\ ds = Upto(l + 1, 0) /\ m = l + 1
        OBVIOUS
    <2>2. Upto(m, 0)' = ds
        BY <1>7, <2>1, SameUpto
    <2>3. Reads(p, ds)'
        BY <1>6, <1>7, <2>1, SameReads
    <2>4. InMacro(m)' <=> InMacro(m)
        BY <1>7, SameDefinitions
    <2>5. QED
        BY <1>6, <2>1, <2>2, <2>3, <2>4
<1>9. l + 1 \in 1..(Len(netrc) + 1)
    BY <1>1, <1>3
<1>10. QED
    BY <1>4, <1>8, <1>9 DEF ParsedTo

LEMMA SetAllIs ==
    ASSUME NEW f, NEW g
    PROVE  /\ DOMAIN SetAll(f, g) = DOMAIN f \cup DOMAIN g
           /\ \A x \in DOMAIN f \cup DOMAIN g : SetAll(f, g)[x] = IF x \in DOMAIN g THEN g[x] ELSE f[x]
BY DEF SetAll

LEMMA NetrcSaid ==
    ASSUME Netrc, ParsedTo(Len(netrc) + 1)
    PROVE  NetrcSays = IF parsed.match.there THEN AuthOf(parsed.match)
                       ELSE IF parsed.fallback.there THEN AuthOf(parsed.fallback) ELSE <<>>
<1> DEFINE ds == Definitions
<1>1. Upto(Len(netrc) + 1, 0) = ds
    <2>1. \A d \in Definitions : d[1] \in Nat /\ d[1] < Len(netrc) + 1
        BY DefinitionsAre DEF Netrc
    <2>2. QED
        BY <2>1 DEF Upto
<1>2. Reads(parsed, ds)
    BY <1>1, Zenon DEF ParsedTo
<1>3. ds \in SUBSET Pos
    BY DefinitionsAre
<1>4. /\ parsed.match.there <=> Machine(ds) # {}
      /\ parsed.fallback.there <=> Default(ds) # {}
    BY <1>2, Zenon DEF Reads
<1>5. /\ IsValue(Own(Machine(ds), "login", ds), parsed.match.login)
      /\ IsValue(Own(Machine(ds), "password", ds), parsed.match.password)
      /\ IsValue(Own(Default(ds), "login", ds), parsed.fallback.login)
      /\ IsValue(Own(Default(ds), "password", ds), parsed.fallback.password)
    BY <1>2, Zenon DEF Reads
<1>6. /\ Says(Machine(ds), "login", ds) = parsed.match.login
      /\ Says(Machine(ds), "password", ds) = parsed.match.password
      /\ Says(Default(ds), "login", ds) = parsed.fallback.login
      /\ Says(Default(ds), "password", ds) = parsed.fallback.password
    BY <1>3, <1>5, ValueIsSaid, Zenon
<1>7. AuthOf(EntryOf(Machine(ds), ds)) = AuthOf(parsed.match)
    BY <1>6 DEF AuthOf, EntryOf
<1>8. AuthOf(EntryOf(Default(ds), ds)) = AuthOf(parsed.fallback)
    BY <1>6 DEF AuthOf, EntryOf
<1>9. CASE Machine(ds) # {}
    <2>1. NetrcSays = AuthOf(EntryOf(Machine(ds), ds))
        BY <1>9 DEF NetrcSays
    <2>2. QED
        BY <1>4, <1>7, <1>9, <2>1, Zenon
<1>10. CASE Machine(ds) = {} /\ Default(ds) # {}
    <2>1. NetrcSays = AuthOf(EntryOf(Default(ds), ds))
        BY <1>10 DEF NetrcSays
    <2>2. QED
        BY <1>4, <1>8, <1>10, <2>1, Zenon
<1>11. CASE Machine(ds) = {} /\ Default(ds) = {}
    <2>1. NetrcSays = <<>>
        BY <1>11 DEF NetrcSays
    <2>2. QED
        BY <1>4, <1>11, <2>1, Zenon
<1>12. QED
    BY <1>9, <1>10, <1>11, Zenon

LEMMA LoadStep ==
    ASSUME Loaded, LoadHost
    PROVE  Loaded'
<1>1. PICK h \in todo :
        IF Valid(store[h])
        THEN hosts' = SetAll(hosts, [l \in {Lower[h]} |-> store[h]]) /\ todo' = todo \ {h}
        ELSE UNCHANGED <<hosts, todo>>
    BY DEF LoadHost
<1>2. store' = store
    BY DEF LoadHost
<1>3. CASE Valid(store[h])
    <2>1. /\ hosts' = SetAll(hosts, [l \in {Lower[h]} |-> store[h]]) /\ todo' = todo \ {h}
        BY <1>1, <1>3
    <2> DEFINE one == [l \in {Lower[h]} |-> store[h]]
    <2>2. DOMAIN one = {Lower[h]} /\ one[Lower[h]] = store[h]
        OBVIOUS
    <2>10. hosts' = SetAll(hosts, one)
        BY <2>1
    <2> HIDE DEF one
    <2>3. /\ DOMAIN hosts' = DOMAIN hosts \cup {Lower[h]}
          /\ \A x \in DOMAIN hosts' : hosts'[x] = IF x = Lower[h] THEN store[h] ELSE hosts[x]
        <3>1. /\ DOMAIN hosts' = DOMAIN hosts \cup DOMAIN one
              /\ \A x \in DOMAIN hosts \cup DOMAIN one : hosts'[x] = IF x \in DOMAIN one THEN one[x] ELSE hosts[x]
            BY <2>10, SetAllIs, Zenon
        <3>2. QED
            BY <2>2, <3>1
    <2>4. h \in DOMAIN store /\ h \in todo /\ todo \subseteq DOMAIN store
        BY DEF Loaded
    <2>5. \A l : l \in DOMAIN hosts <=> \E g \in DOMAIN store : g \notin todo /\ Lower[g] = l
        BY DEF Loaded
    <2>6. \A l \in DOMAIN hosts : \E g \in DOMAIN store : Lower[g] = l /\ hosts[l] = store[g]
        BY DEF Loaded
    <2>7. \A l : l \in DOMAIN hosts' <=> \E g \in DOMAIN store : g \notin todo' /\ Lower[g] = l
        BY <2>1, <2>3, <2>4, <2>5
    <2>8. \A l \in DOMAIN hosts' : \E g \in DOMAIN store : Lower[g] = l /\ hosts'[l] = store[g]
        BY <2>3, <2>4, <2>6
    <2>9. QED
        BY <1>2, <2>1, <2>4, <2>7, <2>8 DEF Loaded
<1>4. CASE ~Valid(store[h])
    BY <1>1, <1>2, <1>4 DEF Loaded
<1>5. QED
    BY <1>3, <1>4

LEMMA SameHostHeaders ==
    ASSUME UNCHANGED <<store, netrc, request>>
    PROVE  HostHeaders' = HostHeaders /\ OwnHeaders' = OwnHeaders
<1>1. PICK says, own, s, r : says = NetrcSays /\ own = OwnHeaders /\ s = store /\ r = request
    OBVIOUS
<1>2. NetrcSays' = says
    BY <1>1, SameSays DEF NetrcStays
<1>3. OwnHeaders' = own
    BY <1>1 DEF OwnHeaders
<1>4. store' = s /\ request' = r
    BY <1>1
<1> DEFINE spelled == {h \in DOMAIN s : Lower[h] = Lower[r.host]}
<1>5. PICK S, T, one : /\ S = spelled /\ T = {SetAll(HeaderOf(s[h]), own) : h \in spelled}
                      /\ one = {SetAll(says, own)}
    OBVIOUS
<1>6. HostHeaders = IF S # {} THEN T ELSE one
    BY <1>1, <1>5 DEF HostHeaders
<1>7. {h \in DOMAIN store : Lower[h] = Lower[request.host]}' = S
    BY <1>4, <1>5
<1>8. {SetAll(HeaderOf(store[h]), OwnHeaders) : h \in {g \in DOMAIN store : Lower[g] = Lower[request.host]}}' = T
    <2>1. {SetAll(HeaderOf(store[h]), OwnHeaders) : h \in {g \in DOMAIN store : Lower[g] = Lower[request.host]}}'
            = {SetAll(HeaderOf(store'[h]), OwnHeaders') :
                h \in {g \in DOMAIN store' : Lower[g] = Lower[request'.host]}}
        BY DEF SetAll, HeaderOf
    <2>2. QED
        BY <1>3, <1>4, <1>5, <2>1
<1>9. {SetAll(NetrcSays, OwnHeaders)}' = one
    BY <1>2, <1>3, <1>5 DEF SetAll
<1>10. HostHeaders' = IF S # {} THEN T ELSE one
    BY <1>7, <1>8, <1>9 DEF HostHeaders
<1>11. QED
    BY <1>1, <1>3, <1>6, <1>10

(* The first request is made, with the headers of its host. *)
LEMMA AskStep ==
    ASSUME NEW credential, Ask(credential), Unasked, UNCHANGED <<store, netrc, request>>,
           SetAll(credential, OwnHeaders) \in HostHeaders
    PROVE  phase' = "send" /\ Asking'
<1>1. /\ phase' = "send" /\ headers' = SetAll(credential, OwnHeaders) /\ hops' = 1
      /\ target' = target /\ strayed' = strayed
    BY DEF Ask
<1>2. (headers \in HostHeaders)'
    BY <1>1, SameHostHeaders
<1>3. Unasked' /\ (InDomain(target))'
    BY <1>1 DEF Unasked, InDomain
<1>4. QED
    BY <1>1, <1>2, <1>3 DEF Asking

LEMMA ApplyStep ==
    ASSUME Loaded, Unasked, Apply
    PROVE  \/ phase' = "refused"
           \/ phase' = "send" /\ Asking'
           \/ phase' = "netrc" /\ Spelled' = {} /\ Unasked'
<1>1. todo = {} /\ UNCHANGED <<store, netrc, request>>
    BY DEF Apply, parsing
<1>2. Spelled' = Spelled
    BY <1>1 DEF Spelled
<1>3. \A l : l \in DOMAIN hosts <=> \E h \in DOMAIN store : Lower[h] = l
    BY <1>1 DEF Loaded
<1>4. \A l \in DOMAIN hosts : \E h \in DOMAIN store : Lower[h] = l /\ hosts[l] = store[h]
    BY DEF Loaded
<1>5. CASE ~Allowed
    BY <1>5 DEF Apply
<1>6. CASE Allowed /\ Lower[request.host] \in DOMAIN hosts
    <2>1. Ask(HeaderOf(hosts[Lower[request.host]]))
        BY <1>6 DEF Apply
    <2>2. PICK h \in DOMAIN store : Lower[h] = Lower[request.host] /\ hosts[Lower[request.host]] = store[h]
        BY <1>4, <1>6
    <2>3. SetAll(HeaderOf(hosts[Lower[request.host]]), OwnHeaders) \in HostHeaders
        BY <2>2 DEF HostHeaders
    <2>4. QED
        BY <1>1, <2>1, <2>3, AskStep, Zenon
<1>7. CASE Allowed /\ Lower[request.host] \notin DOMAIN hosts
    <2>1. phase' = "netrc" /\ UNCHANGED asking
        BY <1>7 DEF Apply
    <2>2. Spelled = {}
        BY <1>3, <1>7 DEF Spelled
    <2>3. QED
        BY <1>1, <1>2, <2>1, <2>2 DEF asking, Unasked
<1>8. QED
    BY <1>5, <1>6, <1>7

(* A redirect keeps the headers and remembers that it has led out. *)
LEMMA RedirectedStep ==
    ASSUME Asking, Redirected
    PROVE  Asking'
<1>1. /\ hops \in Nat /\ hops < MaxRequests /\ hops' = hops + 1 /\ headers' = headers
      /\ request.by = "source" /\ strayed' = (strayed \/ ~InDomain(target'))
      /\ UNCHANGED <<store, netrc, request>>
    BY DEF Asking, Redirected, parsing
<1>2. hops # 0
    BY DEF Asking
<1>3. (headers \in HostHeaders)'
    BY <1>1, SameHostHeaders DEF Asking
<1>4. (InDomain(target))' <=> InDomain(target')
    BY <1>1 DEF InDomain
<1>5. hops' \in Nat /\ hops' # 0 /\ hops' # 1 /\ hops' <= MaxRequests
    BY <1>1, <1>2, RequestAssumption
<1>6. (~InDomain(target) => strayed)'
    BY <1>1, <1>4, Zenon
<1>7. (hops # 1 => request.by = "source" /\ hops <= MaxRequests)'
    BY <1>1, <1>5
<1>8. (hops \in Nat /\ hops # 0)' /\ (hops = 1 => Unasked)'
    BY <1>5
<1>9. QED
    BY <1>3, <1>6, <1>7, <1>8, Zenon DEF Asking

LEMMA AskingStays ==
    ASSUME Asking, UNCHANGED <<store, netrc, request, headers, target, strayed, hops>>
    PROVE  Asking'
<1>1. (headers \in HostHeaders)'
    BY SameHostHeaders DEF Asking
<1>2. (InDomain(target))' <=> InDomain(target)
    BY DEF InDomain
<1>3. Unasked' <=> Unasked
    BY DEF Unasked
<1>4. QED
    BY <1>1, <1>2, <1>3 DEF Asking

LEMMA CarriesOfHost ==
    ASSUME CredentialsInv
    PROVE  AuthIsOfHost
<1>1. SUFFICES ASSUME phase \in {"send", "answered"}, Asking
               PROVE  /\ hops = 1 => target = request.host /\ Carried \in HostHeaders
                      /\ hops # 1 => request.by = "source" /\ hops <= MaxRequests
                      /\ \E f \in HostHeaders :
                            /\ DOMAIN f \ Sensitive \subseteq DOMAIN Carried /\ DOMAIN Carried \subseteq DOMAIN f
                            /\ \A h \in DOMAIN Carried : Carried[h] = f[h]
                      /\ ~InDomain(target) => DOMAIN Carried \cap Sensitive = {}
    BY Zenon DEF CredentialsInv, AuthIsOfHost
<1>2. headers \in HostHeaders /\ (hops = 1 => Unasked) /\ (~InDomain(target) => strayed)
      /\ (hops # 1 => request.by = "source" /\ hops <= MaxRequests)
    BY <1>1 DEF Asking
<1>3. CASE strayed
    <2>1. Carried = [h \in DOMAIN headers \ Sensitive |-> headers[h]]
        BY <1>3 DEF Carried
    <2>2. DOMAIN Carried = DOMAIN headers \ Sensitive /\ \A h \in DOMAIN Carried : Carried[h] = headers[h]
        BY <2>1
    <2>3. QED
        BY <1>2, <1>3, <2>2 DEF Unasked
<1>4. CASE ~strayed
    <2>1. Carried = headers
        BY <1>4 DEF Carried
    <2>2. QED
        BY <1>2, <1>4, <2>1 DEF Unasked
<1>5. QED
    BY <1>3, <1>4

LEMMA CredentialsInvInit ==
    ASSUME CredentialsInit
    PROVE  CredentialsInv
<1>1. Netrc /\ ParsedTo(1)
    BY InitParsed
<1>2. Loaded /\ Unasked
    BY DEF CredentialsInit, Loaded, Unasked
<1>3. 1 \in 1..(Len(netrc) + 1)
    BY <1>1 DEF Netrc
<1>4. phase = "load"
    BY DEF CredentialsInit
<1>5. QED
    BY <1>1, <1>2, <1>3, <1>4 DEF CredentialsInv

LEMMA ParsedStays ==
    ASSUME UNCHANGED <<netrc, request, rest, parsed>>, NEW l, ParsedTo(l)
    PROVE  ParsedTo(l)'
<1>1. NetrcStays
    BY DEF NetrcStays
<1>2. PICK p, ds : p = parsed /\ ds = Upto(l, 0)
    OBVIOUS
<1>3. Upto(l, 0)' = ds
    BY <1>1, <1>2, SameUpto
<1>4. Reads(p, ds)'
    <2>1. Reads(p, ds)
        BY <1>2 DEF ParsedTo
    <2>2. QED
        BY <1>1, <2>1, SameReads
<1>5. InMacro(l)' <=> InMacro(l)
    BY <1>1, SameDefinitions
<1>6. QED
    BY <1>2, <1>3, <1>4, <1>5 DEF ParsedTo

LEMMA CredentialsInvNext ==
    ASSUME CredentialsInv, [CredentialsNext]_credentialVars
    PROVE  CredentialsInv'
<1>1. /\ Netrc /\ Loaded
      /\ phase \in {"load", "netrc"} => Unasked /\ \E l \in 1..(Len(netrc) + 1) : ParsedTo(l)
      /\ phase = "netrc" => Spelled = {}
      /\ phase \in {"send", "answered"} => Asking
    BY DEF CredentialsInv
<1>2. CASE LoadHost
    <2>1. Loaded'
        BY <1>1, <1>2, LoadStep
    <2>2. /\ UNCHANGED <<netrc, request, rest, parsed, target, strayed>>
          /\ phase = "load" /\ phase' \in {"load", "refused"}
        BY <1>2 DEF LoadHost, parsing, asking
    <2>3. PICK l \in 1..(Len(netrc) + 1) : ParsedTo(l)
        BY <1>1, <2>2
    <2>4. ParsedTo(l)'
        BY <2>2, <2>3, ParsedStays
    <2>5. Unasked' /\ Netrc'
        BY <1>1, <2>2 DEF Unasked, Netrc
    <2>6. l \in (1..(Len(netrc) + 1))'
        BY <2>2
    <2>7. QED
        BY <2>1, <2>2, <2>4, <2>5, <2>6 DEF CredentialsInv
<1>3. CASE Apply
    <2>1. UNCHANGED <<store, todo, hosts, netrc, request, rest, parsed>> /\ phase = "load"
        BY <1>3 DEF Apply, parsing
    <2>2. Loaded' /\ Netrc'
        BY <1>1, <2>1 DEF Loaded, Netrc
    <2>3. PICK l \in 1..(Len(netrc) + 1) : ParsedTo(l)
        BY <1>1, <2>1
    <2>4. ParsedTo(l)'
        BY <2>1, <2>3, ParsedStays
    <2>5. \/ phase' = "refused"
          \/ phase' = "send" /\ Asking'
          \/ phase' = "netrc" /\ Spelled' = {} /\ Unasked'
        BY <1>1, <1>3, <2>1, ApplyStep
    <2>6. l \in (1..(Len(netrc) + 1))'
        BY <2>1
    <2>7. QED
        BY <2>2, <2>4, <2>5, <2>6 DEF CredentialsInv
<1>4. CASE NetrcLine
    <2>1. UNCHANGED <<store, todo, hosts, netrc, request, phase, target, strayed>> /\ phase = "netrc"
        BY <1>4 DEF NetrcLine, asking
    <2>2. Loaded' /\ Netrc' /\ Spelled' = Spelled /\ Unasked'
        BY <1>1, <2>1 DEF Loaded, Netrc, Spelled, Unasked
    <2>3. PICK l \in 1..(Len(netrc) + 1) : ParsedTo(l)
        BY <1>1, <2>1
    <2>4. PICK m : m = l + 1
        OBVIOUS
    <2>5. m \in 1..(Len(netrc) + 1) /\ ParsedTo(m)'
        BY <1>1, <1>4, <2>3, <2>4, LineStep
    <2>6. m \in (1..(Len(netrc) + 1))'
        BY <2>1, <2>5
    <2>7. phase' = "netrc" /\ Spelled' = {}
        BY <1>1, <2>1, <2>2
    <2>8. QED
        BY <2>2, <2>5, <2>6, <2>7 DEF CredentialsInv
<1>5. CASE NetrcAuth
    <2>1. /\ UNCHANGED <<store, todo, hosts, netrc, request>> /\ phase = "netrc" /\ rest = <<>>
          /\ Ask(IF parsed.match.there THEN AuthOf(parsed.match)
                 ELSE IF parsed.fallback.there THEN AuthOf(parsed.fallback) ELSE <<>>)
        BY <1>5 DEF NetrcAuth, parsing
    <2>2. PICK l \in 1..(Len(netrc) + 1) : ParsedTo(l)
        BY <1>1, <2>1
    <2>3. ParsedTo(Len(netrc) + 1)
        <3>1. Len(rest) = 0 /\ Len(rest) = Len(netrc) + 1 - l
            BY <2>1, <2>2 DEF ParsedTo
        <3>2. l = Len(netrc) + 1
            BY <1>1, <3>1 DEF Netrc
        <3>3. QED
            BY <2>2, <3>2
    <2>4. Ask(NetrcSays)
        BY <1>1, <2>1, <2>3, NetrcSaid, Zenon
    <2>5. SetAll(NetrcSays, OwnHeaders) \in HostHeaders
        BY <1>1, <2>1 DEF HostHeaders, Spelled
    <2>6. phase' = "send" /\ Asking'
        BY <1>1, <2>1, <2>4, <2>5, AskStep, Zenon
    <2>7. Loaded' /\ Netrc'
        BY <1>1, <2>1 DEF Loaded, Netrc
    <2>8. QED
        BY <2>6, <2>7 DEF CredentialsInv
<1>6. CASE Redirected
    <2>1. /\ UNCHANGED <<store, todo, hosts, netrc, request, phase>> /\ phase = "send"
        BY <1>6 DEF Redirected, parsing
    <2>2. Loaded' /\ Netrc'
        BY <1>1, <2>1 DEF Loaded, Netrc
    <2>3. Asking'
        BY <1>1, <1>6, <2>1, RedirectedStep
    <2>4. QED
        BY <2>1, <2>2, <2>3 DEF CredentialsInv
<1>7. CASE Answered
    <2>1. /\ UNCHANGED <<store, todo, hosts, netrc, request, headers, target, strayed, hops>>
          /\ phase = "send" /\ phase' \in {"answered", "refused"}
        BY <1>7 DEF Answered, parsing, asking
    <2>2. Asking'
        BY <1>1, <2>1, AskingStays
    <2>3. Loaded' /\ Netrc'
        BY <1>1, <2>1 DEF Loaded, Netrc
    <2>4. QED
        BY <2>1, <2>2, <2>3 DEF CredentialsInv
<1>8. CASE UNCHANGED credentialVars
    <2>1. /\ UNCHANGED <<store, todo, hosts, netrc, request, phase, headers, target, strayed, hops>>
          /\ UNCHANGED <<rest, parsed>>
        BY <1>8 DEF credentialVars, parsing, asking
    <2>2. Loaded' /\ Netrc' /\ Spelled' = Spelled
        BY <1>1, <2>1 DEF Loaded, Netrc, Spelled
    <2>3. phase' \in {"send", "answered"} => Asking'
        BY <1>1, <2>1, AskingStays
    <2>4. phase' \in {"load", "netrc"} => Unasked' /\ (\E l \in 1..(Len(netrc) + 1) : ParsedTo(l))'
        <3>1. ASSUME phase \in {"load", "netrc"}
              PROVE  (\E l \in 1..(Len(netrc) + 1) : ParsedTo(l))'
            <4>1. PICK l \in 1..(Len(netrc) + 1) : ParsedTo(l)
                BY <1>1, <3>1
            <4>2. ParsedTo(l)' /\ l \in (1..(Len(netrc) + 1))'
                BY <2>1, <4>1, ParsedStays
            <4>3. QED
                BY <4>2
        <3>2. Unasked' <=> Unasked
            BY <2>1 DEF Unasked
        <3>3. QED
            BY <1>1, <2>1, <3>1, <3>2
    <2>5. phase' = "netrc" => Spelled' = {}
        BY <1>1, <2>1, <2>2
    <2>6. QED
        BY <2>2, <2>3, <2>4, <2>5 DEF CredentialsInv
<1>9. QED
    BY <1>2, <1>3, <1>4, <1>5, <1>6, <1>7, <1>8 DEF CredentialsNext

(* Store.Apply, parseNetrc and net/http: whatever is in the credentials     *)
(* file and in the netrc file, and in whatever order Load comes to the      *)
(* hosts, the first request carries the credential of its host, from the    *)
(* first entry that fits, and the headers its source sets; never that of    *)
(* another host, of a macro or of a later entry.  Wherever redirects lead   *)
(* a source's request, it carries no header but those, and no sensitive one *)
(* outside of the domain; one of its own, like PRIVATE-TOKEN, it does.      *)
THEOREM AuthAlwaysOfHost == CredentialsSpec => []AuthIsOfHost
<1>1. CredentialsInit => CredentialsInv
    BY CredentialsInvInit
<1>2. CredentialsInv /\ [CredentialsNext]_credentialVars => CredentialsInv'
    BY CredentialsInvNext
<1>3. CredentialsInv => AuthIsOfHost
    BY CarriesOfHost
<1>4. QED
    BY <1>1, <1>2, <1>3, PTL DEF CredentialsSpec
=============================================================================
