----------------------------- MODULE ScrapeCrawl -----------------------------
(***************************************************************************)
(* ScrapeSource.Fetch of internal/project/sources/scrape.go: the walk from *)
(* the seed URLs along the links of the pages fetched, breadth first, to a *)
(* depth and to a number of pages, which saves every page as a file.       *)
(* A URL is its origin, the segments of its path, whether a slash ends it, *)
(* and its query; of fragments and encodings nothing is kept.  The links   *)
(* on the pages are any of a set of sites; any request may fail.           *)
(***************************************************************************)
EXTENDS Integers, Sequences, FiniteSets, SequencesExt

CONSTANTS
    Url,        \* URLs as they are spelled in seeds and links
    Seeds,      \* the configured URLs
    Site,       \* a site says what extractLinks finds on each page, in order
    Html,       \* the pages that are HTML, whose links are followed
    NoText,     \* the pages that leave no text
    MaxPages,   \* opts.MaxPages
    MaxDepth    \* opts.MaxDepth

ASSUME CrawlAssumption ==
    /\ IsFiniteSet(Url)
    /\ \A u \in Url : /\ DOMAIN u = {"origin", "path", "slash", "query"}
                      /\ u.slash \in BOOLEAN
    /\ Seeds \in Seq(Url) /\ Site \subseteq [Url -> Seq(Url)]
    /\ Html \subseteq Url /\ NoText \subseteq Url
    /\ MaxPages \in Nat /\ MaxDepth \in Nat

VARIABLES
    walk,       \* "running", or how Fetch returned: "done" or "error"
    queue,      \* URLs to fetch, each with its depth
    visited,    \* normalized URLs that have been queued
    fetched,    \* pages fetched
    files,      \* files[f]: the page whose text file f holds
    links,      \* the site that is walked
    tried,      \* the URLs requested, in order
    got         \* those that answered

crawlVars == <<walk, queue, visited, fetched, files, links, tried, got>>

(* normalizeURL cuts a slash at the end, which a query hides. *)
Norm(u) == IF u.query = "" THEN [u EXCEPT !.slash = FALSE] ELSE u

(* urlToFilename: host and path, without the slash at the end or the query. *)
File(u) == <<u.origin>> \o u.path

(* matchesSeedPrefix: seedPrefix is the directory of a seed, with a slash. *)
SeedDir(u) == IF u.slash \/ u.path = <<>> THEN u.path ELSE Front(u.path)

Under(u, seed) ==
    /\ u.origin = seed.origin
    /\ IsPrefix(SeedDir(seed), u.path)
    /\ u.slash \/ u.path # SeedDir(seed)

Norms(entries) == {Norm(entries[k].url) : k \in DOMAIN entries}

(* The entries that links become at a depth: in their order, those whose   *)
(* normalized URL has not been seen, nor come before among them.           *)
Fresh(urls, seen, depth, scope) ==
    LET entries[k \in 0..Len(urls)] ==
            IF k = 0 THEN <<>>
            ELSE IF urls[k] \in scope /\ Norm(urls[k]) \notin seen \cup Norms(entries[k - 1])
                 THEN Append(entries[k - 1], [url |-> urls[k], depth |-> depth])
                 ELSE entries[k - 1]
    IN  entries[Len(urls)]

(* Seeds past the limit are dropped before duplicates are. *)
Limited == SubSeq(Seeds, 1, IF Len(Seeds) > MaxPages THEN MaxPages ELSE Len(Seeds))

InScope == {u \in Url : \E i \in DOMAIN Limited : Under(u, Limited[i])}

CrawlInit ==
    /\ walk = "running"
    /\ links \in Site
    /\ queue = Fresh(Limited, {}, 0, Url)
    /\ visited = Norms(queue)
    /\ fetched = 0 /\ files = <<>> /\ tried = <<>> /\ got = {}

-----------------------------------------------------------------------------
Running == walk = "running" /\ queue # <<>> /\ fetched < MaxPages

(* Mutant: a page that fails is tried again later. *)
SkipRetry ==
    /\ Running
    /\ queue' = Append(Tail(queue), Head(queue))
    /\ UNCHANGED <<walk, visited, fetched, files, links, tried, got>>

(* fetchURL fails: the page is skipped. *)
Skip ==
    /\ Running
    /\ queue' = Tail(queue)
    /\ tried' = Append(tried, Head(queue).url)
    /\ UNCHANGED <<walk, visited, fetched, files, links, got>>

(* Mutant: the links of the last level are followed too. *)
FollowedDeeper(e) ==
    IF e.url \in Html /\ MaxDepth > 0 /\ e.depth <= MaxDepth
    THEN Fresh(links[e.url], visited, e.depth + 1, InScope) ELSE <<>>

Followed(e) ==
    IF e.url \in Html /\ MaxDepth > 0 /\ e.depth < MaxDepth
    THEN Fresh(links[e.url], visited, e.depth + 1, InScope) ELSE <<>>

(* Mutants: what is queued is not marked; new links are walked first;      *)
(* blank pages do not count.                                               *)
VisitUnmarked ==
    LET e == Head(queue)
    IN  /\ Running
        /\ tried' = Append(tried, e.url) /\ got' = got \cup {e.url}
        /\ fetched' = fetched + 1
        /\ queue' = Tail(queue) \o Followed(e)
        /\ UNCHANGED <<visited, walk, files, links>>

VisitDepthFirst ==
    LET e == Head(queue)
        new == Followed(e)
    IN  /\ Running
        /\ tried' = Append(tried, e.url) /\ got' = got \cup {e.url}
        /\ fetched' = fetched + 1
        /\ queue' = new \o Tail(queue)
        /\ visited' = visited \cup Norms(new)
        /\ UNCHANGED <<walk, files, links>>

VisitUncounted ==
    LET e == Head(queue)
        new == Followed(e)
    IN  /\ Running
        /\ tried' = Append(tried, e.url) /\ got' = got \cup {e.url}
        /\ fetched' = IF e.url \in NoText THEN fetched ELSE fetched + 1
        /\ queue' = Tail(queue) \o new
        /\ visited' = visited \cup Norms(new)
        /\ UNCHANGED <<walk, files, links>>

(* The page is fetched, its links are queued and, unless nothing of it is  *)
(* left as text, it is written, which may fail.                            *)
Visit ==
    LET e == Head(queue)
        new == Followed(e)
    IN  /\ Running
        /\ tried' = Append(tried, e.url) /\ got' = got \cup {e.url}
        /\ fetched' = fetched + 1
        /\ queue' = Tail(queue) \o new
        /\ visited' = visited \cup Norms(new)
        /\ UNCHANGED links
        /\ \/ e.url \in NoText /\ UNCHANGED <<walk, files>>
           \/ /\ e.url \notin NoText
              /\ \/ /\ files' = [f \in DOMAIN files \cup {File(e.url)} |->
                                   IF f = File(e.url) THEN e.url ELSE files[f]]
                    /\ UNCHANGED walk
                 \/ walk' = "error" /\ UNCHANGED files

(* The context is cancelled, which is looked at before each page. *)
Cancel ==
    /\ Running
    /\ walk' = "error"
    /\ UNCHANGED <<queue, visited, fetched, files, links, tried, got>>

Return ==
    /\ walk = "running"
    /\ queue = <<>> \/ fetched >= MaxPages
    /\ walk' = "done"
    /\ UNCHANGED <<queue, visited, fetched, files, links, tried, got>>

CrawlNext == Skip \/ Visit \/ Cancel \/ Return

(* The loop runs on: every request ends, since the client has a timeout. *)
CrawlSpec == CrawlInit /\ [][CrawlNext]_crawlVars /\ WF_crawlVars(Skip \/ Visit \/ Return)

-----------------------------------------------------------------------------
(* Every variable has its type, and each page fetched was asked for. *)
CrawlTypeOK ==
    /\ links \in [Url -> Seq(Url)] /\ walk \in {"running", "done", "error"}
    /\ queue \in Seq([url : Url, depth : 0..MaxDepth])
    /\ visited \subseteq {Norm(u) : u \in Url}
    /\ fetched \in 0..MaxPages
    /\ DOMAIN files \subseteq {File(u) : u \in Url}
    /\ tried \in Seq(Url) /\ got \subseteq ToSet(tried)

(* No page is requested twice, however often and in whatever spelling it   *)
(* is linked.                                                              *)
NoPageTwice ==
    \A i, j \in DOMAIN tried : Norm(tried[i]) = Norm(tried[j]) => i = j

(* The pages within k links of the seeds, along the pages that answered. *)
Reach ==
    LET Start == {Norm(Limited[i]) : i \in DOMAIN Limited}
        Out(near) == {Norm(v) : v \in {w \in InScope :
            \E u \in got \cap Html : Norm(u) \in near /\ w \in ToSet(links[u])}}
        within[k \in 0..MaxDepth] ==
            IF k = 0 THEN Start ELSE within[k - 1] \cup Out(within[k - 1])
    IN  within[MaxDepth]

(* A walk that is not cut short requests exactly the pages within MaxDepth *)
(* links: none is missed because a longer way to it was found first.       *)
WalkIsReach ==
    walk = "done" /\ queue = <<>> => {Norm(u) : u \in ToSet(tried)} = Reach

(* The limit holds for the pages that answered. *)
PagesLimited == Cardinality(got) <= MaxPages

(* Fetch returns, whatever the links are. *)
Returns == <>(walk # "running")

-----------------------------------------------------------------------------
(* internal/project/sources/scrape.go:68, "saves each page as a .md file":  *)
(* of every page with text that was fetched, the text is in a file.        *)
EachPageSaved ==
    walk = "done" => \A u \in got \ NoText : \E f \in DOMAIN files : files[f] = u
=============================================================================
