------------------------------ MODULE MCEngine ------------------------------
(* What the engine and its fetches compute by themselves: it accepts a     *)
(* configuration, it cuts a document into chunks, it answers calls of a    *)
(* tool, a template's grep prints lines and its search_for asks the        *)
(* indexes; a source walks pages or extracts an archive, and a request is  *)
(* authenticated.  In each behaviour one of the eight has something to do. *)
(* Documents have up to four lines, with headings of three levels, one of  *)
(* them without a title, and --- with a line of any kind behind it.  Two   *)
(* of three chunks and one of two conventions match what is searched for,  *)
(* and two indexes go live.  Tools are those of MCTool, configurations     *)
(* those of MCSchema, sites, archives and requests those of MCFetch.       *)
EXTENDS MCTool, MarkdownChunks, GrepSpans, MCSchema, SearchFor, MCFetch

H(level, text) == [kind |-> "heading", level |-> level, text |-> text]
L(kind, text) == [kind |-> kind, level |-> 0, text |-> text]
Rule(behind) == [behind |-> behind] @@ L("rule", "---x")
MCLines == {H(1, "a"), H(2, "b"), H(3, "c"), H(2, ""), L("text", "t"), L("blank", ""),
            L("sep", "---"), L("long", "w"),
            Rule(L("text", "x")), Rule(H(1, "r")), Rule(L("blank", ""))}
MCDocs == UNION {[1..n -> MCLines] : n \in 0..4}

MCChunk == {"d1", "d2", "d3"}
MCConvChunk == {"c1", "c2"}
MCMatching == {"d1", "d2", "c1"}

-----------------------------------------------------------------------------
CallIdle ==
    /\ pc = "refused" /\ tool \in DocTools
    /\ sent = Empty /\ params = Empty /\ at = 1 /\ seen = Empty
    /\ out = <<>> /\ answer = "none"
ChunkIdle ==
    /\ status = "done" /\ doc = <<>> /\ line = 1
    /\ headings = [l \in Levels |-> ""]
    /\ title = "" /\ body = <<>> /\ chunks = <<>>
GrepIdle ==
    /\ size = 1 /\ next = 1 /\ matches = {}
    /\ before = 0 /\ after = 0 /\ merged = <<>>

SchemaIdle ==
    /\ pass = "unsupported" /\ origin = <<>> /\ heap = <<>>
    /\ stack = <<>> /\ errs = {}
SearchIdle ==
    /\ step = "done" /\ idx = <<{}>> /\ conv = {} /\ asked = 0
    /\ loaded = 1 /\ since = 1 /\ held = {{}} /\ result = [Blank EXCEPT !.words = "no index"]

EngineIdle == CallIdle /\ ChunkIdle /\ GrepIdle /\ SchemaIdle /\ SearchIdle
FetchIdle == CrawlIdle /\ ArchiveIdle /\ CredentialsIdle

EngineInit ==
    \/ Init /\ ChunkIdle /\ GrepIdle /\ SchemaIdle /\ SearchIdle /\ FetchIdle
    \/ CallIdle /\ ChunkInit /\ GrepIdle /\ SchemaIdle /\ SearchIdle /\ FetchIdle
    \/ CallIdle /\ ChunkIdle /\ GrepInit /\ SchemaIdle /\ SearchIdle /\ FetchIdle
    \/ CallIdle /\ ChunkIdle /\ GrepIdle /\ SchemaInit /\ SearchIdle /\ FetchIdle
    \/ CallIdle /\ ChunkIdle /\ GrepIdle /\ SchemaIdle /\ SearchForInit /\ FetchIdle
    \/ EngineIdle /\ FetchInit

fetchVars == <<crawlVars, archiveVars, credentialVars>>
engineVars == <<vars, chunkVars, grepVars, schemaVars, searchForVars>>

EngineNext ==
    \/ Next /\ UNCHANGED <<chunkVars, grepVars, schemaVars, searchForVars, fetchVars>>
    \/ ChunkNext /\ UNCHANGED <<vars, grepVars, schemaVars, searchForVars, fetchVars>>
    \/ GrepNext /\ UNCHANGED <<vars, chunkVars, schemaVars, searchForVars, fetchVars>>
    \/ SchemaNext /\ UNCHANGED <<vars, chunkVars, grepVars, searchForVars, fetchVars>>
    \/ SearchForNext /\ UNCHANGED <<vars, chunkVars, grepVars, schemaVars, fetchVars>>
    \/ FetchNext /\ UNCHANGED engineVars

(* The walk goes on by itself; nothing need cancel it. *)
EngineSpec ==
    /\ EngineInit /\ [][EngineNext]_<<engineVars, fetchVars>>
    /\ WF_<<engineVars, fetchVars>>(Crawl /\ UNCHANGED engineVars)
=============================================================================
