------------------------------- MODULE MCFetch -------------------------------
(* What a fetch does with what comes from the network: it walks pages, it  *)
(* extracts an archive, it authenticates a request.  In each behaviour one *)
(* of the three has something to do.                                       *)
(* Archives have up to three entries, with a wrapper or not, with files in *)
(* each other's way and outside; of other downloads there is one of every  *)
(* kind.  Netrc files have up to four lines of nine kinds; a credentials   *)
(* file has nothing, another host, or two spellings of the host, with      *)
(* credentials of every kind and one that is not valid.  A redirect leads  *)
(* to the host in either spelling, to one below it or to another.          *)
EXTENDS MCScrapeCrawl, ArchiveExtract, Credentials

Inside(path) == [path |-> path, slash |-> FALSE, type |-> "file"]
Directory(path) == [path |-> path, slash |-> TRUE, type |-> "dir"]
Pax == [path |-> <<"pax">>, slash |-> FALSE, type |-> "other"]
MCEntries ==
    {Inside(<<"w", "x">>), Inside(<<"w", "w", "x">>), Inside(<<"x">>), Inside(<<"v", "x">>),
     Inside(<<"w", "..", "..", "x">>), Inside(<<".", "x">>), Inside(<<"w", "x", "y">>),
     Directory(<<"w">>), Directory(<<"w", "x">>), Directory(<<".">>), Pax}
MCDownloads ==
    [extract : {"unset"}, looks : {TRUE}, gzip : {TRUE}, named : {TRUE},
     entries : UNION {[1..n -> MCEntries] : n \in 0..3}]
    \cup [extract : {"unset", "yes", "no"}, looks : BOOLEAN, gzip : BOOLEAN, named : BOOLEAN,
          entries : {<<Pax, Inside(<<"w", "x">>)>>}]

MCLower == [h \in {"h", "H", "o", "d.h"} |-> IF h = "H" THEN "h" ELSE h]
MCSubdomains == [h \in DOMAIN MCLower |-> IF h = "h" THEN {"d.h"} ELSE {}]
Credential(token, username, password, header, scheme) ==
    [token |-> token, username |-> username, password |-> password,
     header |-> header, scheme |-> scheme, wellFormed |-> TRUE]
MCCredentials ==
    {Credential("t", "", "", "", ""), Credential("t", "", "", "Key", ""),
     Credential("t", "", "", "Key", "Token"), Credential("", "u", "p", "", "Token"),
     Credential("t", "", "p", "", "")}
MCStores == {<<>>} \cup [{"o"} -> MCCredentials] \cup [{"h", "H"} -> MCCredentials]
MCWords ==
    {<<>>, <<" ">>, <<"machine", "h">>, <<"machine", "o", "password", "n">>,
     <<"login", "a", "password", "p">>, <<"login", "token">>, <<"default">>,
     <<"default", "login", "a", "password", "q">>, <<"macdef", "m">>}
OfLines(numbers) == UNION {[1..n -> MCWords] : n \in numbers}
MCNetrcs == OfLines(0..4)
MCRequests ==
    [by : {"get", "send", "source"}, scheme : {"https", "https:8443"}, host : {"h", "H", "o"},
     headers : {<<>>, [name \in {"Key", "Cookie"} |-> <<"own">>]},
     allow : {{}, {[scheme |-> "https", host |-> "H"]}}]
MCPlain == [by |-> "get", scheme |-> "https", host |-> "h", headers |-> <<>>, allow |-> {}]

-----------------------------------------------------------------------------
NoSite == CHOOSE site \in MCSite : TRUE
NoDownload == CHOOSE d \in MCDownloads : TRUE

CrawlIdle ==
    /\ walk = "error" /\ links = NoSite /\ queue = <<>> /\ visited = {}
    /\ fetched = 0 /\ files = <<>> /\ tried = <<>> /\ got = {}
ArchiveIdle ==
    /\ fetch = "failed" /\ download = NoDownload
    /\ entry = 1 /\ topDir = NoDir /\ tree = <<>>
CredentialsIdle ==
    /\ phase = "refused" /\ store = <<>> /\ todo = {} /\ hosts = <<>>
    /\ request = MCPlain /\ netrc = <<>> /\ rest = <<>>
    /\ parsed = [match |-> NoEntry, fallback |-> NoEntry, current |-> "none", inMacro |-> FALSE]
    /\ headers = <<>> /\ target = "h" /\ strayed = FALSE /\ hops = 0

(* Long netrc files with one request, short ones with each request and     *)
(* each credentials file.                                                  *)
FewNetrcs ==
    OfLines({0} \cup (IF store \in [{"o"} -> MCCredentials] THEN 1..2 ELSE {})
                \cup (IF request = MCPlain /\ store = <<>> THEN 3..4 ELSE {}))

FetchInit ==
    \/ CrawlInit /\ ArchiveIdle /\ CredentialsIdle
    \/ CrawlIdle /\ ArchiveInit /\ CredentialsIdle
    \/ /\ CrawlIdle /\ ArchiveIdle
       /\ store \in Stores /\ request \in Requests /\ netrc \in FewNetrcs
       /\ CredentialsInit

Crawl == (Skip \/ Visit \/ Return) /\ UNCHANGED <<archiveVars, credentialVars>>
FetchNext ==
    \/ Crawl
    \/ Cancel /\ UNCHANGED <<archiveVars, credentialVars>>
    \/ ArchiveNext /\ UNCHANGED <<crawlVars, credentialVars>>
    \/ CredentialsNext /\ UNCHANGED <<crawlVars, archiveVars>>
=============================================================================
