----------------------------- MODULE Credentials -----------------------------
(***************************************************************************)
(* How a request is authenticated: internal/auth reads the credentials     *)
(* file into a Store and, for a host that is not in it, the user's netrc;  *)
(* httpFetch and httpSend of internal/tools and HTTPSource.Fetch use that. *)
(* A netrc file is a sequence of lines, a line the sequence of its words,  *)
(* and a line of blanks only, which is not the empty one, is <<" ">>.  Of  *)
(* an HTTP request only where it goes and its headers are kept, by the     *)
(* canonical names that net/http gives them.                               *)
(***************************************************************************)
EXTENDS Integers, Sequences, SequencesExt

CONSTANTS
    Lower,       \* Lower[h]: the host name h in lower case
    Subdomains,  \* Subdomains[h]: the names that are below h, as spelled
    Stores,      \* contents of a credentials file: hosts and credentials
    Netrcs,      \* contents of a netrc file
    Requests,    \* requests: [by, scheme, host, headers, allow]
    Statuses,    \* statuses of responses
    MaxRequests  \* requests that net/http makes of one, 10

ASSUME RequestAssumption ==
    /\ \A r \in Requests :
        /\ r.by \in {"get", "send", "source"} /\ r.host \in DOMAIN Lower
        \* urlAllowList: schemes, each with a port, and hosts
        /\ \A a \in r.allow : DOMAIN a = {"scheme", "host"} /\ a.host \in DOMAIN Lower
    /\ \A s \in Stores : DOMAIN s \subseteq DOMAIN Lower
    /\ Netrcs \subseteq Seq(Seq(STRING))
    /\ Statuses \subseteq 100..599
    /\ MaxRequests \in Nat

VARIABLES
    phase,    \* "load", "request", "netrc", "send", "answered" or "refused"
    store,    \* the credentials file
    todo,     \* hosts of the file that Load has not come to
    hosts,    \* Store.hosts
    request,  \* the request that is made
    netrc,    \* the netrc file
    rest,     \* its lines that are not parsed yet
    parsed,   \* parseNetrc: match, fallback, to which current points, inMacro
    headers,  \* headers of the request as it is made first
    target,   \* the host that was asked last, by it or by a redirect
    strayed,  \* a redirect has led out of the host's domain
    hops      \* requests that were made of it

parsing == <<netrc, rest, parsed>>
asking == <<target, strayed, hops>>
credentialVars == <<phase, store, todo, hosts, request, parsing, headers, asking>>

NoEntry == [there |-> FALSE, login |-> "", password |-> ""]
AnEntry == [NoEntry EXCEPT !.there = TRUE]

CredentialsInit ==
    /\ phase = "load"
    /\ store \in Stores /\ todo = DOMAIN store /\ hosts = <<>>
    /\ request \in Requests
    /\ netrc \in Netrcs /\ rest = netrc
    /\ parsed = [match |-> NoEntry, fallback |-> NoEntry, current |-> "none", inMacro |-> FALSE]
    /\ headers = <<>> /\ target = request.host /\ strayed = FALSE /\ hops = 0

-----------------------------------------------------------------------------
(* Credential.validate; wellFormed are its header, scheme and values.      *)
Valid(c) ==
    /\ (c.token = "") # (c.username = "")
    /\ c.token # "" => c.password = ""
    /\ c.wellFormed

(* Credential.header, basicCreds *)
HeaderOf(c) ==
    LET name == IF c.header = "" THEN "Authorization" ELSE c.header
        scheme == IF c.scheme = "" /\ c.header = "" THEN "Bearer" ELSE c.scheme
    IN  [h \in {name} |->
            IF c.username # "" THEN <<"Basic", c.username, c.password>>
            ELSE IF scheme = "" THEN <<c.token>> ELSE <<scheme, c.token>>]

(* Set replaces the header of a name, so the later one wins. *)
SetAll(f, more) ==
    [h \in DOMAIN f \cup DOMAIN more |-> IF h \in DOMAIN more THEN more[h] ELSE f[h]]

(* A source sets the headers of its configuration last. *)
OwnHeaders == IF request.by = "source" THEN request.headers ELSE <<>>

(* Load ranges over the file in any order, and of two spellings of one     *)
(* host the one that comes last stays.  An error keeps serve from starting *)
(* and a reload from going on.                                             *)
LoadHost ==
    /\ phase = "load"
    /\ \E h \in todo :
        IF Valid(store[h])
        THEN /\ hosts' = SetAll(hosts, [l \in {Lower[h]} |-> store[h]])
             /\ todo' = todo \ {h} /\ UNCHANGED phase
        ELSE phase' = "refused" /\ UNCHANGED <<hosts, todo>>
    /\ UNCHANGED <<store, request, parsing, headers, asking>>

(* parseURLAllowList: a list in which nothing is a URL counts as none.     *)
Allowed ==
    \/ request.by = "source" \/ request.allow = {}
    \/ \E a \in request.allow : a.scheme = request.scheme /\ Lower[a.host] = Lower[request.host]

(* Do makes the first request, with the credential that was found. *)
Ask(credential) ==
    /\ phase' = "send"
    /\ headers' = SetAll(credential, OwnHeaders) /\ hops' = 1
    /\ UNCHANGED <<target, strayed>>

(* urlAllowedByList and Store.Apply *)
Apply ==
    /\ phase = "load" /\ todo = {}
    /\ IF Allowed /\ Lower[request.host] \in DOMAIN hosts
       THEN Ask(HeaderOf(hosts[Lower[request.host]]))
       ELSE phase' = (IF Allowed THEN "netrc" ELSE "refused") /\ UNCHANGED <<headers, asking>>
    /\ UNCHANGED <<store, todo, hosts, request, parsing>>

-----------------------------------------------------------------------------
(* parseNetrc takes the words of a line in pairs; a last word without a    *)
(* partner counts only if it is "default".                                 *)
PairsOf(line) ==
    [i \in 1..(Len(line) \div 2) |-> <<line[2 * i - 1], line[2 * i]>>]
    \o IF Len(line) % 2 = 1 /\ Last(line) = "default" THEN <<<<"default", "">>>> ELSE <<>>

(* Mutant: a macro leaves the entry before it open. *)
WordsMacro(p, pair) ==
    CASE pair[1] = "machine" ->
            IF pair[2] = request.host /\ ~p.match.there
            THEN [p EXCEPT !.match = AnEntry, !.current = "match"]
            ELSE [p EXCEPT !.current = "other"]
      [] pair = <<"default", "">> ->
            [p EXCEPT !.fallback.there = TRUE, !.current = "fallback"]
      [] pair[1] \in {"login", "password"} /\ p.current \in {"match", "fallback"} ->
            [p EXCEPT ![p.current][pair[1]] = pair[2]]
      [] pair[1] = "macdef" -> [p EXCEPT !.inMacro = TRUE]
      [] OTHER -> p

(* The first entry of the host is the match; the default entry, however    *)
(* often it is begun, is one.                                              *)
Words(p, pair) ==
    CASE pair[1] = "machine" ->
            IF pair[2] = request.host /\ ~p.match.there
            THEN [p EXCEPT !.match = AnEntry, !.current = "match"]
            ELSE [p EXCEPT !.current = "other"]
      [] pair = <<"default", "">> ->
            [p EXCEPT !.fallback.there = TRUE, !.current = "fallback"]
      [] pair[1] \in {"login", "password"} /\ p.current \in {"match", "fallback"} ->
            [p EXCEPT ![p.current][pair[1]] = pair[2]]
      [] pair[1] = "macdef" -> [p EXCEPT !.inMacro = TRUE, !.current = "none"]
      [] OTHER -> p

AllWords(p, pairs) ==
    LET read[k \in 0..Len(pairs)] ==
            IF k = 0 THEN p ELSE Words(read[k - 1], pairs[k])
    IN  read[Len(pairs)]

NetrcLine ==
    /\ phase = "netrc" /\ rest # <<>>
    /\ rest' = Tail(rest)
    /\ parsed' = IF parsed.inMacro THEN [parsed EXCEPT !.inMacro = Head(rest) # <<>>]
                 ELSE AllWords(parsed, PairsOf(Head(rest)))
    /\ UNCHANGED <<phase, store, todo, hosts, request, netrc, headers, asking>>

AuthOf(e) ==
    [h \in {"Authorization"} |->
        IF e.login \in {"", "token"} THEN <<"Bearer", e.password>>
        ELSE <<"Basic", e.login, e.password>>]

(* applyNetrcAuth *)
NetrcAuth ==
    /\ phase = "netrc" /\ rest = <<>>
    /\ Ask(IF parsed.match.there THEN AuthOf(parsed.match)
           ELSE IF parsed.fallback.there THEN AuthOf(parsed.fallback) ELSE <<>>)
    /\ UNCHANGED <<store, todo, hosts, request, parsing>>

-----------------------------------------------------------------------------
(* Redirects.  The client of a template's requests follows none.  That of  *)
(* a source has no CheckRedirect: net/http follows nine, with the headers  *)
(* of the first request, of which the sensitive ones stay behind from      *)
(* where a redirect has led out of the domain of the first host.           *)
Sensitive == {"Authorization", "Www-Authenticate", "Cookie", "Cookie2",
              "Proxy-Authorization", "Proxy-Authenticate"}

InDomain(h) == h = request.host \/ h \in Subdomains[request.host]

(* What the request that was made last carries. *)
Carried == IF strayed THEN [h \in DOMAIN headers \ Sensitive |-> headers[h]] ELSE headers

Redirected ==
    /\ phase = "send" /\ request.by = "source" /\ hops < MaxRequests
    /\ target' \in DOMAIN Lower
    /\ strayed' = (strayed \/ ~InDomain(target'))
    /\ hops' = hops + 1
    /\ UNCHANGED <<phase, store, todo, hosts, request, parsing, headers>>

(* A template's get and a source want the status 200, a template's post    *)
(* and put any from 200 to 299; a redirect that is not followed is none.   *)
Succeeds(s) == IF request.by = "send" THEN s \in 200..299 ELSE s = 200

Answered ==
    /\ phase = "send"
    /\ \/ \E s \in Statuses : phase' = IF Succeeds(s) THEN "answered" ELSE "refused"
       \/ phase' = "refused"
    /\ UNCHANGED <<store, todo, hosts, request, parsing, headers, asking>>

CredentialsNext == LoadHost \/ Apply \/ NetrcLine \/ NetrcAuth \/ Redirected \/ Answered

CredentialsSpec == CredentialsInit /\ [][CredentialsNext]_credentialVars

-----------------------------------------------------------------------------
(* What a netrc file says, as a whole: its definitions are the pairs of    *)
(* the lines that belong to no macro, each at its place <<line, pair>>,    *)
(* and an entry has those up to the next entry or macro.                   *)
InMacro(i) ==
    \E j \in 1..(i - 1) :
        /\ \E pair \in ToSet(PairsOf(netrc[j])) : pair[1] = "macdef"
        /\ \A k \in (j + 1)..(i - 1) : netrc[k] # <<>>
Definitions ==
    UNION {{i} \X DOMAIN PairsOf(netrc[i]) : i \in {l \in DOMAIN netrc : ~InMacro(l)}}
Definition(d) == PairsOf(netrc[d[1]])[d[2]]
Before(d, e) == d[1] < e[1] \/ (d[1] = e[1] /\ d[2] < e[2])

Begins(d) == Definition(d)[1] \in {"machine", "macdef"} \/ Definition(d) = <<"default", "">>
FirstIn(ds) == {d \in ds : \A e \in ds : ~Before(e, d)}
LastIn(ds) == {d \in ds : \A e \in ds : ~Before(d, e)}
Machine(ds) == FirstIn({d \in ds : Definition(d) = <<"machine", request.host>>})
Default(ds) == {d \in ds : Definition(d) = <<"default", "">>}

(* d belongs to an entry that begins at one of these. *)
BelongsTo(entries, d, ds) ==
    \E b \in entries : Before(b, d) /\ \A e \in ds : Before(b, e) /\ ~Before(d, e) => ~Begins(e)
Own(entries, key, ds) == {d \in ds : Definition(d)[1] = key /\ BelongsTo(entries, d, ds)}
Final(ds) == CHOOSE d \in ds : d \in LastIn(ds)
Says(entries, key, ds) ==
    IF Own(entries, key, ds) = {} THEN "" ELSE Definition(Final(Own(entries, key, ds)))[2]
EntryOf(entries, ds) ==
    [login |-> Says(entries, "login", ds), password |-> Says(entries, "password", ds)]
NetrcSays ==
    LET entries == IF Machine(Definitions) # {} THEN Machine(Definitions) ELSE Default(Definitions)
    IN  IF entries = {} THEN <<>> ELSE AuthOf(EntryOf(entries, Definitions))

(* The headers that a request for its host has, as a whole.                *)
HostHeaders ==
    LET spelled == {h \in DOMAIN store : Lower[h] = Lower[request.host]}
    IN  IF spelled # {} THEN {SetAll(HeaderOf(store[h]), OwnHeaders) : h \in spelled}
        ELSE {SetAll(NetrcSays, OwnHeaders)}

(* Store.Apply, parseNetrc: the first request carries the credential that  *)
(* the file has for its host, in any spelling; if there is none, what the  *)
(* netrc file has in its first entry for the host or else in its default   *)
(* entry; and the headers that its source sets itself.  A default that has *)
(* its login on its own line is none for this parser.  Only a source's     *)
(* request is sent on, and carries no header but those: never the          *)
(* credential of a host that it is sent on to.  Outside of its domain none *)
(* of the sensitive headers goes along; any other does.                    *)
AuthIsOfHost ==
    phase \in {"send", "answered"} =>
        /\ hops = 1 => target = request.host /\ Carried \in HostHeaders
        /\ hops # 1 => request.by = "source" /\ hops <= MaxRequests
        /\ \E f \in HostHeaders :
            /\ DOMAIN f \ Sensitive \subseteq DOMAIN Carried /\ DOMAIN Carried \subseteq DOMAIN f
            /\ \A h \in DOMAIN Carried : Carried[h] = f[h]
        /\ ~InDomain(target) => DOMAIN Carried \cap Sensitive = {}
=============================================================================
