--------------------------- MODULE ArchiveExtract ---------------------------
(***************************************************************************)
(* HTTPSource.Fetch of internal/project/sources/http.go, from the response *)
(* on: an archive is extracted entry by entry, without the directory that  *)
(* forges wrap archives in; anything else is saved as one file.  What is   *)
(* removed before, and the policy, is in module SourcePipeline.            *)
(* A name is the sequence of its segments and whether a slash ends it.     *)
(***************************************************************************)
EXTENDS Integers, Sequences, SequencesExt

CONSTANT Downloads  \* responses: [extract, looks, gzip, entries, named]

ASSUME DownloadAssumption ==
    \A d \in Downloads :
        /\ d.extract \in {"unset", "yes", "no"}  \* the setting of the source
        /\ d.looks \in BOOLEAN                   \* what detectArchive says
        /\ d.gzip \in BOOLEAN                    \* whether it is an archive
        /\ d.named \in BOOLEAN                   \* the URL does not end in "/?..."
        /\ d.entries \in Seq({d.entries[i] : i \in DOMAIN d.entries})
        /\ \A i \in DOMAIN d.entries :
            LET e == d.entries[i]
            IN  /\ DOMAIN e = {"path", "slash", "type"}
                /\ e.path \in Seq({e.path[k] : k \in DOMAIN e.path})
                /\ e.path # <<>> /\ e.slash \in BOOLEAN
                /\ e.type \in {"dir", "file", "other"}

VARIABLES
    fetch,     \* "response", "extract", "saved", "extracted" or "failed"
    download,  \* the response
    entry,     \* the entry that comes next
    topDir,    \* the name of the wrapper directory, in a sequence, or NoDir
    tree       \* tree[p]: the entry whose content file p holds, or Dir

archiveVars == <<fetch, download, entry, topDir, tree>>

Dir == 0
NoDir == <<>>

(* What strings.TrimPrefix leaves of a name without the directory top; the *)
(* root of an archive is the name of no segments.                          *)
HasSlash(e) == Len(e.path) > 1 \/ e.slash
Stripped(e, top) == IF HasSlash(e) /\ <<e.path[1]>> = top THEN Tail(e.path) ELSE e.path

(* filepath.Join: the place of a name, or Outside of the directory.        *)
Outside == <<"..">>
Down(place, s) ==
    CASE place = Outside \/ s \in {"", "."} -> place
      [] place # Outside /\ s = ".." -> IF place = <<>> THEN Outside ELSE Front(place)
      [] OTHER -> Append(place, s)
Place(path) ==
    LET down[k \in 0..Len(path)] ==
            IF k = 0 THEN <<>> ELSE Down(down[k - 1], path[k])
    IN  down[Len(path)]

ArchiveInit ==
    /\ fetch = "response" /\ download \in Downloads
    /\ entry = 1 /\ topDir = NoDir /\ tree = <<>>

-----------------------------------------------------------------------------
(* Parents of a place, with the place itself. *)
Along(place) == {SubSeq(place, 1, n) : n \in 1..Len(place)}

With(places, what) == [p \in places \cup DOMAIN tree |-> IF p \in places THEN what ELSE tree[p]]

(* MkdirAll *)
CanMake(dirs) == \A p \in dirs \cap DOMAIN tree : tree[p] = Dir

(* saveRawFile: of a URL that ends in a slash and a query nothing is left  *)
(* as the name of the file, and the directory cannot be written to.        *)
Response ==
    /\ fetch = "response"
    /\ LET extract == IF download.extract = "unset" THEN download.looks ELSE download.extract = "yes"
       IN  \/ extract /\ download.gzip /\ fetch' = "extract" /\ UNCHANGED tree
           \/ extract /\ ~download.gzip /\ fetch' = "failed" /\ UNCHANGED tree
           \/ ~extract /\ ~download.named /\ fetch' = "failed" /\ UNCHANGED tree
           \/ /\ ~extract /\ download.named
              /\ fetch' \in {"saved", "failed"} /\ tree' = With({<<"body">>}, 1)
    /\ UNCHANGED <<download, entry, topDir>>

(* Mutant: every entry has its own first directory cut. *)
TopEach(e) == IF HasSlash(e) THEN <<e.path[1]>> ELSE topDir

Wrapper(e) == IF topDir # NoDir \/ ~HasSlash(e) THEN topDir ELSE <<e.path[1]>>

(* One entry.  What is no directory and no file is passed over, and so is  *)
(* what lies outside; a file cannot be where a directory is, nor below a   *)
(* file.                                                                   *)
Entry ==
    /\ fetch = "extract" /\ entry <= Len(download.entries)
    /\ LET e == download.entries[entry]
           rest == Stripped(e, Wrapper(e))
           p == Place(rest)
           dirs == IF e.type = "dir" THEN Along(p) ELSE Along(Front(p))
       IN  /\ topDir' = Wrapper(e)
           /\ entry' = entry + 1
           /\ \/ /\ rest \in {<<>>, <<".">>} \/ p \in {<<>>, Outside} \/ e.type = "other"
                 /\ UNCHANGED <<fetch, tree>>
              \/ /\ p \notin {<<>>, Outside} /\ e.type # "other"
                 /\ IF ~CanMake(dirs) THEN fetch' = "failed" /\ UNCHANGED tree
                    ELSE IF e.type = "dir" THEN tree' = With(dirs, Dir) /\ UNCHANGED fetch
                    ELSE IF p \in DOMAIN tree /\ tree[p] = Dir
                         THEN fetch' = "failed" /\ tree' = With(dirs, Dir)
                    ELSE \* io.Copy, which may break off
                         /\ fetch' \in {"extract", "failed"}
                         /\ tree' = [With(dirs \cup {p}, Dir) EXCEPT ![p] = entry]
    /\ UNCHANGED download

(* tr.Next: the end of the archive, or of what came of it. *)
EndOfArchive ==
    /\ fetch = "extract"
    /\ \/ entry > Len(download.entries) /\ fetch' = "extracted"
       \/ fetch' = "failed"
    /\ UNCHANGED <<download, entry, topDir, tree>>

ArchiveNext == Response \/ Entry \/ EndOfArchive

ArchiveSpec == ArchiveInit /\ [][ArchiveNext]_archiveVars

-----------------------------------------------------------------------------
Extracted == {p \in DOMAIN tree : tree[p] # Dir}
Packed == {i \in DOMAIN download.entries : download.entries[i].type = "file"}
Path(i) == download.entries[i].path

Named(i) == Place(Path(i))
Below(i) == Place(Tail(Path(i)))

(* Every entry is in one directory, or has none and is no file. *)
WrappedIn(dir) ==
    \A i \in DOMAIN download.entries :
        LET e == download.entries[i]
        IN  IF HasSlash(e) THEN e.path[1] = dir ELSE e.type = "other"

(* extractTarGz: an archive that was extracted without an error is there   *)
(* as a whole.  If one directory wraps it, each file is where its name     *)
(* says without that directory, and nothing else is.  If none does, each   *)
(* file has its own place or that without the first directory, and gave it *)
(* up only to a later entry that has the same name, or has it when the     *)
(* first directory of one of them is cut.  What has no name within the     *)
(* directory is no file of it.                                             *)
ArchiveIsKept ==
    fetch = "extracted" =>
        /\ \A dir \in {Path(i)[1] : i \in DOMAIN download.entries} :
            LET Kept == {i \in Packed : Below(i) \notin {<<>>, Outside}}
            IN  WrappedIn(dir) =>
                    /\ Extracted = {Below(i) : i \in Kept}
                    /\ \A i \in Kept : tree[Below(i)] >= i /\ Below(tree[Below(i)]) = Below(i)
        /\ \A i \in Packed :
            /\ Outside \notin {Named(i), Below(i)} /\ Named(i) # <<>>
            /\ HasSlash(download.entries[i]) => Below(i) # <<>>
            => \E p \in {Named(i), Below(i)} \cap Extracted :
                LET j == tree[p] IN j >= i /\ (Named(i) \in {Named(j), Below(j)} \/ Below(i) = Named(j))
=============================================================================
