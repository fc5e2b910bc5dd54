--------------------------- MODULE MarkdownChunks ---------------------------
(***************************************************************************)
(* chunkMarkdown of internal/search/chunk.go: a document is cut at its     *)
(* headings into the chunks that the index holds, each with the path of    *)
(* headings above it.  Lines end in a newline; one is its kind and what it *)
(* says:                                                                   *)
(*   "heading"  # signs, a space and a title, which may be empty           *)
(*   "text"     anything else that is not blank                            *)
(*   "blank"    nothing but spaces                                         *)
(*   "sep"      ---, which opens and closes front matter                   *)
(*   "rule"     --- with more behind it, which as a line is behind         *)
(*   "long"     a line that does not fit in the buffer of bufio.Scanner    *)
(***************************************************************************)
EXTENDS Integers, Sequences, FiniteSets, FiniteSetsExt, SequencesExt

CONSTANTS
    Docs,       \* documents, sequences of lines
    Source      \* the path of the document

Levels == 1..6
Kinds == {"heading", "text", "blank", "sep", "rule", "long"}

IsLine(l) ==
    /\ l.kind \in Kinds
    /\ l.kind = "heading" => l.level \in Levels
    /\ l.kind = "blank" <=> l.kind # "heading" /\ l.text = ""

ASSUME ChunkAssumption ==
    /\ Source # ""
    /\ \A d \in Docs :
        /\ d \in Seq({d[i] : i \in DOMAIN d})
        /\ \A i \in DOMAIN d : IsLine(d[i]) /\ (d[i].kind = "rule" => IsLine(d[i].behind))

VARIABLES
    status,     \* "read" while lines are scanned, then "done"
    doc,        \* the lines behind the front matter
    line,       \* the line the scanner is at
    headings,   \* the title of the last heading of each level, or ""
    title,      \* currentTitle
    body,       \* what the lines since the last heading say
    chunks      \* the chunks so far

chunkVars == <<status, doc, line, headings, title, body, chunks>>

(* stripFrontmatter.  The closing line is the next one if it starts with   *)
(* ---, or else the first that is just that, or else the first that starts *)
(* with it; what stands behind the --- stays, as a line of its own.  One   *)
(* blank line goes too.                                                    *)
Close(rest) ==
    LET of(kinds) == {k \in DOMAIN rest : rest[k].kind \in kinds}
    IN  IF 1 \in of({"sep", "rule"}) THEN {1}
        ELSE IF of({"sep"}) # {} THEN {Min(of({"sep"}))}
        ELSE IF of({"rule"}) # {} THEN {Min(of({"rule"}))} ELSE {}

After(rest, k) ==
    LET more == SubSeq(rest, k + 1, Len(rest))
    IN  IF rest[k].kind = "rule" THEN <<rest[k].behind>> \o more
        ELSE IF more # <<>> /\ Head(more).kind = "blank" THEN Tail(more) ELSE more

Strip(lines) ==
    IF lines = <<>> \/ Head(lines).kind # "sep" \/ Close(Tail(lines)) = {} THEN lines
    ELSE After(Tail(lines), CHOOSE k \in Close(Tail(lines)) : TRUE)

(* strings.TrimSpace *)
Trim(texts) ==
    LET said == {i \in DOMAIN texts : texts[i] # ""}
    IN  IF said = {} THEN <<>> ELSE SubSeq(texts, Min(said), Max(said))

Section(path) == SelectSeq(path, LAMBDA t : t # "")

Flush ==
    IF Trim(body) = <<>> /\ title = "" THEN chunks
    ELSE Append(chunks, [section |-> Section(headings), body |-> Trim(body),
                         title |-> IF title = "" THEN Source ELSE title])

ChunkInit ==
    /\ status = "read"
    /\ \E d \in Docs : doc = Strip(d)
    /\ line = 1
    /\ headings = [l \in Levels |-> ""]
    /\ title = "" /\ body = <<>> /\ chunks = <<>>

(* The scanner stops at the end of the document, or at a line that is too  *)
(* long, of which it says nothing: the rest is not read.                   *)
AtEnd == IF line > Len(doc) THEN TRUE ELSE doc[line].kind = "long"

AtLine == status = "read" /\ ~AtEnd

(* Mutants: the headings below the new one stay; the last lines are not    *)
(* flushed.                                                                *)
HeadingKept ==
    /\ AtLine /\ doc[line].kind = "heading"
    /\ chunks' = Flush
    /\ body' = <<>> /\ title' = doc[line].text
    /\ headings' = [headings EXCEPT ![doc[line].level] = doc[line].text]
    /\ line' = line + 1
    /\ UNCHANGED <<status, doc>>

Heading ==
    /\ AtLine /\ doc[line].kind = "heading"
    /\ chunks' = Flush
    /\ body' = <<>> /\ title' = doc[line].text
    /\ headings' = [l \in Levels |->
         IF l < doc[line].level THEN headings[l]
         ELSE IF l = doc[line].level THEN doc[line].text ELSE ""]
    /\ line' = line + 1
    /\ UNCHANGED <<status, doc>>

(* A line is written behind the others; blank ones at the start are not.   *)
Text ==
    /\ AtLine /\ doc[line].kind # "heading"
    /\ body' = IF body = <<>> /\ doc[line].text = "" THEN body ELSE Append(body, doc[line].text)
    /\ line' = line + 1
    /\ UNCHANGED <<status, doc, headings, title, chunks>>

End ==
    /\ status = "read" /\ AtEnd
    /\ chunks' = Flush
    /\ status' = "done"
    /\ UNCHANGED <<doc, line, headings, title, body>>

ChunkNext == Heading \/ Text \/ End

ChunkSpec == ChunkInit /\ [][ChunkNext]_chunkVars

-----------------------------------------------------------------------------
(* What a chunk's section must be: the headings that the heading at h is   *)
(* under, each the last of its level with none of a lower level behind it. *)
Heads == {h \in DOMAIN doc : doc[h].kind = "heading"}

PathTo(h) ==
    LET above(l) == {g \in Heads : g <= h /\ doc[g].level <= l}
    IN  Section([l \in Levels |->
            IF above(l) # {} /\ doc[Max(above(l))].level = l
            THEN doc[Max(above(l))].text ELSE ""])

(* Where the scanner stops, and what a chunk has for the heading at h, or   *)
(* for what stands before the first heading when h is 0.                   *)
ScanEnd == Min({i \in DOMAIN doc : doc[i].kind = "long"} \cup {Len(doc) + 1})
HeadTitle(h) == IF h = 0 THEN "" ELSE doc[h].text
Said(h) ==
    LET next == Min({g \in Heads : g > h /\ g < ScanEnd} \cup {ScanEnd})
    IN  Trim([i \in 1..(next - h - 1) |-> doc[h + i].text])
ChunkOf(h) ==
    [section |-> PathTo(h), body |-> Said(h),
     title |-> IF HeadTitle(h) = "" THEN Source ELSE HeadTitle(h)]
Kept == {h \in {0} \cup {g \in Heads : g < ScanEnd} : Said(h) # <<>> \/ HeadTitle(h) # ""}

(* chunkMarkdown: there is a chunk for what stands before the first heading *)
(* and one for each heading, with the lines up to the next, unless both     *)
(* are empty; they are in the order of the document.                        *)
ChunksAreSections ==
    status = "done" =>
        /\ Len(chunks) = Cardinality(Kept)
        /\ \A h \in Kept : chunks[Cardinality({g \in Kept : g <= h})] = ChunkOf(h)
=============================================================================
