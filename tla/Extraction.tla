----------------------------- MODULE Extraction -----------------------------
(***************************************************************************)
(* Extract (backend/internal/ingest/extract.go, extract_epub.go): from the *)
(* bytes of a file to plain text.                                          *)
(*                                                                         *)
(* A text is a sequence of runes, here NewLine for any white space, Raw    *)
(* for code or tags, and a positive number for a word of the document.     *)
(* What the decoders return is a sequence of tokens; a "fail" token is the *)
(* error that ends it.  A path is the sequence of its components, and <<>> *)
(* if it is empty; "/" stands for the empty component that a slash makes   *)
(* at the beginning or the end of a path, or two of them within one.       *)
(***************************************************************************)
EXTENDS Integers, SequencesExt, FiniteSetsExt

NewLine == 0
Raw == -1

\* The outcome of an extraction.
Text(t) == [err |-> FALSE, supported |-> TRUE, text |-> t]
UnsupportedFormat == [err |-> FALSE, supported |-> FALSE, text |-> <<>>]
Error == [err |-> TRUE, supported |-> FALSE, text |-> <<>>]

Fails(tokens) == \E i \in DOMAIN tokens : tokens[i].kind = "fail"

\* strings.TrimSpace
Trim(t) ==
    LET ink == {i \in DOMAIN t : t[i] # NewLine}
    IN  IF ink = {} THEN <<>> ELSE SubSeq(t, Min(ink), Max(ink))

(***************************************************************************)
(* DOCX.                                                                   *)
(***************************************************************************)
\* One token of docxXMLText: all character data, a line break after </p>.
ApplyDocxToken(t, token) ==
    CASE token.kind = "text" -> Append(t, token.rune)
      [] token.kind = "end" /\ token.tag = "p" -> Append(t, NewLine)
      [] OTHER -> t

DocxXMLText(tokens) ==
    IF Fails(tokens) THEN Error ELSE Text(FoldLeft(ApplyDocxToken, <<>>, tokens))

DocumentXML == <<"word", "document.xml">>

ExtractDocx(zip) ==
    IF DocumentXML \in DOMAIN zip THEN DocxXMLText(zip[DocumentXML]) ELSE Error

(***************************************************************************)
(* EPUB: one content document.                                             *)
(***************************************************************************)
SkippedTags == {"script", "style"}
BlockBreakTags ==
    {"p", "div", "br", "li", "tr", "h1", "h2", "h3", "h4", "h5", "h6"}

\* Mutant: an end tag is counted whether or not a start tag came before it.
NewDepthUnguarded(kind, depth) ==
    CASE kind = "start" -> depth + 1
      [] kind = "end" -> depth - 1
      [] OTHER -> depth

\* Mutant: script and style are tags like any other.
NewDepthIgnored(kind, depth) == depth

\* skipDepth after a script or style tag.
NewDepth(kind, depth) ==
    CASE kind = "start" -> depth + 1
      [] kind = "end" /\ depth > 0 -> depth - 1
      [] OTHER -> depth

\* Mutant: only the start of a block breaks the line.
ApplyTokenBreakAtStart(state, token) ==
    CASE token.kind = "text" /\ state.skipDepth = 0 ->
            [state EXCEPT !.text = Append(@, token.rune)]
      [] token.kind = "start" /\ token.tag \in BlockBreakTags ->
            [state EXCEPT !.text = Append(@, NewLine)]
      [] token.kind # "text" /\ token.tag \in SkippedTags ->
            [state EXCEPT !.skipDepth = NewDepth(token.kind, @)]
      [] OTHER -> state

\* One round of the loop of epubDocText, with epubApplyTag.
ApplyToken(state, token) ==
    CASE token.kind = "text" /\ state.skipDepth = 0 ->
            [state EXCEPT !.text = Append(@, token.rune)]
      [] token.kind # "text" /\ token.tag \in BlockBreakTags ->
            [state EXCEPT !.text = Append(@, NewLine)]
      [] token.kind # "text" /\ token.tag \in SkippedTags ->
            [state EXCEPT !.skipDepth = NewDepth(token.kind, @)]
      [] OTHER -> state

\* The state after each round.
DocRounds(tokens) ==
    LET after[n \in 0 .. Len(tokens)] ==
            IF n = 0 THEN [skipDepth |-> 0, text |-> <<>>]
            ELSE ApplyToken(after[n - 1], tokens[n])
    IN  after

EpubDocText(tokens) ==
    IF Fails(tokens) THEN Error ELSE Text(DocRounds(tokens)[Len(tokens)].text)

(***************************************************************************)
(* EPUB: the package.                                                      *)
(***************************************************************************)
Container == <<"META-INF", "container.xml">>

\* epubOPFPath: the full-path of the first rootfile that has one, empty or not,
\* if it comes before a parse error.
RootFiles(tokens) ==
    {i \in DOMAIN tokens :
        /\ tokens[i].kind = "rootfile" /\ "path" \in DOMAIN tokens[i]
        /\ \A j \in 1 .. i : tokens[j].kind # "fail"}

\* epubReadOPF: the hrefs of the items that have an id and an href, neither of
\* them empty, the last one of an ID winning, and the elements of the spine, which
\* have an idref, empty or not.
Items(opf) ==
    {i \in DOMAIN opf : opf[i].kind = "item" /\ opf[i].id # "" /\ opf[i].href # <<>>}

Manifest(opf) ==
    [id \in {opf[i].id : i \in Items(opf)} |->
        opf[Max({i \in Items(opf) : opf[i].id = id})].href]

InSpine(element) == element.kind = "itemref" /\ "id" \in DOMAIN element

\* One component of a path, as path.Clean takes it after the path p: ".." undoes
\* a name, and stays at the root of an absolute path.
Enter(p, c) ==
    CASE c \in {"/", "."} \/ (c = ".." /\ p = <<"/">>) -> p
      [] c = ".." /\ p # <<>> /\ Last(p) \notin {"/", ".."} -> Front(p)
      [] OTHER -> Append(p, c)

\* Mutant: directory and href are put together with a slash.
ResolveUnclean(file, href) == Front(file) \o href

\* path.Join of the directory of a file and an href, cleaned from the left.
Resolve(file, href) ==
    LET path == Front(file) \o href
        after[n \in 0 .. Len(path)] ==
            IF n = 0 THEN IF Len(file) > 1 /\ file[1] = "/" THEN <<"/">> ELSE <<>>
            ELSE Enter(after[n - 1], path[n])
    IN  after[Len(path)]

\* Where an entry of the spine leads, and whether a document is there: entries
\* that are not in the manifest or not in the zip are skipped.
DocPath(zip, opfPath, entry) == Resolve(opfPath, Manifest(zip[opfPath])[entry.id])

Leads(zip, opfPath, entry) ==
    /\ InSpine(entry)
    /\ entry.id \in DOMAIN Manifest(zip[opfPath])
    /\ DocPath(zip, opfPath, entry) \in DOMAIN zip

Chapter(zip, opfPath, entry) == EpubDocText(zip[DocPath(zip, opfPath, entry)])

\* A chapter's text is trimmed, and set off by an empty line unless empty.
AddChapter(t, chapter) ==
    IF Trim(chapter.text) = <<>> THEN t ELSE t \o Trim(chapter.text) \o <<NewLine, NewLine>>

\* The loop over the spine: the text after each element of the package file.
BookRounds(zip, opfPath) ==
    LET opf == zip[opfPath]
        after[n \in 0 .. Len(opf)] ==
            IF n = 0 THEN <<>>
            ELSE IF Leads(zip, opfPath, opf[n])
                 THEN AddChapter(after[n - 1], Chapter(zip, opfPath, opf[n]))
                 ELSE after[n - 1]
    IN  after

ExtractEpubFiles(zip) ==
    LET container == zip[Container]
        opfPath == container[Min(RootFiles(container))].path
        opf == zip[opfPath]
    IN  IF \/ RootFiles(container) = {}
           \/ opfPath \notin DOMAIN zip
           \/ Fails(opf)
           \/ \A i \in DOMAIN opf : ~InSpine(opf[i])
           \/ \E i \in DOMAIN opf : Leads(zip, opfPath, opf[i]) /\ Chapter(zip, opfPath, opf[i]).err
        THEN Error
        ELSE Text(BookRounds(zip, opfPath)[Len(opf)])

(***************************************************************************)
(* The routing.                                                            *)
(***************************************************************************)
\* A file: the MIME type detected, its characters (for a PDF its text layer,
\* as the PDF library returns it), and its zip entries, none if it is no zip.
PlainText(tokens) == Text([i \in DOMAIN tokens |-> tokens[i].rune])

Extract(file) ==
    CASE file.mime = "text" -> PlainText(file.body)
      [] file.mime = "pdf" -> IF Fails(file.body) THEN Error ELSE PlainText(file.body)
      [] file.mime = "docx" -> ExtractDocx(file.zip)
      [] OTHER -> IF Container \in DOMAIN file.zip
                  THEN ExtractEpubFiles(file.zip)
                  ELSE UnsupportedFormat
=============================================================================
