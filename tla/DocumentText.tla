---------------------------- MODULE DocumentText ----------------------------
(***************************************************************************)
(* From a file to its chunks: FetchAndExtract reads the text of a file and *)
(* IngestDocumentWorkflow hands it to ChunkText.                           *)
(***************************************************************************)
EXTENDS Chunking, Extraction

CONSTANTS
    Files,          \* the files that may be read
    Component,      \* the components of paths
    Unescape(_)     \* what a component means with its "%" escapes decoded

\* The HTML tokenizer (external) takes what follows a tag of these elements,
\* self-closed or not, for text up to the end tag, tags and all.
RawTextTags ==
    {"iframe", "noembed", "noframes", "noscript", "plaintext", "script", "style",
     "textarea", "title", "xmp"}
OpensRawText(token) == token.kind \in {"start", "self"} /\ token.tag \in RawTextTags

\* What a decoder returns for an entry of the zip: code or tags are text only
\* right after a tag that makes them so, and the attributes with paths are paths.
IsTokenized(tokens) ==
    /\ tokens \in Seq(Range(tokens))
    /\ \A i \in DOMAIN tokens : tokens[i].kind = "text" =>
           /\ tokens[i].rune \in Int
           /\ tokens[i].rune = Raw => i > 1 /\ OpensRawText(tokens[i - 1])
    /\ \A i \in DOMAIN tokens : tokens[i].kind = "item" => tokens[i].href \in Seq(Component)
    /\ \A i \in RootFiles(tokens) : tokens[i].path \in Seq(Component)

IsEpub(f) == f.mime = "other" /\ Container \in DOMAIN f.zip

ASSUME FilesAreTokenized ==
    \A f \in Files : IsEpub(f) => \A p \in DOMAIN f.zip : IsTokenized(f.zip[p])

VARIABLE file       \* the file
docVars == <<file, vars>>

DocInit ==
    /\ file \in Files
    /\ length = Len(Trim(Extract(file).text))
    /\ Init

DocNext == Next /\ UNCHANGED file

DocSpec == DocInit /\ [][DocNext]_docVars

(***************************************************************************)
(* What a reader of the file sees, told without the extractor's state.     *)
(***************************************************************************)
\* The words of a text: its positive runes, in order.
Words(t) ==
    LET upTo[n \in 0 .. Len(t)] ==
            IF n = 0 THEN <<>>
            ELSE IF t[n] > 0 THEN Append(upTo[n - 1], t[n]) ELSE upTo[n - 1]
    IN  upTo[Len(t)]

\* A text token is hidden if some stretch of tokens right before it has more
\* script or style elements opened than closed.
TagsIn(tokens, kind, i, j) ==
    Cardinality({k \in i .. j : tokens[k].kind = kind /\ tokens[k].tag \in SkippedTags})

Hidden(tokens, i) ==
    \E j \in 1 .. i : TagsIn(tokens, "start", j, i) > TagsIn(tokens, "end", j, i)

Visible(tokens) == {i \in DOMAIN tokens : tokens[i].kind = "text" /\ ~Hidden(tokens, i)}

VisibleWords(tokens) ==
    Words([i \in 1 .. Len(tokens) |->
              IF i \in Visible(tokens) THEN tokens[i].rune ELSE NewLine])

\* The path an href stands for: its escapes decoded, from the root of the archive
\* if it starts with a slash, else from the directory of the package file.
OpfOf(f) == f.zip[Container][Min(RootFiles(f.zip[Container]))].path

PathMeant(f, href) ==
    LET names == [k \in 1 .. Len(href) |-> Unescape(href[k])]
    IN  IF href[1] = "/" THEN names ELSE Front(OpfOf(f)) \o names

\* Where a path leads: each name goes down a level and each ".." up one, and at
\* each level of the place reached stands the name that last entered it.
IsName(c) == c \notin {"/", ".", ".."}

Level(path, n) ==
    Cardinality({k \in 1 .. n : IsName(path[k])}) - Cardinality({k \in 1 .. n : path[k] = ".."})

Entering(path, n, l) == {k \in 1 .. n : IsName(path[k]) /\ Level(path, k) = l}

Place(path) ==
    [l \in 1 .. Level(path, Len(path)) |-> path[Max(Entering(path, Len(path), l))]]

\* The content documents of an EPUB in reading order: an entry of the spine leads
\* to one if the last item of its ID does.
TargetOf(f, id) ==
    LET opf == f.zip[OpfOf(f)]
        items == {i \in DOMAIN opf :
                    opf[i].kind = "item" /\ opf[i].id = id /\ id # "" /\ opf[i].href # <<>>}
    IN  {Place(PathMeant(f, opf[i].href)) : i \in {i \in items : \A j \in items : j <= i}}
            \cap DOMAIN f.zip

ReadableWords(f) ==
    LET opf == f.zip[OpfOf(f)]
        readable == {i \in DOMAIN opf :
                        /\ opf[i].kind = "itemref" /\ "id" \in DOMAIN opf[i]
                        /\ TargetOf(f, opf[i].id) # {}}
        upTo[n \in 0 .. Len(opf)] ==
            IF n = 0 THEN <<>>
            ELSE IF n \in readable
                 THEN upTo[n - 1] \o
                      VisibleWords(f.zip[CHOOSE p \in TargetOf(f, opf[n].id) : TRUE])
                 ELSE upTo[n - 1]
    IN  upTo[Len(opf)]

(***************************************************************************)
(* Properties.                                                             *)
(***************************************************************************)
\* The extractor takes an href as it is written.  It misses the document of an
\* href with an escape or a leading slash, and one that leaves the archive on its
\* way; the property below leaves such packages out.
PlainHrefs(f) ==
    /\ OpfOf(f) # <<>> /\ OpfOf(f)[1] # "/"
    /\ \A i \in DOMAIN f.zip[OpfOf(f)] :
        LET href == f.zip[OpfOf(f)][i].href
            path == PathMeant(f, href)
        IN  f.zip[OpfOf(f)][i].kind = "item" /\ href # <<>> =>
                /\ href[1] # "/"
                /\ \A k \in DOMAIN href : Unescape(href[k]) = href[k]
                /\ \A n \in DOMAIN path : Level(path, n) >= 0

\* The index holds what a reader of the book sees, in the order of the spine:
\* each readable document once per entry, no visible word lost or repeated,
\* whatever stray script or style tags surround it, however the hrefs wind
\* through the archive, and whichever entries lead nowhere.
EpubWordsInReadingOrder ==
    IsEpub(file) /\ ~Extract(file).err /\ PlainHrefs(file) =>
        Words(Extract(file).text) = ReadableWords(file)

\* "strips HTML markup ... Content inside <script>/<style> is dropped
\* entirely": code or tags reach the text only where the tokenizer took them
\* for text and epubApplyTag counted no start tag before them: after a
\* self-closed tag such as <script/>, or in an element like <title>.
OnlyRawTextLeaksMarkup ==
    IsEpub(file) /\ Raw \in Range(Extract(file).text) =>
        \E p \in DOMAIN file.zip : \E i \in 1 .. Len(file.zip[p]) - 1 :
            LET tag == file.zip[p][i]
                next == file.zip[p][i + 1]
            IN  /\ OpensRawText(tag)
                /\ tag.kind = "self" \/ tag.tag \notin SkippedTags
                /\ next.kind = "text" /\ next.rune = Raw

\* "so words from adjacent block elements don't run together": two words with
\* nothing between them in the text come from one document and have no tag of
\* BlockBreakTags between them.
BlocksSeparateWords ==
    LET t == Extract(file).text
    IN  IsEpub(file) =>
        \A k \in 1 .. Len(t) - 1 : t[k] > 0 /\ t[k + 1] > 0 =>
            \E p \in DOMAIN file.zip : \E i, j \in DOMAIN file.zip[p] :
                /\ i < j
                /\ file.zip[p][i].kind = "text" /\ file.zip[p][i].rune = t[k]
                /\ file.zip[p][j].kind = "text" /\ file.zip[p][j].rune = t[k + 1]
                /\ \A m \in i .. j : file.zip[p][m].kind = "text"
                                    \/ file.zip[p][m].tag \notin BlockBreakTags
=============================================================================
