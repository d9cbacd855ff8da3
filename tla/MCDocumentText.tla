--------------------------- MODULE MCDocumentText ---------------------------
(***************************************************************************)
(* Files for TLC: plain texts of every length up to MaxLength, PDFs, DOCX  *)
(* files, EPUBs of one document with every legal run of HTML tokens, EPUBs *)
(* of two documents with every small package file, and with every path of  *)
(* a few components in an item.                                            *)
(***************************************************************************)
EXTENDS DocumentText

CONSTANTS
    MaxTokens,      \* bound: tokens of a content document
    MaxEntries,     \* bound: elements of a package file
    MaxPath         \* bound: components of an href

SeqsUpTo(S, n) == UNION {[1 .. k -> S] : k \in 0 .. n}

TextToken(r) == [kind |-> "text", tag |-> "", rune |-> r]
TagToken(k, t) == [kind |-> k, tag |-> t, rune |-> NewLine]
FailToken == TagToken("fail", "")
NumberedWords(n, first) == [i \in 1 .. n |-> TextToken(first + i)]

File(mime, body, zip) == [mime |-> mime, body |-> body, zip |-> zip]
NoZip == <<>>

PlainFiles == {File("text", NumberedWords(n, 0), NoZip) : n \in 0 .. MaxLength}
PdfFiles == {File("pdf", body, NoZip) :
    body \in {<<>>, NumberedWords(7, 0), <<TextToken(1), FailToken>>}}
OtherFiles == {File("other", <<>>, NoZip), File("other", <<>>, <<"plain.txt">> :> <<>>)}

\* Word documents.
Numbered(tokens) ==
    [i \in DOMAIN tokens |->
        IF tokens[i].kind = "text" /\ tokens[i].rune # Raw THEN TextToken(i) ELSE tokens[i]]
DocxTokens == {TextToken(1), TagToken("end", "p"), TagToken("end", "t"), FailToken}
DocxFiles ==
    {File("docx", <<>>, <<"styles.xml">> :> <<>>)}
    \cup {File("docx", <<>>, DocumentXML :> Numbered(s)) : s \in SeqsUpTo(DocxTokens, 4)}

\* HTML as the tokenizer returns it (external): after a start or self-closed
\* tag of a raw text element, all up to its end tag is one text token.
HtmlTokens ==
    {TextToken(1), TextToken(Raw), TagToken("start", "em"), TagToken("start", "title"),
     TagToken("self", "title"), FailToken}
    \cup {TagToken(k, t) : k \in {"start", "end", "self"}, t \in {"script", "p"}}
LegalHtml(s) ==
    \A i \in DOMAIN s :
        /\ s[i] = TextToken(Raw) => i > 1 /\ OpensRawText(s[i - 1])
        /\ i < Len(s) /\ OpensRawText(s[i]) =>
               s[i + 1] \in {TextToken(Raw), TagToken("end", s[i].tag), FailToken}
        /\ i < Len(s) /\ s[i] = TextToken(Raw) =>
               s[i + 1] \in {TagToken("end", s[i - 1].tag), FailToken}
        /\ s[i].kind = "fail" => i = Len(s)
OneTokenMore(docs) ==
    docs \cup {d \in {Append(s, t) : s \in docs, t \in HtmlTokens} : LegalHtml(d)}
HtmlDocs ==
    {Numbered(s) : s \in FoldLeft(LAMBDA docs, k : OneTokenMore(docs), {<<>>},
                                 [k \in 1 .. MaxTokens |-> k])}

\* EPUB packages.
OpfPath == <<"OEBPS", "content.opf">>
RootFile(p) == [kind |-> "rootfile", path |-> p]
Item(id, href) == [kind |-> "item", id |-> id, href |-> href]
ItemRef(id) == [kind |-> "itemref", id |-> id]
Without(kind) == [kind |-> kind]
GoodContainer == <<RootFile(OpfPath)>>
Containers ==
    {<<>>, <<FailToken>>, <<Without("rootfile"), RootFile(OpfPath)>>,
     <<RootFile(<<>>), RootFile(OpfPath)>>, <<RootFile(<<"other.opf">>)>>,
     <<FailToken, RootFile(OpfPath)>>, <<RootFile(OpfPath), FailToken>>}
Book(container, opf, docs) ==
    File("other", <<>>, (Container :> container) @@ (OpfPath :> opf) @@ docs)
OneDocument == <<Item("a", <<"a">>), ItemRef("a")>>
OneDocumentBooks ==
    {Book(GoodContainer, OneDocument, <<"OEBPS", "a">> :> html) : html \in HtmlDocs}

\* Two readable documents, one beside the package file and one above it.
TwoDocuments ==
    (<<"OEBPS", "a">> :> <<TagToken("end", "p"), TextToken(1), TextToken(2)>>)
    @@ (<<"b">> :> <<TagToken("start", "style"), TextToken(Raw), TagToken("end", "style"),
                     TextToken(11)>>)
OpfElements ==
    {Item("a", <<"a">>), Item("b", <<"..", "b">>), Item("b", <<"b">>),
     Item("", <<"a">>), Item("b", <<>>),
     ItemRef("a"), ItemRef("b"), ItemRef(""), Without("itemref"), FailToken}
PackageBooks ==
    {Book(GoodContainer, opf, TwoDocuments) : opf \in SeqsUpTo(OpfElements, MaxEntries)}
    \cup {Book(c, OneDocument, TwoDocuments) : c \in Containers}

\* One entry, led anywhere; "%62" is an escape of "b".
Steps == {"a", "b", "OEBPS", "/", ".", "..", "%62"}
Hrefs == SeqsUpTo(Steps, MaxPath) \ {<<"/">>}
PathBooks ==
    {Book(GoodContainer, <<Item("a", href), ItemRef("a")>>, TwoDocuments) : href \in Hrefs}

Components == Steps \cup {"content.opf", "other.opf"}
Decoded(c) == IF c = "%62" THEN "b" ELSE c

AllFiles ==
    PlainFiles \cup PdfFiles \cup OtherFiles \cup DocxFiles \cup OneDocumentBooks \cup PackageBooks
    \cup PathBooks
=============================================================================
