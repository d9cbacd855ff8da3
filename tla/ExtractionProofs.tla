-------------------------- MODULE ExtractionProofs --------------------------
(***************************************************************************)
(* Proofs about the text of an EPUB, for every package and every content   *)
(* document.                                                               *)
(*                                                                         *)
(* The loops are recursive functions of the number of rounds, so every     *)
(* proof is an induction over the rounds (Climb): the text after a round   *)
(* is described in terms of the tokens read so far.                        *)
(***************************************************************************)
EXTENDS DocumentText, FiniteSetTheorems, SequenceTheorems, TLAPS

(***************************************************************************)
(* Induction and recursion over the rounds of a loop.                      *)
(***************************************************************************)
\* What holds of 0 and passes from each round to the next holds of all.
LEMMA Climb ==
    ASSUME NEW n \in Nat, NEW S,
           0 \in S,
           \A m \in 0 .. n - 1 : m \in S => m + 1 \in S
    PROVE  \A m \in 0 .. n : m \in S
<1> DEFINE T == (0 .. n) \ S
           R == {p \in Nat \X Nat : p[1] < p[2]}
<1>1. SUFFICES ASSUME T # {} PROVE FALSE
    OBVIOUS
<1>2. R = OpToRel(<, Nat)
    BY DEF OpToRel
<1>3. T \subseteq Nat
    OBVIOUS
<1>4. \E x \in T : \A y \in T : ~(<<y, x>> \in R)
    <2> HIDE DEF T, R
    <2>1. QED
        BY <1>1, <1>2, <1>3, NatLessThanWellFounded, WFMin
<1>5. PICK x \in T : \A y \in T : ~(<<y, x>> \in R)
    BY <1>4
<1>6. x \in 1 .. n /\ x - 1 \in 0 .. n - 1
    OBVIOUS
<1>7. x - 1 \in T
    BY <1>6
<1>8. <<x - 1, x>> \in R
    BY <1>6
<1>9. QED
    BY <1>5, <1>7, <1>8

\* g[m] is the state after m rounds of a loop that starts from b and whose
\* round m takes a state s to f[m][s].
IsRun(g, n, b, f) == g[0] = b /\ \A m \in 1 .. n : g[m] = f[m][g[m - 1]]

\* Such a loop has a state after each round.
LEMMA LoopRuns ==
    ASSUME NEW n \in Nat, NEW S, NEW b \in S, NEW f \in [1 .. n -> [S -> S]]
    PROVE  \E g \in [0 .. n -> S] : IsRun(g, n, b, f)
<1> DEFINE T == {k \in 0 .. n : \E g \in [0 .. k -> S] : IsRun(g, k, b, f)}
<1>1. 0 \in T
    <2> DEFINE h == [m \in 0 .. 0 |-> b]
    <2>1. h \in [0 .. 0 -> S] /\ h[0] = b
        OBVIOUS
    <2>2. IsRun(h, 0, b, f)
        BY <2>1 DEF IsRun
    <2> HIDE DEF h
    <2>3. QED
        BY <2>1, <2>2
<1>2. ASSUME NEW k \in 0 .. n - 1, k \in T PROVE k + 1 \in T
    <2>1. PICK g \in [0 .. k -> S] : IsRun(g, k, b, f)
        BY <1>2
    <2> DEFINE next == f[k + 1][g[k]]
               h == [m \in 0 .. k + 1 |-> IF m = k + 1 THEN next ELSE g[m]]
    <2>2. next \in S
        <3>1. g[k] \in S /\ k + 1 \in 1 .. n
            OBVIOUS
        <3>2. QED
            BY <3>1
    <2> HIDE DEF next
    <2>3. h \in [0 .. k + 1 -> S] /\ h[k + 1] = next /\ \A m \in 0 .. k : h[m] = g[m]
        BY <2>2
    <2> HIDE DEF h
    <2>4. ASSUME NEW m \in 1 .. k + 1 PROVE h[m] = f[m][h[m - 1]]
        <3>1. CASE m = k + 1
            <4>1. h[m - 1] = g[k] /\ h[m] = next
                BY <2>3, <3>1
            <4>2. QED
                BY <3>1, <4>1 DEF next
        <3>2. CASE m # k + 1
            <4>1. m \in 1 .. k /\ h[m - 1] = g[m - 1] /\ h[m] = g[m]
                BY <2>3, <3>2
            <4>2. QED
                BY <2>1, <4>1 DEF IsRun
        <3>3. QED
            BY <3>1, <3>2
    <2>5. IsRun(h, k + 1, b, f)
        BY <2>1, <2>3, <2>4 DEF IsRun
    <2>6. k + 1 \in 0 .. n
        OBVIOUS
    <2>7. QED
        BY <2>3, <2>5, <2>6
<1>3. n \in T
    <2> HIDE DEF T
    <2>1. \A m \in 0 .. n : m \in T
        BY <1>1, <1>2, Climb
    <2>2. QED
        BY <2>1
<1>4. QED
    BY <1>3

(***************************************************************************)
(* The rounds of epubDocText.                                              *)
(***************************************************************************)
DocStates == [skipDepth : Nat, text : Seq(Int)]

LEMMA TokenTypes ==
    ASSUME NEW state \in DocStates, NEW token,
           token.kind = "text" => token.rune \in Int
    PROVE  ApplyToken(state, token) \in DocStates
<1>1. \A d \in Nat : NewDepth(token.kind, d) \in Nat
    BY DEF NewDepth
<1>2. \A r \in Int : Append(state.text, r) \in Seq(Int)
    BY DEF DocStates
<1>3. NewLine \in Int
    BY DEF NewLine
<1>4. QED
    BY <1>1, <1>2, <1>3 DEF ApplyToken, DocStates

LEMMA TokenSeqs ==
    ASSUME NEW tokens, IsTokenized(tokens)
    PROVE  /\ Len(tokens) \in Nat
           /\ DOMAIN tokens = 1 .. Len(tokens)
           /\ \A i \in 1 .. Len(tokens) : tokens[i].kind = "text" => tokens[i].rune \in Int
BY LenProperties DEF IsTokenized

\* Every round is a step of ApplyToken.
LEMMA DocLoop ==
    ASSUME NEW tokens, IsTokenized(tokens)
    PROVE  /\ DocRounds(tokens)[0] = [skipDepth |-> 0, text |-> <<>>]
           /\ \A n \in 1 .. Len(tokens) :
                  DocRounds(tokens)[n] = ApplyToken(DocRounds(tokens)[n - 1], tokens[n])
           /\ \A n \in 0 .. Len(tokens) : DocRounds(tokens)[n] \in DocStates
<1> DEFINE N == Len(tokens)
           b == [skipDepth |-> 0, text |-> <<>>]
           f == [m \in 1 .. N |-> [s \in DocStates |-> ApplyToken(s, tokens[m])]]
           after == DocRounds(tokens)
<1>1. N \in Nat /\ \A i \in 1 .. N : tokens[i].kind = "text" => tokens[i].rune \in Int
    BY TokenSeqs
<1>2. b \in DocStates
    BY DEF DocStates
<1>3. f \in [1 .. N -> [DocStates -> DocStates]]
    BY <1>1, TokenTypes
<1>4. PICK g \in [0 .. N -> DocStates] : IsRun(g, N, b, f)
    <2> HIDE DEF N, b, f
    <2>1. QED
        BY <1>1, <1>2, <1>3, LoopRuns
<1>5. g = [m \in 0 .. N |-> IF m = 0 THEN b ELSE ApplyToken(g[m - 1], tokens[m])]
    <2>1. ASSUME NEW m \in 1 .. N
          PROVE  f[m][g[m - 1]] = ApplyToken(g[m - 1], tokens[m])
        <3>1. g[m - 1] \in DocStates
            BY <1>1
        <3>2. QED
            BY <3>1
    <2>2. \A m \in 0 .. N : g[m] = IF m = 0 THEN b ELSE ApplyToken(g[m - 1], tokens[m])
        <3> HIDE DEF f, b
        <3>1. QED
            BY <1>1, <1>4, <2>1 DEF IsRun
    <2> HIDE DEF f, b, N
    <2>3. QED
        BY <2>2, Zenon
<1>6. after = [m \in 0 .. N |-> IF m = 0 THEN b ELSE ApplyToken(after[m - 1], tokens[m])]
    BY <1>5 DEF DocRounds
<1>7. after[0] = b /\ \A m \in 1 .. N : after[m] = ApplyToken(after[m - 1], tokens[m])
    BY <1>1, <1>6
<1>8. \A m \in 0 .. N : after[m] \in DocStates
    <2> DEFINE T == {m \in 0 .. N : after[m] \in DocStates}
    <2>1. 0 \in T
        BY <1>1, <1>2, <1>7
    <2>2. ASSUME NEW m \in 0 .. N - 1, m \in T PROVE m + 1 \in T
        <3>1. m + 1 \in 1 .. N /\ after[m + 1] = ApplyToken(after[m], tokens[m + 1])
            BY <1>1, <1>7
        <3>2. QED
            BY <1>1, <2>2, <3>1, TokenTypes
    <2>3. \A m \in 0 .. N : m \in T
        <3> HIDE DEF T, N
        <3>1. QED
            BY <1>1, <2>1, <2>2, Climb
    <2>4. QED
        BY <2>3
<1>9. QED
    BY <1>7, <1>8

(***************************************************************************)
(* TrimSpace.                                                              *)
(***************************************************************************)
LEMMA Extremes ==
    ASSUME NEW n \in Nat, NEW S \in SUBSET (1 .. n), S # {}
    PROVE  /\ Min(S) \in S /\ Max(S) \in S
           /\ \A x \in S : Min(S) <= x /\ x <= Max(S)
<1>1. \E x \in S : \A y \in S : x >= y
    <2> DEFINE T == {m \in 0 .. n : S \cap (1 .. m) # {} =>
                        \E x \in S \cap (1 .. m) : \A y \in S \cap (1 .. m) : x >= y}
    <2>1. 0 \in T
        OBVIOUS
    <2>2. ASSUME NEW m \in 0 .. n - 1, m \in T PROVE m + 1 \in T
        <3>1. CASE m + 1 \in S
            <4>1. \A y \in S \cap (1 .. m + 1) : m + 1 >= y
                OBVIOUS
            <4>2. m + 1 \in S \cap (1 .. m + 1)
                BY <3>1
            <4>3. QED
                BY <4>1, <4>2
        <3>2. CASE m + 1 \notin S
            <4>1. S \cap (1 .. m + 1) = S \cap (1 .. m)
                BY <3>2
            <4>2. QED
                BY <2>2, <4>1
        <3>3. QED
            BY <3>1, <3>2
    <2>3. \A m \in 0 .. n : m \in T
        <3> HIDE DEF T
        <3>1. QED
            BY <2>1, <2>2, Climb
    <2>4. n \in T
        BY <2>3
    <2>5. S \cap (1 .. n) = S
        OBVIOUS
    <2>6. QED
        BY <2>4, <2>5
<1>2. \E x \in S : \A y \in S : x =< y
    <2> DEFINE T == {m \in 0 .. n : S \cap (1 .. m) # {} => \E x \in S : \A y \in S : x =< y}
    <2>1. 0 \in T
        OBVIOUS
    <2>2. ASSUME NEW m \in 0 .. n - 1, m \in T PROVE m + 1 \in T
        <3>1. CASE S \cap (1 .. m) # {}
            BY <2>2, <3>1
        <3>2. CASE S \cap (1 .. m) = {}
            <4>1. \A y \in S : m + 1 =< y
                BY <3>2
            <4>2. QED
                BY <4>1
        <3>3. QED
            BY <3>1, <3>2
    <2>3. \A m \in 0 .. n : m \in T
        <3> HIDE DEF T
        <3>1. QED
            BY <2>1, <2>2, Climb
    <2>4. n \in T
        BY <2>3
    <2>5. S \cap (1 .. n) = S
        OBVIOUS
    <2>6. QED
        BY <2>4, <2>5
<1>3. QED
    BY <1>1, <1>2 DEF Max, Min

\* A text is trimmed to nothing if it is blank, else to the runes from its
\* first to its last that is not white space.
LEMMA TrimShape ==
    ASSUME NEW t \in Seq(Int)
    PROVE  \/ /\ Trim(t) = <<>>
              /\ \A i \in 1 .. Len(t) : t[i] = NewLine
           \/ \E a, b \in 1 .. Len(t) :
                 /\ a <= b
                 /\ Trim(t) = SubSeq(t, a, b)
                 /\ \A i \in 1 .. Len(t) : i < a \/ b < i => t[i] = NewLine
<1> DEFINE ink == {i \in DOMAIN t : t[i] # NewLine}
<1>1. Len(t) \in Nat /\ DOMAIN t = 1 .. Len(t)
    OBVIOUS
<1>2. CASE ink = {}
    BY <1>1, <1>2 DEF Trim
<1>3. CASE ink # {}
    <2>1. ink \in SUBSET (1 .. Len(t))
        BY <1>1
    <2>2. /\ Min(ink) \in ink /\ Max(ink) \in ink
          /\ \A x \in ink : Min(ink) <= x /\ x <= Max(ink)
        <3> HIDE DEF ink
        <3>1. QED
            BY <1>1, <1>3, <2>1, Extremes
    <2>3. Trim(t) = SubSeq(t, Min(ink), Max(ink))
        BY <1>3 DEF Trim
    <2>4. Min(ink) \in 1 .. Len(t) /\ Max(ink) \in 1 .. Len(t) /\ Min(ink) <= Max(ink)
        BY <2>1, <2>2
    <2>5. ASSUME NEW i \in 1 .. Len(t), i < Min(ink) \/ Max(ink) < i PROVE t[i] = NewLine
        <3>1. i \notin ink
            <4>1. SUFFICES ASSUME i \in ink PROVE FALSE
                OBVIOUS
            <4>2. Min(ink) <= i /\ i <= Max(ink)
                BY <2>2, <4>1
            <4> HIDE DEF ink
            <4>3. QED
                BY <1>1, <2>4, <2>5, <4>2
        <3>2. QED
            BY <1>1, <3>1
    <2>6. QED
        BY <2>3, <2>4, <2>5
<1>4. QED
    BY <1>2, <1>3

\* Every rune of the trimmed text, and the one after it, stand side by side in
\* the text.
LEMMA TrimKeepsNeighbours ==
    ASSUME NEW t \in Seq(Int)
    PROVE  /\ Trim(t) \in Seq(Int)
           /\ \A k \in 1 .. Len(Trim(t)) : \E q \in 1 .. Len(t) :
                 /\ t[q] = Trim(t)[k]
                 /\ k < Len(Trim(t)) => q < Len(t) /\ t[q + 1] = Trim(t)[k + 1]
<1>1. CASE Trim(t) = <<>>
    BY <1>1, EmptySeq
<1>2. ASSUME NEW a \in 1 .. Len(t), NEW b \in 1 .. Len(t), a <= b, Trim(t) = SubSeq(t, a, b)
      PROVE  /\ Trim(t) \in Seq(Int)
             /\ \A k \in 1 .. Len(Trim(t)) : \E q \in 1 .. Len(t) :
                   /\ t[q] = Trim(t)[k]
                   /\ k < Len(Trim(t)) => q < Len(t) /\ t[q + 1] = Trim(t)[k + 1]
    <2>1. Len(t) \in Nat /\ \A i \in a .. b : t[i] \in Int
        OBVIOUS
    <2>2. /\ Trim(t) \in Seq(Int) /\ Len(Trim(t)) = b - a + 1
          /\ \A i \in 1 .. b - a + 1 : Trim(t)[i] = t[a + i - 1]
        BY <1>2, <2>1, SubSeqProperties
    <2>3. ASSUME NEW k \in 1 .. Len(Trim(t))
          PROVE  \E q \in 1 .. Len(t) :
                     /\ t[q] = Trim(t)[k]
                     /\ k < Len(Trim(t)) => q < Len(t) /\ t[q + 1] = Trim(t)[k + 1]
        <3>1. a + k - 1 \in 1 .. Len(t) /\ t[a + k - 1] = Trim(t)[k]
            BY <2>1, <2>2
        <3>2. ASSUME k < Len(Trim(t))
              PROVE  a + k - 1 < Len(t) /\ t[a + k - 1 + 1] = Trim(t)[k + 1]
            <4>1. k + 1 \in 1 .. b - a + 1 /\ a + (k + 1) - 1 = a + k - 1 + 1
                BY <2>1, <2>2, <3>2
            <4>2. QED
                BY <2>1, <2>2, <4>1
        <3>3. QED
            BY <3>1, <3>2
    <2>4. QED
        BY <2>2, <2>3
<1>3. QED
    BY <1>1, <1>2, TrimShape

(***************************************************************************)
(* What a token does to the text of a document.                            *)
(***************************************************************************)
LEMMA TokenEffect ==
    ASSUME NEW state \in DocStates, NEW token,
           token.kind = "text" => token.rune \in Int
    PROVE  LET next == ApplyToken(state, token)
           IN  \/ /\ token.kind = "text" /\ state.skipDepth = 0
                  /\ next.text = Append(state.text, token.rune)
                  /\ next.skipDepth = state.skipDepth
               \/ /\ token.kind # "text" /\ token.tag \in BlockBreakTags
                  /\ next.text = Append(state.text, NewLine)
                  /\ next.skipDepth = state.skipDepth
               \/ /\ token.kind # "text" /\ token.tag \notin BlockBreakTags
                  /\ token.tag \in SkippedTags
                  /\ next.text = state.text
                  /\ next.skipDepth = NewDepth(token.kind, state.skipDepth)
               \/ /\ token.kind = "text" => state.skipDepth # 0
                  /\ token.kind # "text" =>
                         token.tag \notin BlockBreakTags /\ token.tag \notin SkippedTags
                  /\ next = state
<1> DEFINE next == ApplyToken(state, token)
<1>1. CASE token.kind = "text" /\ state.skipDepth = 0
    <2>1. next = [state EXCEPT !.text = Append(@, token.rune)]
        BY <1>1 DEF ApplyToken
    <2>2. QED
        BY <1>1, <2>1 DEF DocStates
<1>2. CASE token.kind # "text" /\ token.tag \in BlockBreakTags
    <2>1. next = [state EXCEPT !.text = Append(@, NewLine)]
        BY <1>2 DEF ApplyToken, BlockBreakTags, SkippedTags
    <2>2. QED
        BY <1>2, <2>1 DEF DocStates
<1>3. CASE token.kind # "text" /\ token.tag \notin BlockBreakTags /\ token.tag \in SkippedTags
    <2>1. next = [state EXCEPT !.skipDepth = NewDepth(token.kind, @)]
        BY <1>3 DEF ApplyToken
    <2>2. QED
        BY <1>3, <2>1 DEF DocStates
<1>4. CASE /\ token.kind = "text" => state.skipDepth # 0
           /\ token.kind # "text" =>
                  token.tag \notin BlockBreakTags /\ token.tag \notin SkippedTags
    <2>1. next = state
        BY <1>4 DEF ApplyToken
    <2>2. QED
        BY <1>4, <2>1
<1>5. QED
    BY <1>1, <1>2, <1>3, <1>4

\* The tokens from i to n break no line.
Unbroken(tokens, i, n) ==
    \A m \in i .. n : tokens[m].kind = "text" \/ tokens[m].tag \notin BlockBreakTags

\* The rune r of token i and the rune s of token j, later in the same line.
InOneLine(tokens, i, j, r, s) ==
    /\ i < j
    /\ tokens[i].kind = "text" /\ tokens[i].rune = r
    /\ tokens[j].kind = "text" /\ tokens[j].rune = s
    /\ Unbroken(tokens, i, j)

\* Two runes side by side in the text stood in one line; the last rune stands
\* in the line that is still open.
Separated(tokens, n, t) ==
    /\ \A k \in 1 .. Len(t) - 1 : t[k] # NewLine /\ t[k + 1] # NewLine =>
           \E i, j \in 1 .. n : InOneLine(tokens, i, j, t[k], t[k + 1])
    /\ Len(t) > 0 /\ t[Len(t)] # NewLine =>
           \E i \in 1 .. n :
               tokens[i].kind = "text" /\ tokens[i].rune = t[Len(t)] /\ Unbroken(tokens, i, n)

LEMMA TokenSeparates ==
    ASSUME NEW tokens, NEW n \in Nat, NEW state \in DocStates,
           tokens[n + 1].kind = "text" => tokens[n + 1].rune \in Int,
           Separated(tokens, n, state.text)
    PROVE  Separated(tokens, n + 1, ApplyToken(state, tokens[n + 1]).text)
<1> DEFINE t == state.text
           token == tokens[n + 1]
           u == ApplyToken(state, token).text
<1>1. t \in Seq(Int) /\ Len(t) \in Nat
    BY DEF DocStates
<1>2. \A i, j \in 1 .. n : i \in 1 .. n + 1 /\ j \in 1 .. n + 1
    OBVIOUS
<1> HIDE DEF u
<1>3. ASSUME NEW i \in 1 .. n, Unbroken(tokens, i, n),
             token.kind = "text" \/ token.tag \notin BlockBreakTags
      PROVE  Unbroken(tokens, i, n + 1)
    <2>1. \A m \in i .. n + 1 : m \in i .. n \/ m = n + 1
        OBVIOUS
    <2>2. QED
        BY <1>3, <2>1 DEF Unbroken
<1> USE DEF u
<1>4. ASSUME NEW r \in Int, u = Append(t, r)
      PROVE  /\ Len(u) = Len(t) + 1 /\ u[Len(t) + 1] = r
             /\ \A k \in 1 .. Len(t) : u[k] = t[k]
    BY <1>1, <1>4, AppendProperties
<1>5. CASE token.kind = "text" /\ u = Append(t, token.rune)
    <2>1. /\ Len(u) = Len(t) + 1 /\ u[Len(t) + 1] = token.rune
          /\ \A k \in 1 .. Len(t) : u[k] = t[k]
        BY <1>4, <1>5
    <2>2. ASSUME NEW k \in 1 .. Len(u) - 1, u[k] # NewLine, u[k + 1] # NewLine
          PROVE  \E i, j \in 1 .. n + 1 : InOneLine(tokens, i, j, u[k], u[k + 1])
        <3>1. CASE k \in 1 .. Len(t) - 1
            <4>1. u[k] = t[k] /\ u[k + 1] = t[k + 1]
                BY <1>1, <2>1, <3>1
            <4>2. PICK i, j \in 1 .. n : InOneLine(tokens, i, j, t[k], t[k + 1])
                BY <2>2, <3>1, <4>1 DEF Separated
            <4>3. QED
                BY <1>2, <4>1, <4>2
        <3>2. CASE k = Len(t)
            <4>1. Len(t) > 0 /\ u[k] = t[Len(t)] /\ t[Len(t)] # NewLine /\ u[k + 1] = token.rune
                BY <1>1, <2>1, <2>2, <3>2
            <4>2. PICK i \in 1 .. n : /\ tokens[i].kind = "text" /\ tokens[i].rune = t[Len(t)]
                                      /\ Unbroken(tokens, i, n)
                BY <4>1 DEF Separated
            <4>3. Unbroken(tokens, i, n + 1)
                BY <1>5, <1>3, <4>2
            <4>4. InOneLine(tokens, i, n + 1, u[k], u[k + 1])
                BY <1>5, <4>1, <4>2, <4>3 DEF InOneLine
            <4>5. QED
                BY <1>2, <4>4
        <3>3. QED
            BY <1>1, <2>1, <2>2, <3>1, <3>2
    <2>3. /\ tokens[n + 1].kind = "text" /\ tokens[n + 1].rune = u[Len(u)]
          /\ Unbroken(tokens, n + 1, n + 1)
        BY <1>1, <1>5, <2>1 DEF Unbroken
    <2>4. n + 1 \in 1 .. n + 1
        OBVIOUS
    <2>5. Separated(tokens, n + 1, u)
        <3> HIDE DEF u
        <3>1. QED
            BY <2>2, <2>3, <2>4 DEF Separated
    <2>6. QED
        BY <2>5
<1>6. CASE u = Append(t, NewLine)
    <2>1. /\ Len(u) = Len(t) + 1 /\ u[Len(t) + 1] = NewLine
          /\ \A k \in 1 .. Len(t) : u[k] = t[k]
        BY <1>4, <1>6 DEF NewLine
    <2>2. ASSUME NEW k \in 1 .. Len(u) - 1, u[k] # NewLine, u[k + 1] # NewLine
          PROVE  \E i, j \in 1 .. n + 1 : InOneLine(tokens, i, j, u[k], u[k + 1])
        <3>1. k \in 1 .. Len(t) - 1
            BY <1>1, <2>1, <2>2
        <3>2. u[k] = t[k] /\ u[k + 1] = t[k + 1]
            BY <1>1, <2>1, <3>1
        <3>3. PICK i, j \in 1 .. n : InOneLine(tokens, i, j, t[k], t[k + 1])
            BY <2>2, <3>1, <3>2 DEF Separated
        <3>4. QED
            BY <1>2, <3>2, <3>3
    <2>3. u[Len(u)] = NewLine
        BY <1>1, <2>1
    <2>4. Separated(tokens, n + 1, u)
        <3> HIDE DEF u
        <3>1. QED
            BY <2>2, <2>3 DEF Separated
    <2>5. QED
        BY <2>4
<1>7. CASE u = t /\ (token.kind = "text" \/ token.tag \notin BlockBreakTags)
    <2>1. \A i \in 1 .. n : Unbroken(tokens, i, n) => Unbroken(tokens, i, n + 1)
        BY <1>7, <1>3
    <2>2. Separated(tokens, n + 1, t)
        BY <1>2, <2>1 DEF Separated
    <2>3. QED
        BY <1>7, <2>2
<1>8. QED
    BY <1>5, <1>6, <1>7, TokenEffect

LEMMA DocSeparates ==
    ASSUME NEW tokens, IsTokenized(tokens), NEW n \in 0 .. Len(tokens)
    PROVE  Separated(tokens, n, DocRounds(tokens)[n].text)
<1> DEFINE N == Len(tokens)
           T == {m \in 0 .. N : Separated(tokens, m, DocRounds(tokens)[m].text)}
<1>1. N \in Nat /\ \A i \in 1 .. N : tokens[i].kind = "text" => tokens[i].rune \in Int
    BY TokenSeqs
<1>2. 0 \in T
    <2>1. DocRounds(tokens)[0].text = <<>>
        BY DocLoop
    <2>2. QED
        BY <1>1, <2>1 DEF Separated
<1>3. ASSUME NEW m \in 0 .. N - 1, m \in T PROVE m + 1 \in T
    <2>1. m \in Nat /\ m + 1 \in 1 .. N /\ m \in 0 .. N /\ m + 1 - 1 = m
        BY <1>1
    <2>2. /\ DocRounds(tokens)[m] \in DocStates
          /\ DocRounds(tokens)[m + 1] = ApplyToken(DocRounds(tokens)[m], tokens[m + 1])
        BY <2>1, DocLoop
    <2>3. Separated(tokens, m + 1, DocRounds(tokens)[m + 1].text)
        BY <1>1, <1>3, <2>1, <2>2, TokenSeparates
    <2>4. QED
        BY <1>1, <2>1, <2>3
<1>4. \A m \in 0 .. N : m \in T
    <2> HIDE DEF T, N
    <2>1. QED
        BY <1>1, <1>2, <1>3, Climb
<1>5. QED
    BY <1>4

(***************************************************************************)
(* Markup in the text.                                                     *)
(***************************************************************************)
\* Token i is code or tags, and skipDepth is 0 when it is read.
Leaks(tokens, i) ==
    /\ tokens[i].kind = "text" /\ tokens[i].rune = Raw
    /\ DocRounds(tokens)[i - 1].skipDepth = 0

LEMMA DocLeaks ==
    ASSUME NEW tokens, IsTokenized(tokens), NEW n \in 0 .. Len(tokens)
    PROVE  LET t == DocRounds(tokens)[n].text
           IN  \A k \in 1 .. Len(t) : t[k] = Raw => \E i \in 1 .. n : Leaks(tokens, i)
<1> DEFINE N == Len(tokens)
           t(m) == DocRounds(tokens)[m].text
           Leaky(m) == \A k \in 1 .. Len(t(m)) : t(m)[k] = Raw => \E i \in 1 .. m : Leaks(tokens, i)
           T == {m \in 0 .. N : Leaky(m)}
<1>1. N \in Nat /\ \A i \in 1 .. N : tokens[i].kind = "text" => tokens[i].rune \in Int
    BY TokenSeqs
<1>2. 0 \in T
    <2>1. Len(t(0)) = 0
        BY DocLoop
    <2>2. QED
        BY <1>1, <2>1
<1>3. ASSUME NEW m \in 0 .. N - 1, m \in T PROVE m + 1 \in T
    <2>1. m \in Nat /\ m + 1 \in 0 .. N /\ m + 1 \in 1 .. N /\ m \in 0 .. N /\ m + 1 - 1 = m
        BY <1>1
    <2>2. /\ DocRounds(tokens)[m] \in DocStates
          /\ DocRounds(tokens)[m + 1] = ApplyToken(DocRounds(tokens)[m], tokens[m + 1])
        BY <2>1, DocLoop
    <2>3. t(m) \in Seq(Int)
        BY <2>2 DEF DocStates
    <2>4. ASSUME NEW k \in 1 .. Len(t(m + 1)), t(m + 1)[k] = Raw
          PROVE  \E i \in 1 .. m + 1 : Leaks(tokens, i)
        <3>1. ASSUME NEW r \in Int, t(m + 1) = Append(t(m), r)
              PROVE  (k \in 1 .. Len(t(m)) /\ t(m)[k] = Raw) \/ r = Raw
            <4> DEFINE s == t(m)
                       u == t(m + 1)
            <4>1. s \in Seq(Int) /\ u = Append(s, r) /\ k \in 1 .. Len(u) /\ u[k] = Raw
                BY <2>3, <2>4, <3>1
            <4> HIDE DEF s, u
            <4>2. /\ Len(u) = Len(s) + 1 /\ u[Len(s) + 1] = r
                  /\ \A i \in 1 .. Len(s) : u[i] = s[i]
                BY <4>1, AppendProperties
            <4>3. (k \in 1 .. Len(s) /\ s[k] = Raw) \/ r = Raw
                BY <4>1, <4>2
            <4>4. QED
                BY <4>3 DEF s
        <3>2. CASE k \in 1 .. Len(t(m)) /\ t(m)[k] = Raw
            <4>1. PICK i \in 1 .. m : Leaks(tokens, i)
                BY <1>3, <3>2
            <4>2. i \in 1 .. m + 1
                OBVIOUS
            <4>3. QED
                BY <4>1, <4>2
        <3>3. CASE /\ tokens[m + 1].kind = "text" /\ DocRounds(tokens)[m].skipDepth = 0
                   /\ t(m + 1) = Append(t(m), tokens[m + 1].rune)
                   /\ ~(k \in 1 .. Len(t(m)) /\ t(m)[k] = Raw)
            <4>1. tokens[m + 1].rune = Raw
                BY <1>1, <2>1, <3>1, <3>3
            <4>2. Leaks(tokens, m + 1)
                BY <2>1, <3>3, <4>1 DEF Leaks
            <4>3. m + 1 \in 1 .. m + 1
                OBVIOUS
            <4>4. QED
                BY <4>2, <4>3
        <3>4. CASE t(m + 1) = Append(t(m), NewLine)
            <4>1. NewLine \in Int /\ NewLine # Raw
                BY DEF NewLine, Raw
            <4>2. k \in 1 .. Len(t(m)) /\ t(m)[k] = Raw
                BY <3>1, <3>4, <4>1
            <4>3. QED
                BY <3>2, <4>2
        <3>5. CASE t(m + 1) = t(m)
            <4>1. k \in 1 .. Len(t(m)) /\ t(m)[k] = Raw
                BY <2>4, <3>5
            <4>2. QED
                BY <3>2, <4>1
        <3>6. QED
            <4> HIDE DEF t
            <4>1. \/ /\ tokens[m + 1].kind = "text" /\ DocRounds(tokens)[m].skipDepth = 0
                     /\ t(m + 1) = Append(t(m), tokens[m + 1].rune)
                  \/ t(m + 1) = Append(t(m), NewLine)
                  \/ t(m + 1) = t(m)
                BY <1>1, <2>1, <2>2, TokenEffect DEF t
            <4>2. QED
                BY <3>2, <3>3, <3>4, <3>5, <4>1
    <2>5. QED
        BY <2>1, <2>4
<1>4. \A m \in 0 .. N : m \in T
    <2> HIDE DEF T, N
    <2>1. QED
        BY <1>1, <1>2, <1>3, Climb
<1>5. QED
    BY <1>4

LEMMA LeakFollowsRawTag ==
    ASSUME NEW tokens, IsTokenized(tokens), NEW i \in 1 .. Len(tokens), Leaks(tokens, i)
    PROVE  /\ i - 1 \in 1 .. Len(tokens) - 1
           /\ OpensRawText(tokens[i - 1])
           /\ tokens[i - 1].kind = "self" \/ tokens[i - 1].tag \notin SkippedTags
<1>1. Len(tokens) \in Nat /\ DOMAIN tokens = 1 .. Len(tokens)
    BY TokenSeqs
<1>2. i > 1 /\ OpensRawText(tokens[i - 1])
    BY <1>1 DEF IsTokenized, Leaks
<1>3. i - 1 \in 1 .. Len(tokens) /\ i - 1 - 1 \in 0 .. Len(tokens) /\ i - 1 \in 1 .. Len(tokens) - 1
    BY <1>1, <1>2
<1>4. ASSUME tokens[i - 1].kind = "start", tokens[i - 1].tag \in SkippedTags PROVE FALSE
    <2> DEFINE before == DocRounds(tokens)[i - 1 - 1]
               after == DocRounds(tokens)[i - 1]
    <2>1. before \in DocStates /\ after = ApplyToken(before, tokens[i - 1])
        BY <1>3, DocLoop
    <2>2. tokens[i - 1].kind # "text" /\ tokens[i - 1].tag \notin BlockBreakTags
        BY <1>4 DEF SkippedTags, BlockBreakTags
    <2>3. after.skipDepth = NewDepth("start", before.skipDepth)
        <3> HIDE DEF before, after
        <3>1. QED
            BY <1>4, <2>1, <2>2, TokenEffect
    <2>4. before.skipDepth \in Nat
        BY <2>1 DEF DocStates
    <2>5. after.skipDepth = before.skipDepth + 1
        BY <2>3 DEF NewDepth
    <2>6. after.skipDepth = 0
        BY DEF Leaks
    <2> HIDE DEF before, after
    <2>7. QED
        BY <2>4, <2>5, <2>6
<1>5. QED
    BY <1>2, <1>3, <1>4 DEF OpensRawText

(***************************************************************************)
(* The loop over the spine.                                                *)
(***************************************************************************)
LEMMA ChapterText ==
    ASSUME NEW tokens, IsTokenized(tokens)
    PROVE  LET t == EpubDocText(tokens).text
           IN  /\ t \in Seq(Int)
               /\ t = <<>> \/ t = DocRounds(tokens)[Len(tokens)].text
<1>1. Len(tokens) \in 0 .. Len(tokens)
    BY TokenSeqs
<1>2. DocRounds(tokens)[Len(tokens)].text \in Seq(Int)
    BY <1>1, DocLoop DEF DocStates
<1>3. CASE Fails(tokens)
    BY <1>3, EmptySeq DEF EpubDocText, Error
<1>4. CASE ~Fails(tokens)
    BY <1>2, <1>4 DEF EpubDocText, Text
<1>5. QED
    BY <1>3, <1>4

\* The runes of a text to which a chapter was added.
LEMMA AddedChapter ==
    ASSUME NEW t \in Seq(Int), NEW chapter, chapter.text \in Seq(Int), Trim(chapter.text) # <<>>
    PROVE  LET u == Trim(chapter.text)
               s == AddChapter(t, chapter)
           IN  /\ s \in Seq(Int) /\ u \in Seq(Int)
               /\ Len(s) = Len(t) + Len(u) + 2
               /\ \A k \in 1 .. Len(t) : s[k] = t[k]
               /\ \A k \in 1 .. Len(u) : s[Len(t) + k] = u[k]
               /\ s[Len(t) + Len(u) + 1] = NewLine /\ s[Len(t) + Len(u) + 2] = NewLine
<1> DEFINE u == Trim(chapter.text)
           e == <<NewLine, NewLine>>
           s == AddChapter(t, chapter)
<1>1. u \in Seq(Int)
    BY TrimKeepsNeighbours
<1>2. e \in Seq(Int) /\ Len(e) = 2 /\ e[1] = NewLine /\ e[2] = NewLine
    BY DEF NewLine
<1> DEFINE v == t \o u
<1>3. s = v \o e
    BY DEF AddChapter
<1> HIDE DEF u, e, s
<1>4. /\ v \in Seq(Int) /\ Len(v) = Len(t) + Len(u)
      /\ \A i \in 1 .. Len(t) + Len(u) : v[i] = IF i <= Len(t) THEN t[i] ELSE u[i - Len(t)]
    BY <1>1, ConcatProperties
<1> HIDE DEF v
<1>5. /\ s \in Seq(Int) /\ Len(s) = Len(v) + Len(e)
      /\ \A i \in 1 .. Len(v) + Len(e) : s[i] = IF i <= Len(v) THEN v[i] ELSE e[i - Len(v)]
    <2>1. v \in Seq(Int) /\ e \in Seq(Int)
        BY <1>2, <1>4
    <2>2. /\ v \o e \in Seq(Int) /\ Len(v \o e) = Len(v) + Len(e)
          /\ \A i \in 1 .. Len(v) + Len(e) : (v \o e)[i] = IF i <= Len(v) THEN v[i] ELSE e[i - Len(v)]
        BY <2>1, ConcatProperties
    <2>3. QED
        BY <1>3, <2>2
<1>6. Len(t) \in Nat /\ Len(u) \in Nat /\ Len(v) = Len(t) + Len(u) /\ Len(e) = 2
    BY <1>1, <1>2, <1>4
<1>7. ASSUME NEW k \in 1 .. Len(t) PROVE s[k] = t[k]
    <2>1. k \in 1 .. Len(t) + Len(u) /\ k \in 1 .. Len(v) + Len(e) /\ k <= Len(v) /\ k <= Len(t)
        BY <1>6
    <2>2. QED
        BY <1>4, <1>5, <2>1
<1>8. ASSUME NEW k \in 1 .. Len(u) PROVE s[Len(t) + k] = u[k]
    <2> DEFINE i == Len(t) + k
    <2>1. /\ i \in 1 .. Len(t) + Len(u) /\ i \in 1 .. Len(v) + Len(e)
          /\ i <= Len(v) /\ ~(i <= Len(t)) /\ i - Len(t) = k
        BY <1>6
    <2> HIDE DEF i
    <2>2. s[i] = v[i] /\ v[i] = u[k]
        BY <1>4, <1>5, <2>1
    <2>3. QED
        BY <2>2 DEF i
<1>9. ASSUME NEW j \in 1 .. 2 PROVE s[Len(t) + Len(u) + j] = NewLine
    <2> DEFINE i == Len(t) + Len(u) + j
    <2>1. i \in 1 .. Len(v) + Len(e) /\ ~(i <= Len(v)) /\ i - Len(v) = j
        BY <1>2, <1>4, <1>6
    <2> HIDE DEF i
    <2>2. s[i] = e[j]
        BY <1>5, <2>1
    <2>3. QED
        BY <1>2, <2>2 DEF i
<1>10. QED
    BY <1>1, <1>2, <1>4, <1>5, <1>6, <1>7, <1>8, <1>9 DEF u, s

LEMMA AddChapterType ==
    ASSUME NEW t \in Seq(Int), NEW chapter, chapter.text \in Seq(Int)
    PROVE  AddChapter(t, chapter) \in Seq(Int)
<1>1. CASE Trim(chapter.text) = <<>>
    BY <1>1 DEF AddChapter
<1>2. CASE Trim(chapter.text) # <<>>
    BY <1>2, AddedChapter
<1>3. QED
    BY <1>1, <1>2

Documents(zip) == \A p \in DOMAIN zip : IsTokenized(zip[p])

LEMMA ChapterOfZip ==
    ASSUME NEW zip, Documents(zip), NEW opfPath, NEW entry, Leads(zip, opfPath, entry)
    PROVE  /\ \E p \in DOMAIN zip : Chapter(zip, opfPath, entry) = EpubDocText(zip[p])
           /\ Chapter(zip, opfPath, entry).text \in Seq(Int)
<1>1. DocPath(zip, opfPath, entry) \in DOMAIN zip
    BY DEF Leads
<1>2. Chapter(zip, opfPath, entry) = EpubDocText(zip[DocPath(zip, opfPath, entry)])
    BY DEF Chapter
<1>3. IsTokenized(zip[DocPath(zip, opfPath, entry)])
    BY <1>1 DEF Documents
<1>4. QED
    BY <1>1, <1>2, <1>3, ChapterText

\* The round of the loop for one element of the package file.
BookRound(zip, opfPath, t, element) ==
    IF Leads(zip, opfPath, element) THEN AddChapter(t, Chapter(zip, opfPath, element)) ELSE t

LEMMA BookRoundType ==
    ASSUME NEW zip, Documents(zip), NEW opfPath, NEW t \in Seq(Int), NEW element
    PROVE  BookRound(zip, opfPath, t, element) \in Seq(Int)
<1>1. CASE Leads(zip, opfPath, element)
    <2>1. Chapter(zip, opfPath, element).text \in Seq(Int)
        BY <1>1, ChapterOfZip
    <2>2. QED
        BY <1>1, <2>1, AddChapterType DEF BookRound
<1>2. CASE ~Leads(zip, opfPath, element)
    BY <1>2 DEF BookRound
<1>3. QED
    BY <1>1, <1>2

\* Every round is a BookRound.
LEMMA BookLoop ==
    ASSUME NEW zip, Documents(zip), NEW opfPath \in DOMAIN zip
    PROVE  LET opf == zip[opfPath]
               after == BookRounds(zip, opfPath)
           IN  /\ after[0] = <<>>
               /\ \A n \in 1 .. Len(opf) : after[n] = BookRound(zip, opfPath, after[n - 1], opf[n])
               /\ \A n \in 0 .. Len(opf) : after[n] \in Seq(Int)
<1> DEFINE opf == zip[opfPath]
           N == Len(opf)
           f == [m \in 1 .. N |-> [s \in Seq(Int) |-> BookRound(zip, opfPath, s, opf[m])]]
           after == BookRounds(zip, opfPath)
           b == <<>>
<1>1. N \in Nat
    BY TokenSeqs DEF Documents
<1>2. b \in Seq(Int)
    BY EmptySeq
<1>3. f \in [1 .. N -> [Seq(Int) -> Seq(Int)]]
    BY BookRoundType
<1>4. PICK g \in [0 .. N -> Seq(Int)] : IsRun(g, N, b, f)
    <2> HIDE DEF N, f, b
    <2>1. QED
        BY <1>1, <1>2, <1>3, LoopRuns
<1>5. ASSUME NEW m \in 1 .. N PROVE g[m] = BookRound(zip, opfPath, g[m - 1], opf[m])
    <2>1. g[m - 1] \in Seq(Int)
        BY <1>1
    <2>2. f[m][g[m - 1]] = BookRound(zip, opfPath, g[m - 1], opf[m])
        BY <2>1
    <2> HIDE DEF f
    <2>3. QED
        BY <1>4, <2>2 DEF IsRun
<1>6. g[0] = <<>>
    BY <1>4 DEF IsRun
<1>7. g = [m \in 0 .. N |->
              IF m = 0 THEN <<>>
              ELSE IF Leads(zip, opfPath, opf[m])
                   THEN AddChapter(g[m - 1], Chapter(zip, opfPath, opf[m]))
                   ELSE g[m - 1]]
    <2>1. \A m \in 0 .. N : m # 0 => m \in 1 .. N
        BY <1>1
    <2>2. \A m \in 0 .. N : g[m] =
              IF m = 0 THEN <<>>
              ELSE IF Leads(zip, opfPath, opf[m])
                   THEN AddChapter(g[m - 1], Chapter(zip, opfPath, opf[m]))
                   ELSE g[m - 1]
        <3> HIDE DEF opf, N
        <3>1. QED
            BY <1>5, <1>6, <2>1 DEF BookRound
    <2> HIDE DEF opf, N
    <2>3. QED
        BY <2>2, Zenon
<1>8. after = [m \in 0 .. N |->
                  IF m = 0 THEN <<>>
                  ELSE IF Leads(zip, opfPath, opf[m])
                       THEN AddChapter(after[m - 1], Chapter(zip, opfPath, opf[m]))
                       ELSE after[m - 1]]
    BY <1>7 DEF BookRounds
<1>9. after[0] = <<>> /\ \A m \in 1 .. N : after[m] = BookRound(zip, opfPath, after[m - 1], opf[m])
    <2>1. 0 \in 0 .. N /\ \A m \in 1 .. N : m \in 0 .. N /\ m # 0
        BY <1>1
    <2> HIDE DEF opf, N, after
    <2>2. QED
        BY <1>8, <2>1 DEF BookRound
<1>10. \A m \in 0 .. N : after[m] \in Seq(Int)
    <2> DEFINE T == {m \in 0 .. N : after[m] \in Seq(Int)}
    <2>1. 0 \in T
        <3>1. 0 \in 0 .. N
            BY <1>1
        <3> HIDE DEF after, N
        <3>2. QED
            BY <1>2, <1>9, <3>1
    <2>2. ASSUME NEW m \in 0 .. N - 1, m \in T PROVE m + 1 \in T
        <3>1. m + 1 \in 1 .. N /\ m + 1 \in 0 .. N /\ m + 1 - 1 = m
            BY <1>1
        <3>2. after[m + 1] = BookRound(zip, opfPath, after[m], opf[m + 1])
            BY <1>9, <3>1
        <3>3. after[m] \in Seq(Int)
            BY <2>2
        <3> HIDE DEF after, opf, N
        <3>4. after[m + 1] \in Seq(Int)
            BY <3>2, <3>3, BookRoundType
        <3>5. QED
            BY <3>1, <3>4
    <2>3. \A m \in 0 .. N : m \in T
        <3> HIDE DEF T, N
        <3>1. QED
            BY <1>1, <2>1, <2>2, Climb
    <2>4. QED
        BY <2>3
<1>11. QED
    BY <1>9, <1>10

(***************************************************************************)
(* Where the runes of the book come from.                                  *)
(***************************************************************************)
\* Rune k of the text t is rune q of the chapter c, and so are the runes after
\* them unless white space follows in t.
StandsIn(c, q, t, k) ==
    /\ q \in 1 .. Len(c)
    /\ c[q] = t[k]
    /\ k < Len(t) /\ t[k + 1] # NewLine => q < Len(c) /\ c[q + 1] = t[k + 1]

FromChapters(zip, t) ==
    /\ Len(t) > 0 => t[Len(t)] = NewLine
    /\ \A k \in 1 .. Len(t) : t[k] # NewLine =>
           \E p \in DOMAIN zip : \E q \in Nat : StandsIn(EpubDocText(zip[p]).text, q, t, k)

LEMMA InTheMiddle ==
    ASSUME NEW n \in Nat, NEW l \in Nat, NEW k \in n + 1 .. n + l + 2,
           k # n + l + 1, k # n + l + 2
    PROVE  k - n \in 1 .. l
OBVIOUS

LEMMA AddedRunes ==
    ASSUME NEW t \in Seq(Int), NEW chapter, chapter.text \in Seq(Int),
           Trim(chapter.text) # <<>>,
           NEW k \in Nat, k > Len(t), k <= Len(AddChapter(t, chapter)),
           AddChapter(t, chapter)[k] # NewLine
    PROVE  \E q \in Nat : StandsIn(chapter.text, q, AddChapter(t, chapter), k)
<1> DEFINE c == chapter.text
           u == Trim(c)
           s == AddChapter(t, chapter)
<1>1. /\ s \in Seq(Int) /\ u \in Seq(Int)
      /\ Len(s) = Len(t) + Len(u) + 2
      /\ \A m \in 1 .. Len(u) : s[Len(t) + m] = u[m]
      /\ s[Len(t) + Len(u) + 1] = NewLine /\ s[Len(t) + Len(u) + 2] = NewLine
    BY AddedChapter
<1>2. \A m \in 1 .. Len(u) : \E q \in 1 .. Len(c) :
          /\ c[q] = u[m]
          /\ m < Len(u) => q < Len(c) /\ c[q + 1] = u[m + 1]
    BY TrimKeepsNeighbours
<1>3. c \in Seq(Int) /\ k <= Len(s) /\ s[k] # NewLine
    OBVIOUS
<1> HIDE DEF u, s, c
<1>4. Len(t) \in Nat /\ Len(u) \in Nat /\ Len(c) \in Nat
    BY <1>1, <1>3
<1>5. k - Len(t) \in 1 .. Len(u)
    <2>1. k \in Len(t) + 1 .. Len(t) + Len(u) + 2
        BY <1>1, <1>3, <1>4
    <2>2. k # Len(t) + Len(u) + 1 /\ k # Len(t) + Len(u) + 2
        BY <1>1, <1>3
    <2>3. QED
        BY <1>4, <2>1, <2>2, InTheMiddle
<1> DEFINE m == k - Len(t)
<1>6. Len(t) + m = k
    BY <1>4
<1>7. s[k] = u[m]
    BY <1>1, <1>5, <1>6
<1>8. PICK q \in 1 .. Len(c) : c[q] = u[m] /\ (m < Len(u) => q < Len(c) /\ c[q + 1] = u[m + 1])
    BY <1>2, <1>5
<1>9. ASSUME k < Len(s), s[k + 1] # NewLine PROVE q < Len(c) /\ c[q + 1] = s[k + 1]
    <2>1. m < Len(u)
        <3>1. ASSUME m = Len(u) PROVE FALSE
            <4>1. k + 1 = Len(t) + Len(u) + 1
                BY <1>4, <1>6, <3>1
            <4>2. QED
                BY <1>1, <1>9, <4>1
        <3>2. m \in 1 .. Len(u) /\ m # Len(u)
            BY <1>5, <3>1
        <3> HIDE DEF m
        <3>3. QED
            BY <1>4, <3>2
    <2>2. m + 1 \in 1 .. Len(u) /\ Len(t) + (m + 1) = k + 1
        BY <1>4, <1>5, <2>1
    <2>3. s[k + 1] = u[m + 1]
        BY <1>1, <2>2
    <2>4. QED
        BY <1>8, <2>1, <2>3
<1>10. q \in Nat /\ StandsIn(c, q, s, k)
    BY <1>4, <1>7, <1>8, <1>9 DEF StandsIn
<1>11. QED
    BY <1>10 DEF c, s

LEMMA RoundFromChapters ==
    ASSUME NEW zip, Documents(zip), NEW opfPath, NEW element,
           NEW t \in Seq(Int), FromChapters(zip, t)
    PROVE  FromChapters(zip, BookRound(zip, opfPath, t, element))
<1> DEFINE chapter == Chapter(zip, opfPath, element)
<1>1. CASE ~Leads(zip, opfPath, element)
    BY <1>1 DEF BookRound
<1>2. CASE Leads(zip, opfPath, element) /\ Trim(chapter.text) = <<>>
    BY <1>2 DEF BookRound, AddChapter
<1>3. CASE Leads(zip, opfPath, element) /\ Trim(chapter.text) # <<>>
    <2>1. chapter.text \in Seq(Int) /\ \E p \in DOMAIN zip : chapter = EpubDocText(zip[p])
        BY <1>3, ChapterOfZip
    <2>2. BookRound(zip, opfPath, t, element) = AddChapter(t, chapter)
        BY <1>3 DEF BookRound
    <2> DEFINE s == AddChapter(t, chapter)
               u == Trim(chapter.text)
    <2> HIDE DEF chapter
    <2>3. /\ s \in Seq(Int) /\ u \in Seq(Int)
          /\ Len(s) = Len(t) + Len(u) + 2
          /\ \A k \in 1 .. Len(t) : s[k] = t[k]
          /\ s[Len(t) + Len(u) + 2] = NewLine
        BY <1>3, <2>1, AddedChapter
    <2>4. ASSUME NEW k \in 1 .. Len(s), s[k] # NewLine
          PROVE  \E p \in DOMAIN zip : \E q \in Nat : StandsIn(EpubDocText(zip[p]).text, q, s, k)
        <3>1. CASE k <= Len(t)
            <4> HIDE DEF s, u
            <4>1. k \in 1 .. Len(t) /\ t[k] # NewLine /\ s[k] = t[k] /\ Len(t) \in Nat /\ Len(u) \in Nat
                BY <2>3, <2>4, <3>1
            <4>2. k < Len(t)
                BY <4>1 DEF FromChapters
            <4>3. k + 1 \in 1 .. Len(t) /\ s[k + 1] = t[k + 1]
                BY <2>3, <4>1, <4>2
            <4>4. PICK p \in DOMAIN zip : \E q \in Nat : StandsIn(EpubDocText(zip[p]).text, q, t, k)
                BY <4>1 DEF FromChapters
            <4>5. PICK q \in Nat : StandsIn(EpubDocText(zip[p]).text, q, t, k)
                BY <4>4
            <4>6. StandsIn(EpubDocText(zip[p]).text, q, s, k)
                BY <4>1, <4>2, <4>3, <4>5 DEF StandsIn
            <4>7. QED
                BY <4>6
        <3>2. CASE k > Len(t)
            <4>1. k \in Nat /\ k <= Len(s)
                BY <2>3
            <4>2. \E q \in Nat : StandsIn(chapter.text, q, s, k)
                BY <1>3, <2>1, <2>4, <3>2, <4>1, AddedRunes
            <4> HIDE DEF s
            <4>3. QED
                BY <2>1, <4>2
        <3>3. Len(t) \in Nat /\ k \in Nat
            BY <2>3
        <3>4. k <= Len(t) \/ k > Len(t)
            BY <3>3
        <3>5. QED
            BY <3>1, <3>2, <3>4
    <2>5. Len(s) > 0 => s[Len(s)] = NewLine
        BY <2>3
    <2>6. FromChapters(zip, s)
        <3> HIDE DEF s
        <3>1. QED
            BY <2>4, <2>5 DEF FromChapters
    <2>7. QED
        BY <2>2, <2>6
<1>4. QED
    BY <1>1, <1>2, <1>3

LEMMA BookFromChapters ==
    ASSUME NEW zip, Documents(zip), NEW opfPath \in DOMAIN zip
    PROVE  LET t == BookRounds(zip, opfPath)[Len(zip[opfPath])]
           IN  t \in Seq(Int) /\ FromChapters(zip, t)
<1> DEFINE opf == zip[opfPath]
           N == Len(opf)
           after == BookRounds(zip, opfPath)
           T == {m \in 0 .. N : FromChapters(zip, after[m])}
<1>1. N \in Nat
    BY TokenSeqs DEF Documents
<1>2. /\ after[0] = <<>>
      /\ \A n \in 1 .. N : after[n] = BookRound(zip, opfPath, after[n - 1], opf[n])
      /\ \A n \in 0 .. N : after[n] \in Seq(Int)
    BY BookLoop
<1> HIDE DEF after, N, opf
<1>3. 0 \in T
    <2>1. FromChapters(zip, <<>>)
        BY DEF FromChapters
    <2>2. QED
        BY <1>1, <1>2, <2>1
<1>4. ASSUME NEW m \in 0 .. N - 1, m \in T PROVE m + 1 \in T
    <2>1. m \in 0 .. N /\ m + 1 \in 1 .. N /\ m + 1 \in 0 .. N /\ m + 1 - 1 = m
        BY <1>1
    <2>2. after[m] \in Seq(Int) /\ after[m + 1] = BookRound(zip, opfPath, after[m], opf[m + 1])
        BY <1>2, <2>1
    <2>3. FromChapters(zip, after[m + 1])
        BY <1>4, <2>2, RoundFromChapters
    <2>4. QED
        BY <2>1, <2>3
<1>5. \A m \in 0 .. N : m \in T
    <2> HIDE DEF T
    <2>1. QED
        BY <1>1, <1>3, <1>4, Climb
<1>6. N \in 0 .. N
    BY <1>1
<1>7. after[N] \in Seq(Int) /\ FromChapters(zip, after[N])
    BY <1>2, <1>5, <1>6
<1>8. QED
    BY <1>7 DEF after, N, opf

(***************************************************************************)
(* The text of an EPUB.                                                    *)
(***************************************************************************)
LEMMA EpubText ==
    ASSUME NEW f \in Files, IsEpub(f)
    PROVE  /\ Documents(f.zip)
           /\ \/ Extract(f) = Error
              \/ /\ OpfOf(f) \in DOMAIN f.zip /\ OpfOf(f) \in Seq(Component)
                 /\ Extract(f) = Text(BookRounds(f.zip, OpfOf(f))[Len(f.zip[OpfOf(f)])])
                 /\ \A i \in DOMAIN f.zip[OpfOf(f)] :
                        Leads(f.zip, OpfOf(f), f.zip[OpfOf(f)][i]) =>
                            ~Chapter(f.zip, OpfOf(f), f.zip[OpfOf(f)][i]).err
<1>1. Documents(f.zip)
    BY FilesAreTokenized DEF Documents
<1>2. Extract(f) = ExtractEpubFiles(f.zip)
    BY DEF Extract, IsEpub
<1>3. RootFiles(f.zip[Container]) # {} => OpfOf(f) \in Seq(Component)
    <2> DEFINE container == f.zip[Container]
    <2>1. IsTokenized(container)
        BY <1>1 DEF Documents, IsEpub
    <2>2. Len(container) \in Nat /\ RootFiles(container) \in SUBSET (1 .. Len(container))
        BY <2>1, TokenSeqs DEF RootFiles
    <2> HIDE DEF container
    <2>3. RootFiles(container) # {} => Min(RootFiles(container)) \in RootFiles(container)
        BY <2>2, Extremes
    <2>4. QED
        BY <2>1, <2>3 DEF IsTokenized, OpfOf, container
<1>4. QED
    BY <1>1, <1>2, <1>3 DEF ExtractEpubFiles, OpfOf

LEMMA WordsStandInOneLine ==
    ASSUME NEW f \in Files, IsEpub(f),
           NEW k \in 1 .. Len(Extract(f).text) - 1,
           Extract(f).text[k] > 0, Extract(f).text[k + 1] > 0
    PROVE  \E p \in DOMAIN f.zip : \E i, j \in DOMAIN f.zip[p] :
               InOneLine(f.zip[p], i, j, Extract(f).text[k], Extract(f).text[k + 1])
<1> DEFINE t == Extract(f).text
<1>1. t # <<>>
    <2>1. SUFFICES ASSUME t = <<>> PROVE FALSE
        OBVIOUS
    <2>2. Len(t) = 0
        BY <2>1
    <2>3. QED
        BY <2>2
<1>2. /\ OpfOf(f) \in DOMAIN f.zip /\ Documents(f.zip)
      /\ t = BookRounds(f.zip, OpfOf(f))[Len(f.zip[OpfOf(f)])]
    BY <1>1, EpubText DEF Error, Text
<1>3. t \in Seq(Int) /\ FromChapters(f.zip, t)
    BY <1>2, BookFromChapters
<1>4. k \in 1 .. Len(t) /\ k < Len(t) /\ k \in Nat /\ t[k] # NewLine /\ t[k + 1] # NewLine
    BY <1>3 DEF NewLine
<1> HIDE DEF t
<1>5. PICK p \in DOMAIN f.zip : \E q \in Nat : StandsIn(EpubDocText(f.zip[p]).text, q, t, k)
    BY <1>3, <1>4 DEF FromChapters
<1> DEFINE tokens == f.zip[p]
           c == EpubDocText(tokens).text
<1>6. PICK q \in Nat : StandsIn(c, q, t, k)
    BY <1>5
<1>7. IsTokenized(tokens)
    BY <1>2 DEF Documents
<1> HIDE DEF tokens, c
<1>8. q \in 1 .. Len(c) /\ c[q] = t[k] /\ q < Len(c) /\ c[q + 1] = t[k + 1]
    BY <1>4, <1>6 DEF StandsIn
<1>9. c \in Seq(Int) /\ c = DocRounds(tokens)[Len(tokens)].text
    <2>1. c # <<>>
        <3>1. SUFFICES ASSUME c = <<>> PROVE FALSE
            OBVIOUS
        <3>2. Len(c) = 0
            BY <3>1
        <3>3. QED
            BY <1>8, <3>2
    <2>2. QED
        BY <1>7, <2>1, ChapterText DEF c
<1>10. Len(tokens) \in 0 .. Len(tokens) /\ DOMAIN tokens = 1 .. Len(tokens)
    BY <1>7, TokenSeqs
<1>11. Separated(tokens, Len(tokens), c)
    BY <1>7, <1>9, <1>10, DocSeparates
<1>12. q \in 1 .. Len(c) - 1
    BY <1>8, <1>9
<1>13. \E i, j \in 1 .. Len(tokens) : InOneLine(tokens, i, j, t[k], t[k + 1])
    BY <1>4, <1>8, <1>11, <1>12 DEF Separated
<1>14. QED
    BY <1>10, <1>13 DEF tokens, t

LEMMA MarkupIsRawText ==
    ASSUME NEW f \in Files, IsEpub(f), Raw \in Range(Extract(f).text)
    PROVE  \E p \in DOMAIN f.zip : \E i \in DOMAIN f.zip[p] : Leaks(f.zip[p], i)
<1> DEFINE t == Extract(f).text
<1>1. PICK k \in DOMAIN t : t[k] = Raw
    BY DEF Range
<1>2. t # <<>>
    <2>1. SUFFICES ASSUME t = <<>> PROVE FALSE
        OBVIOUS
    <2>2. DOMAIN t = {}
        BY <2>1
    <2>3. QED
        BY <1>1, <2>2
<1>3. /\ OpfOf(f) \in DOMAIN f.zip /\ Documents(f.zip)
      /\ t = BookRounds(f.zip, OpfOf(f))[Len(f.zip[OpfOf(f)])]
    BY <1>2, EpubText DEF Error, Text
<1>4. t \in Seq(Int) /\ FromChapters(f.zip, t)
    BY <1>3, BookFromChapters
<1>5. k \in 1 .. Len(t) /\ t[k] # NewLine
    BY <1>1, <1>4 DEF NewLine, Raw
<1> HIDE DEF t
<1>6. PICK p \in DOMAIN f.zip : \E q \in Nat : StandsIn(EpubDocText(f.zip[p]).text, q, t, k)
    BY <1>4, <1>5 DEF FromChapters
<1> DEFINE tokens == f.zip[p]
           c == EpubDocText(tokens).text
<1>7. PICK q \in Nat : StandsIn(c, q, t, k)
    BY <1>6
<1>8. IsTokenized(tokens)
    BY <1>3 DEF Documents
<1> HIDE DEF tokens, c
<1>9. q \in 1 .. Len(c) /\ c[q] = Raw
    BY <1>1, <1>7 DEF StandsIn
<1>10. c # <<>>
    <2>1. SUFFICES ASSUME c = <<>> PROVE FALSE
        OBVIOUS
    <2>2. Len(c) = 0
        BY <2>1
    <2>3. QED
        BY <1>9, <2>2
<1>11. c = DocRounds(tokens)[Len(tokens)].text
    BY <1>8, <1>10, ChapterText DEF c
<1>12. Len(tokens) \in 0 .. Len(tokens) /\ DOMAIN tokens = 1 .. Len(tokens)
    BY <1>8, TokenSeqs
<1>13. \E i \in 1 .. Len(tokens) : Leaks(tokens, i)
    BY <1>8, <1>9, <1>11, <1>12, DocLeaks
<1>14. QED
    BY <1>12, <1>13 DEF tokens

\* The file stays the file that was read.
LEMMA FileStays == DocSpec => [](file \in Files)
<1>1. DocInit => file \in Files
    BY DEF DocInit
<1>2. file \in Files /\ [DocNext]_docVars => (file \in Files)'
    BY DEF DocNext, docVars
<1>3. QED
    BY <1>1, <1>2, PTL DEF DocSpec

(***************************************************************************)
(* The words of a text.                                                    *)
(***************************************************************************)
WordStep(t, w, n) == IF t[n] > 0 THEN Append(w, t[n]) ELSE w

\* g[n] is the sequence of the words among the first n runes of t.
IsWordRun(g, t) == g[0] = <<>> /\ \A n \in 1 .. Len(t) : g[n] = WordStep(t, g[n - 1], n)

LEMMA WordsLoop ==
    ASSUME NEW t \in Seq(Int)
    PROVE  \E g : /\ IsWordRun(g, t) /\ Words(t) = g[Len(t)]
                  /\ \A n \in 0 .. Len(t) : g[n] \in Seq(Int)
<1> DEFINE N == Len(t)
           f == [m \in 1 .. N |-> [w \in Seq(Int) |-> WordStep(t, w, m)]]
           b == <<>>
           after == CHOOSE g : g = [m \in 0 .. N |->
                        IF m = 0 THEN <<>>
                        ELSE IF t[m] > 0 THEN Append(g[m - 1], t[m]) ELSE g[m - 1]]
<1>1. N \in Nat /\ \A m \in 1 .. N : t[m] \in Int
    OBVIOUS
<1>2. b \in Seq(Int)
    BY EmptySeq
<1>3. \A m \in 1 .. N, w \in Seq(Int) : WordStep(t, w, m) \in Seq(Int)
    BY <1>1 DEF WordStep
<1>4. f \in [1 .. N -> [Seq(Int) -> Seq(Int)]]
    BY <1>3
<1>5. PICK g \in [0 .. N -> Seq(Int)] : IsRun(g, N, b, f)
    <2> HIDE DEF N, f, b
    <2>1. QED
        BY <1>1, <1>2, <1>4, LoopRuns
<1>6. ASSUME NEW m \in 1 .. N PROVE g[m] = WordStep(t, g[m - 1], m)
    <2>1. m - 1 \in 0 .. N
        BY <1>1
    <2>2. f[m] = [w \in Seq(Int) |-> WordStep(t, w, m)]
        OBVIOUS
    <2> HIDE DEF f, N
    <2>3. g[m - 1] \in Seq(Int)
        BY <2>1
    <2>4. f[m][g[m - 1]] = WordStep(t, g[m - 1], m)
        BY <2>2, <2>3
    <2>5. QED
        BY <1>5, <2>4 DEF IsRun
<1>7. g[0] = <<>>
    BY <1>5 DEF IsRun
<1>8. g = [m \in 0 .. N |->
              IF m = 0 THEN <<>>
              ELSE IF t[m] > 0 THEN Append(g[m - 1], t[m]) ELSE g[m - 1]]
    <2>1. \A m \in 0 .. N : m # 0 => m \in 1 .. N
        BY <1>1
    <2> HIDE DEF N
    <2>2. \A m \in 0 .. N : g[m] =
              IF m = 0 THEN <<>>
              ELSE IF t[m] > 0 THEN Append(g[m - 1], t[m]) ELSE g[m - 1]
        BY <1>6, <1>7, <2>1 DEF WordStep
    <2>3. QED
        BY <2>2, Zenon
<1>9. after = [m \in 0 .. N |->
                  IF m = 0 THEN <<>>
                  ELSE IF t[m] > 0 THEN Append(after[m - 1], t[m]) ELSE after[m - 1]]
    BY <1>8
<1>10. Words(t) = after[N]
    BY DEF Words
<1> HIDE DEF after
<1>11. after[0] = <<>> /\ \A m \in 1 .. N : after[m] = WordStep(t, after[m - 1], m)
    <2>1. 0 \in 0 .. N /\ \A m \in 1 .. N : m \in 0 .. N /\ m # 0
        BY <1>1
    <2> HIDE DEF N
    <2>2. QED
        BY <1>9, <2>1 DEF WordStep
<1>12. \A m \in 0 .. N : after[m] \in Seq(Int)
    <2> DEFINE T == {m \in 0 .. N : after[m] \in Seq(Int)}
    <2>1. 0 \in T
        <3>1. 0 \in 0 .. N
            BY <1>1
        <3> HIDE DEF N
        <3>2. QED
            BY <1>2, <1>11, <3>1
    <2>2. ASSUME NEW m \in 0 .. N - 1, m \in T PROVE m + 1 \in T
        <3>1. m + 1 \in 1 .. N /\ m + 1 \in 0 .. N /\ m + 1 - 1 = m
            BY <1>1
        <3> HIDE DEF N
        <3>2. after[m + 1] = WordStep(t, after[m], m + 1)
            BY <1>11, <3>1
        <3>3. QED
            BY <1>3, <2>2, <3>1, <3>2
    <2>3. \A m \in 0 .. N : m \in T
        <3> HIDE DEF T, N
        <3>1. QED
            BY <1>1, <2>1, <2>2, Climb
    <2>4. QED
        BY <2>3
<1>13. QED
    BY <1>10, <1>11, <1>12 DEF IsWordRun

\* There is one such run.
LEMMA WordsAre ==
    ASSUME NEW t \in Seq(Int), NEW h, IsWordRun(h, t)
    PROVE  Words(t) = h[Len(t)]
<1> DEFINE N == Len(t)
<1>1. N \in Nat
    OBVIOUS
<1>2. PICK g : IsWordRun(g, t) /\ Words(t) = g[N]
    BY WordsLoop
<1> DEFINE T == {n \in 0 .. N : g[n] = h[n]}
<1>3. 0 \in T
    BY <1>1, <1>2 DEF IsWordRun
<1>4. ASSUME NEW m \in 0 .. N - 1, m \in T PROVE m + 1 \in T
    <2>1. m + 1 \in 1 .. N /\ m + 1 \in 0 .. N /\ m + 1 - 1 = m
        BY <1>1
    <2>2. g[m + 1] = WordStep(t, g[m], m + 1) /\ h[m + 1] = WordStep(t, h[m], m + 1)
        BY <1>2, <2>1 DEF IsWordRun
    <2>3. QED
        BY <1>4, <2>1, <2>2
<1>5. \A n \in 0 .. N : n \in T
    <2> HIDE DEF T, N
    <2>1. QED
        BY <1>1, <1>3, <1>4, Climb
<1>6. QED
    BY <1>1, <1>2, <1>5

LEMMA WordsType ==
    ASSUME NEW t \in Seq(Int)
    PROVE  Words(t) \in Seq(Int)
<1>1. PICK g : Words(t) = g[Len(t)] /\ \A n \in 0 .. Len(t) : g[n] \in Seq(Int)
    BY WordsLoop
<1>2. Len(t) \in 0 .. Len(t)
    OBVIOUS
<1>3. QED
    BY <1>1, <1>2

LEMMA WordsOfAppend ==
    ASSUME NEW t \in Seq(Int), NEW r \in Int
    PROVE  Words(Append(t, r)) = IF r > 0 THEN Append(Words(t), r) ELSE Words(t)
<1> DEFINE N == Len(t)
           u == Append(t, r)
<1>1. PICK g : IsWordRun(g, t) /\ Words(t) = g[N]
    BY WordsLoop
<1> DEFINE last == IF r > 0 THEN Append(g[N], r) ELSE g[N]
           h == [n \in 0 .. N + 1 |-> IF n = N + 1 THEN last ELSE g[n]]
<1>2. N \in Nat
    OBVIOUS
<1>3. u \in Seq(Int) /\ Len(u) = N + 1 /\ u[N + 1] = r /\ \A n \in 1 .. N : u[n] = t[n]
    BY AppendProperties
<1> HIDE DEF u, N
<1>4. h[N + 1] = last /\ \A n \in 0 .. N : h[n] = g[n]
    BY <1>2
<1> HIDE DEF h
<1>5. h[0] = <<>>
    BY <1>1, <1>2, <1>4 DEF IsWordRun
<1>6. ASSUME NEW n \in 1 .. N + 1 PROVE h[n] = WordStep(u, h[n - 1], n)
    <2>1. CASE n = N + 1
        <3>1. h[n - 1] = g[N]
            BY <1>2, <1>4, <2>1
        <3>2. QED
            BY <1>3, <1>4, <2>1, <3>1 DEF WordStep
    <2>2. CASE n # N + 1
        <3>1. n \in 1 .. N /\ n - 1 \in 0 .. N /\ n \in 0 .. N
            BY <1>2, <2>2
        <3>2. g[n] = WordStep(t, g[n - 1], n)
            BY <1>1, <3>1 DEF IsWordRun, N
        <3>3. QED
            BY <1>3, <1>4, <3>1, <3>2 DEF WordStep
    <2>3. QED
        BY <2>1, <2>2
<1>7. IsWordRun(h, u)
    BY <1>3, <1>5, <1>6 DEF IsWordRun
<1>8. Words(u) = h[Len(u)]
    BY <1>3, <1>7, WordsAre
<1>9. QED
    BY <1>1, <1>3, <1>4, <1>8 DEF u

LEMMA WordsOfBlank ==
    ASSUME NEW t \in Seq(Int), \A n \in 1 .. Len(t) : t[n] = NewLine
    PROVE  Words(t) = <<>>
<1> DEFINE h == [n \in 0 .. Len(t) |-> <<>>]
<1>1. Len(t) \in Nat /\ Len(t) \in 0 .. Len(t)
    OBVIOUS
<1>2. \A n \in 0 .. Len(t) : h[n] = <<>>
    OBVIOUS
<1> HIDE DEF h
<1>3. IsWordRun(h, t)
    BY <1>1, <1>2 DEF IsWordRun, WordStep, NewLine
<1>4. Words(t) = h[Len(t)]
    BY <1>3, WordsAre
<1>5. QED
    BY <1>1, <1>2, <1>4

LEMMA WordsOfEmpty == Words(<<>>) = <<>>
<1>1. <<>> \in Seq(Int)
    BY EmptySeq
<1>2. ASSUME NEW t \in Seq(Int), t = <<>> PROVE Words(t) = <<>>
    <2>1. 1 .. Len(t) = {}
        BY <1>2
    <2>2. QED
        BY <2>1, WordsOfBlank
<1>3. QED
    BY <1>1, <1>2

LEMMA AppendToConcat ==
    ASSUME NEW t \in Seq(Int), NEW v \in Seq(Int), NEW r \in Int
    PROVE  Append(t \o v, r) = t \o Append(v, r)
<1>1. t \o v \in Seq(Int) /\ Append(v, r) \in Seq(Int)
    OBVIOUS
<1>2. Append(t \o v, r) \in Seq(Int) /\ t \o Append(v, r) \in Seq(Int)
    BY <1>1, AppendProperties, ConcatProperties
<1>3. /\ Len(Append(t \o v, r)) = Len(t) + Len(v) + 1
      /\ Len(t \o Append(v, r)) = Len(t) + Len(v) + 1
    OBVIOUS
<1>4. \A i \in 1 .. Len(t) + Len(v) + 1 : Append(t \o v, r)[i] = (t \o Append(v, r))[i]
    OBVIOUS
<1>5. QED
    BY <1>2, <1>3, <1>4, SeqEqual

LEMMA WordsOfConcat ==
    ASSUME NEW t \in Seq(Int), NEW u \in Seq(Int)
    PROVE  Words(t \o u) = Words(t) \o Words(u)
<1> DEFINE N == Len(u)
           pre(k) == SubSeq(u, 1, k)
           T == {k \in 0 .. N : Words(t \o pre(k)) = Words(t) \o Words(pre(k))}
<1>1. N \in Nat /\ \A k \in 1 .. N : u[k] \in Int
    OBVIOUS
<1>2. \A k \in 0 .. N : pre(k) \in Seq(Int)
    <2>1. ASSUME NEW k \in 0 .. N PROVE pre(k) \in Seq(Int)
        <3>1. \A i \in 1 .. k : u[i] \in Int
            BY <1>1
        <3>2. k \in Int /\ 1 \in Int
            BY <1>1
        <3>3. QED
            BY <3>1, <3>2, SubSeqProperties
    <2>2. QED
        BY <2>1
<1>3. 0 \in T
    <2>1. pre(0) = <<>>
        BY SubSeqEmpty
    <2>2. t \o <<>> = t /\ Words(t) \o <<>> = Words(t)
        BY WordsType, ConcatEmptySeq
    <2>3. 0 \in 0 .. N
        BY <1>1
    <2> HIDE DEF pre, N
    <2>4. QED
        BY <2>1, <2>2, <2>3, WordsOfEmpty
<1>4. ASSUME NEW k \in 0 .. N - 1, k \in T PROVE k + 1 \in T
    <2>1. k \in 0 .. N /\ k + 1 \in 0 .. N /\ k + 1 \in 1 .. N /\ k + 1 - 1 = k
        BY <1>1
    <2> DEFINE v == pre(k)
               r == u[k + 1]
    <2>2. v \in Seq(Int) /\ r \in Int
        BY <1>1, <1>2, <2>1
    <2>3. pre(k + 1) = Append(v, r)
        <3>1. 1 \in 1 .. Len(u) /\ k + 1 \in 1 .. Len(u)
            BY <1>1, <2>1
        <3>2. pre(k + 1) = SubSeq(u, 1, k + 1 - 1) \o <<u[k + 1]>>
            BY <3>1, SubSeqRecursiveSecond
        <3>3. pre(k + 1) = v \o <<r>>
            BY <2>1, <3>2
        <3> HIDE DEF v, r, pre
        <3>4. QED
            BY <2>2, <3>3, AppendIsConcat
    <2>4. Words(t \o v) = Words(t) \o Words(v)
        BY <1>4
    <2> HIDE DEF v, r, pre, N
    <2>5. t \o Append(v, r) = Append(t \o v, r)
        BY <2>2, AppendToConcat
    <2>6. t \o v \in Seq(Int)
        BY <2>2, ConcatProperties
    <2>7. Words(t) \in Seq(Int) /\ Words(v) \in Seq(Int)
        BY <2>2, WordsType
    <2>8. Words(Append(t \o v, r)) = Words(t) \o Words(Append(v, r))
        <3>1. CASE r > 0
            <4>1. Words(Append(t \o v, r)) = Append(Words(t) \o Words(v), r)
                BY <2>2, <2>4, <2>6, <3>1, WordsOfAppend
            <4>2. Words(Append(v, r)) = Append(Words(v), r)
                BY <2>2, <3>1, WordsOfAppend
            <4>3. Append(Words(t) \o Words(v), r) = Words(t) \o Append(Words(v), r)
                BY <2>2, <2>7, AppendToConcat
            <4>4. QED
                BY <4>1, <4>2, <4>3
        <3>2. CASE ~(r > 0)
            BY <2>2, <2>4, <2>6, <3>2, WordsOfAppend
        <3>3. QED
            BY <3>1, <3>2
    <2>9. QED
        BY <2>1, <2>3, <2>5, <2>8
<1>5. \A k \in 0 .. N : k \in T
    <2> HIDE DEF T, N
    <2>1. QED
        BY <1>1, <1>3, <1>4, Climb
<1>6. N \in T
    BY <1>1, <1>5
<1>7. pre(N) = u
    BY SubSeqFull
<1>8. QED
    BY <1>6, <1>7

\* TrimSpace takes no word.
LEMMA WordsOfTrim ==
    ASSUME NEW t \in Seq(Int)
    PROVE  Words(Trim(t)) = Words(t)
<1> DEFINE N == Len(t)
<1>1. N \in Nat /\ \A i \in 1 .. N : t[i] \in Int
    OBVIOUS
<1>2. CASE Trim(t) = <<>> /\ \A i \in 1 .. N : t[i] = NewLine
    BY <1>2, WordsOfBlank, WordsOfEmpty
<1>3. ASSUME NEW a \in 1 .. N, NEW b \in 1 .. N, a <= b, Trim(t) = SubSeq(t, a, b),
             \A i \in 1 .. N : i < a \/ b < i => t[i] = NewLine
      PROVE  Words(Trim(t)) = Words(t)
    <2> DEFINE x == SubSeq(t, 1, a - 1)
               y == SubSeq(t, a, b)
               z == SubSeq(t, b + 1, N)
               xy == SubSeq(t, 1, b)
    <2>1. ASSUME NEW m \in 1 .. N + 1, NEW n \in 0 .. N
          PROVE  /\ SubSeq(t, m, n) \in Seq(Int)
                 /\ Len(SubSeq(t, m, n)) = IF m <= n THEN n - m + 1 ELSE 0
                 /\ \A i \in 1 .. n - m + 1 : SubSeq(t, m, n)[i] = t[m + i - 1]
        <3>1. m \in Int /\ n \in Int /\ \A i \in m .. n : t[i] \in Int
            BY <1>1
        <3>2. QED
            BY <3>1, SubSeqProperties
    <2>2. /\ 1 \in 1 .. N + 1 /\ a \in 1 .. N + 1 /\ b + 1 \in 1 .. N + 1
          /\ a - 1 \in 0 .. N /\ b \in 0 .. N /\ N \in 0 .. N
        BY <1>1
    <2>3. x \in Seq(Int) /\ y \in Seq(Int) /\ z \in Seq(Int) /\ xy \in Seq(Int)
        BY <2>1, <2>2
    <2>4. xy = x \o y
        <3>1. a - 1 \in 1 - 1 .. Len(t) /\ b \in a - 1 .. Len(t) /\ 1 \in 1 .. Len(t) + 1
            BY <1>1, <1>3
        <3>2. SubSeq(t, 1, a - 1) \o SubSeq(t, a - 1 + 1, b) = SubSeq(t, 1, b)
            BY <3>1, ConcatAdjacentSubSeq
        <3>3. a - 1 + 1 = a
            OBVIOUS
        <3>4. QED
            BY <3>2, <3>3
    <2>5. t = xy \o z
        <3>1. b \in 1 - 1 .. Len(t) /\ N \in b .. Len(t) /\ 1 \in 1 .. Len(t) + 1
            BY <1>1
        <3>2. SubSeq(t, 1, b) \o SubSeq(t, b + 1, N) = SubSeq(t, 1, N)
            BY <3>1, ConcatAdjacentSubSeq
        <3>3. SubSeq(t, 1, N) = t
            BY SubSeqFull
        <3>4. QED
            BY <3>2, <3>3
    <2>6. Words(x) = <<>>
        <3>1. ASSUME NEW i \in 1 .. Len(x) PROVE x[i] = NewLine
            <4>1. Len(x) = IF 1 <= a - 1 THEN a - 1 - 1 + 1 ELSE 0
                BY <2>1, <2>2
            <4>2. i \in 1 .. a - 1 - 1 + 1 /\ 1 + i - 1 = i /\ i \in 1 .. N /\ i < a
                BY <1>1, <4>1
            <4>3. x[i] = t[1 + i - 1]
                BY <2>1, <2>2, <4>2
            <4>4. QED
                BY <1>3, <4>2, <4>3
        <3> HIDE DEF x
        <3>2. QED
            BY <2>3, <3>1, WordsOfBlank
    <2>7. Words(z) = <<>>
        <3>1. ASSUME NEW i \in 1 .. Len(z) PROVE z[i] = NewLine
            <4>1. Len(z) = IF b + 1 <= N THEN N - (b + 1) + 1 ELSE 0
                BY <2>1, <2>2
            <4>2. i \in 1 .. N - (b + 1) + 1 /\ b + 1 + i - 1 \in 1 .. N /\ b < b + 1 + i - 1
                BY <1>1, <4>1
            <4>3. z[i] = t[b + 1 + i - 1]
                BY <2>1, <2>2, <4>2
            <4>4. QED
                BY <1>3, <4>2, <4>3
        <3> HIDE DEF z
        <3>2. QED
            BY <2>3, <3>1, WordsOfBlank
    <2> HIDE DEF x, z, xy
    <2>8. Words(t) = Words(xy) \o <<>> /\ Words(xy) = <<>> \o Words(y)
        <3>1. Words(xy \o z) = Words(xy) \o Words(z)
            BY <2>3, WordsOfConcat
        <3>2. Words(x \o y) = Words(x) \o Words(y)
            BY <2>3, WordsOfConcat
        <3>3. QED
            BY <2>4, <2>5, <2>6, <2>7, <3>1, <3>2, Zenon
    <2>9. Words(xy) \in Seq(Int) /\ Words(y) \in Seq(Int)
        BY <2>3, WordsType
    <2>10. Words(t) = Words(y)
        BY <2>8, <2>9, ConcatEmptySeq
    <2>11. QED
        BY <1>3, <2>10
<1>4. QED
    BY <1>2, <1>3, TrimShape

LEMMA WordsOfAddChapter ==
    ASSUME NEW t \in Seq(Int), NEW chapter, chapter.text \in Seq(Int)
    PROVE  Words(AddChapter(t, chapter)) = Words(t) \o Words(chapter.text)
<1> DEFINE c == chapter.text
           u == Trim(c)
           e == <<NewLine, NewLine>>
<1>1. u \in Seq(Int)
    BY TrimKeepsNeighbours
<1>2. Words(u) = Words(c)
    BY WordsOfTrim
<1>3. e \in Seq(Int) /\ Words(e) = <<>>
    <2>1. e \in Seq(Int) /\ Len(e) = 2 /\ e[1] = NewLine /\ e[2] = NewLine
        BY DEF NewLine
    <2>2. \A n \in 1 .. Len(e) : e[n] = NewLine
        BY <2>1
    <2> HIDE DEF e
    <2>3. QED
        BY <2>1, <2>2, WordsOfBlank
<1>4. Words(t) \in Seq(Int)
    BY WordsType
<1>5. CASE u = <<>>
    <2>1. AddChapter(t, chapter) = t
        BY <1>5 DEF AddChapter
    <2>2. Words(c) = <<>>
        BY <1>2, <1>5, WordsOfEmpty
    <2>3. QED
        BY <1>4, <2>1, <2>2, ConcatEmptySeq
<1>6. CASE u # <<>>
    <2>1. AddChapter(t, chapter) = (t \o u) \o e
        BY <1>6 DEF AddChapter
    <2> HIDE DEF u, e, c
    <2>2. t \o u \in Seq(Int)
        BY <1>1, ConcatProperties
    <2>3. Words((t \o u) \o e) = Words(t \o u) \o <<>>
        BY <1>3, <2>2, WordsOfConcat
    <2>4. Words(t \o u) \in Seq(Int)
        BY <2>2, WordsType
    <2>5. Words((t \o u) \o e) = Words(t \o u)
        BY <2>3, <2>4, ConcatEmptySeq
    <2>6. Words(t \o u) = Words(t) \o Words(u)
        BY <1>1, WordsOfConcat
    <2>7. QED
        BY <1>2, <2>1, <2>5, <2>6 DEF c
<1>7. QED
    BY <1>5, <1>6

(***************************************************************************)
(* skipDepth is the largest surplus of opened over closed script and style *)
(* elements in a stretch of tokens that ends with the last one read.       *)
(***************************************************************************)
Surplus(tokens, j, n) == TagsIn(tokens, "start", j, n) - TagsIn(tokens, "end", j, n)

IsLargestSurplus(tokens, n, d) ==
    /\ \A j \in 1 .. n + 1 : Surplus(tokens, j, n) <= d
    /\ \E j \in 1 .. n + 1 : Surplus(tokens, j, n) = d

LEMMA TagsInStep ==
    ASSUME NEW tokens, NEW kind, NEW n \in Nat, NEW j \in 1 .. n + 1
    PROVE  /\ TagsIn(tokens, kind, j, n) \in Nat
           /\ TagsIn(tokens, kind, j, n + 1) =
                  TagsIn(tokens, kind, j, n) +
                  IF tokens[n + 1].kind = kind /\ tokens[n + 1].tag \in SkippedTags THEN 1 ELSE 0
<1> DEFINE Counted(m) == {k \in j .. m : tokens[k].kind = kind /\ tokens[k].tag \in SkippedTags}
<1>1. IsFiniteSet(Counted(n))
    <2>1. IsFiniteSet(j .. n)
        BY FS_Interval
    <2>2. Counted(n) \in SUBSET (j .. n)
        OBVIOUS
    <2> HIDE DEF Counted
    <2>3. QED
        BY <2>1, <2>2, FS_Subset
<1>2. Cardinality(Counted(n)) \in Nat
    BY <1>1, FS_CardinalityType
<1>3. j .. n + 1 = (j .. n) \cup {n + 1} /\ n + 1 \notin j .. n
    OBVIOUS
<1>4. CASE tokens[n + 1].kind = kind /\ tokens[n + 1].tag \in SkippedTags
    <2>1. Counted(n + 1) = Counted(n) \cup {n + 1} /\ n + 1 \notin Counted(n)
        BY <1>3, <1>4
    <2>2. Cardinality(Counted(n) \cup {n + 1}) = Cardinality(Counted(n)) + 1
        <3> HIDE DEF Counted
        <3>1. QED
            BY <1>1, <2>1, FS_AddElement
    <2>3. QED
        BY <1>2, <1>4, <2>1, <2>2 DEF TagsIn
<1>5. CASE ~(tokens[n + 1].kind = kind /\ tokens[n + 1].tag \in SkippedTags)
    <2>1. Counted(n + 1) = Counted(n)
        BY <1>3, <1>5
    <2>2. Cardinality(Counted(n + 1)) = Cardinality(Counted(n)) + 0
        <3> HIDE DEF Counted
        <3>1. QED
            BY <1>2, <2>1
    <2>3. QED
        BY <1>2, <1>5, <2>2 DEF TagsIn
<1>6. QED
    BY <1>4, <1>5

LEMMA SurplusStep ==
    ASSUME NEW tokens, NEW n \in Nat, NEW j \in 1 .. n + 1
    PROVE  /\ Surplus(tokens, j, n) \in Int
           /\ Surplus(tokens, j, n + 1) =
                  Surplus(tokens, j, n) +
                  (IF tokens[n + 1].tag \notin SkippedTags THEN 0
                   ELSE IF tokens[n + 1].kind = "start" THEN 1
                   ELSE IF tokens[n + 1].kind = "end" THEN -1 ELSE 0)
<1>1. /\ TagsIn(tokens, "start", j, n) \in Nat
      /\ TagsIn(tokens, "start", j, n + 1) =
             TagsIn(tokens, "start", j, n) +
             IF tokens[n + 1].kind = "start" /\ tokens[n + 1].tag \in SkippedTags THEN 1 ELSE 0
    BY TagsInStep
<1>2. /\ TagsIn(tokens, "end", j, n) \in Nat
      /\ TagsIn(tokens, "end", j, n + 1) =
             TagsIn(tokens, "end", j, n) +
             IF tokens[n + 1].kind = "end" /\ tokens[n + 1].tag \in SkippedTags THEN 1 ELSE 0
    BY TagsInStep
<1>3. QED
    BY <1>1, <1>2 DEF Surplus

LEMMA SurplusOfNone ==
    ASSUME NEW tokens, NEW n \in Nat
    PROVE  Surplus(tokens, n + 1, n) = 0
<1>1. n + 1 .. n = {}
    OBVIOUS
<1>2. \A kind : {k \in n + 1 .. n : tokens[k].kind = kind /\ tokens[k].tag \in SkippedTags} = {}
    BY <1>1
<1>3. \A kind : TagsIn(tokens, kind, n + 1, n) = 0
    BY <1>2, FS_EmptySet DEF TagsIn
<1>4. QED
    BY <1>3 DEF Surplus

LEMMA DepthStep ==
    ASSUME NEW tokens, NEW n \in Nat, NEW state \in DocStates,
           tokens[n + 1].kind = "text" => tokens[n + 1].rune \in Int,
           IsLargestSurplus(tokens, n, state.skipDepth)
    PROVE  \/ /\ tokens[n + 1].kind = "text"
              /\ \A j \in 1 .. n + 1 : Surplus(tokens, j, n + 1) = Surplus(tokens, j, n)
              /\ IsLargestSurplus(tokens, n + 1, ApplyToken(state, tokens[n + 1]).skipDepth)
           \/ /\ tokens[n + 1].kind # "text"
              /\ IsLargestSurplus(tokens, n + 1, ApplyToken(state, tokens[n + 1]).skipDepth)
<1> DEFINE token == tokens[n + 1]
           d == state.skipDepth
           e == ApplyToken(state, token).skipDepth
           change == IF token.tag \notin SkippedTags THEN 0
                     ELSE IF token.kind = "start" THEN 1
                     ELSE IF token.kind = "end" THEN -1 ELSE 0
<1>1. d \in Nat
    BY DEF DocStates
<1>2. \A j \in 1 .. n + 1 :
          Surplus(tokens, j, n) \in Int /\ Surplus(tokens, j, n + 1) = Surplus(tokens, j, n) + change
    BY SurplusStep
<1>3. Surplus(tokens, n + 2, n + 1) = 0
    <2>1. n + 1 + 1 = n + 2 /\ n + 1 \in Nat
        OBVIOUS
    <2>2. QED
        BY <2>1, SurplusOfNone
<1>4. \A j \in 1 .. n + 1 : Surplus(tokens, j, n) <= d
    BY DEF IsLargestSurplus
<1>5. PICK top \in 1 .. n + 1 : Surplus(tokens, top, n) = d
    BY DEF IsLargestSurplus
<1>6. token.kind = "text" => change = 0
    OBVIOUS
<1>7. \/ change = 0 /\ e = d
      \/ change = 1 /\ e = d + 1
      \/ change = -1 /\ d > 0 /\ e = d - 1
      \/ change = -1 /\ d = 0 /\ e = 0
    <2>1. CASE /\ token.kind # "text" /\ token.tag \notin BlockBreakTags
               /\ token.tag \in SkippedTags /\ e = NewDepth(token.kind, d)
        BY <1>1, <2>1 DEF NewDepth
    <2>2. CASE token.kind = "text" /\ e = d
        BY <2>2
    <2>3. CASE token.tag \in BlockBreakTags /\ e = d
        BY <2>3 DEF BlockBreakTags, SkippedTags
    <2>4. CASE token.kind # "text" /\ token.tag \notin SkippedTags /\ e = d
        BY <2>4
    <2> HIDE DEF change
    <2>5. QED
        BY <2>1, <2>2, <2>3, <2>4, TokenEffect
<1> HIDE DEF change, d, e, token
<1>8. \A j \in 1 .. n + 1 + 1 : j \in 1 .. n + 1 \/ j = n + 2
    OBVIOUS
<1>9. top \in 1 .. n + 1 + 1 /\ n + 2 \in 1 .. n + 1 + 1
    OBVIOUS
<1>10. IsLargestSurplus(tokens, n + 1, e)
    <2>1. CASE change = 0 /\ e = d
        BY <1>1, <1>2, <1>3, <1>4, <1>5, <1>8, <1>9, <2>1 DEF IsLargestSurplus
    <2>2. CASE change = 1 /\ e = d + 1
        BY <1>1, <1>2, <1>3, <1>4, <1>5, <1>8, <1>9, <2>2 DEF IsLargestSurplus
    <2>3. CASE change = -1 /\ d > 0 /\ e = d - 1
        BY <1>1, <1>2, <1>3, <1>4, <1>5, <1>8, <1>9, <2>3 DEF IsLargestSurplus
    <2>4. CASE change = -1 /\ d = 0 /\ e = 0
        BY <1>1, <1>2, <1>3, <1>4, <1>5, <1>8, <1>9, <2>4 DEF IsLargestSurplus
    <2>5. QED
        BY <1>7, <2>1, <2>2, <2>3, <2>4
<1>11. token.kind = "text" =>
           \A j \in 1 .. n + 1 : Surplus(tokens, j, n + 1) = Surplus(tokens, j, n)
    BY <1>2, <1>6
<1>12. QED
    BY <1>10, <1>11 DEF e, token

LEMMA DocDepth ==
    ASSUME NEW tokens, IsTokenized(tokens), NEW n \in 0 .. Len(tokens)
    PROVE  IsLargestSurplus(tokens, n, DocRounds(tokens)[n].skipDepth)
<1> DEFINE N == Len(tokens)
           T == {m \in 0 .. N : IsLargestSurplus(tokens, m, DocRounds(tokens)[m].skipDepth)}
<1>1. N \in Nat /\ \A i \in 1 .. N : tokens[i].kind = "text" => tokens[i].rune \in Int
    BY TokenSeqs
<1>2. 0 \in T
    <2>1. DocRounds(tokens)[0].skipDepth = 0
        BY DocLoop
    <2>2. Surplus(tokens, 0 + 1, 0) = 0
        BY SurplusOfNone
    <2>3. \A j \in 1 .. 0 + 1 : j = 0 + 1
        OBVIOUS
    <2>4. IsLargestSurplus(tokens, 0, 0)
        BY <2>2, <2>3 DEF IsLargestSurplus
    <2>5. QED
        BY <1>1, <2>1, <2>4
<1>3. ASSUME NEW m \in 0 .. N - 1, m \in T PROVE m + 1 \in T
    <2>1. m \in Nat /\ m + 1 \in 1 .. N /\ m + 1 \in 0 .. N /\ m \in 0 .. N /\ m + 1 - 1 = m
        BY <1>1
    <2>2. /\ DocRounds(tokens)[m] \in DocStates
          /\ DocRounds(tokens)[m + 1] = ApplyToken(DocRounds(tokens)[m], tokens[m + 1])
        BY <2>1, DocLoop
    <2>3. IsLargestSurplus(tokens, m + 1, DocRounds(tokens)[m + 1].skipDepth)
        BY <1>1, <1>3, <2>1, <2>2, DepthStep
    <2>4. QED
        BY <2>1, <2>3
<1>4. \A m \in 0 .. N : m \in T
    <2> HIDE DEF T, N
    <2>1. QED
        BY <1>1, <1>2, <1>3, Climb
<1>5. QED
    BY <1>4

\* A text token is hidden from the reader if and only if the loop skips it.
LEMMA HiddenIsSkipped ==
    ASSUME NEW tokens, IsTokenized(tokens), NEW i \in 1 .. Len(tokens),
           tokens[i].kind = "text"
    PROVE  Hidden(tokens, i) <=> DocRounds(tokens)[i - 1].skipDepth # 0
<1> DEFINE n == i - 1
           d == DocRounds(tokens)[n].skipDepth
<1>1. Len(tokens) \in Nat
    BY TokenSeqs
<1>2. n \in 0 .. Len(tokens) /\ n \in Nat /\ n + 1 = i
    BY <1>1
<1>3. IsLargestSurplus(tokens, n, d) /\ d \in Nat
    BY <1>2, DocDepth, DocLoop DEF DocStates
<1> HIDE DEF n, d
<1>4. ASSUME NEW j \in 1 .. i
      PROVE  (TagsIn(tokens, "start", j, i) > TagsIn(tokens, "end", j, i)) <=>
                 Surplus(tokens, j, n) > 0
    <2>1. j \in 1 .. n + 1
        BY <1>2
    <2>2. /\ TagsIn(tokens, "start", j, i) = TagsIn(tokens, "start", j, n) + 0
          /\ TagsIn(tokens, "end", j, i) = TagsIn(tokens, "end", j, n) + 0
        BY <1>2, <2>1, TagsInStep
    <2>3. TagsIn(tokens, "start", j, n) \in Nat /\ TagsIn(tokens, "end", j, n) \in Nat
        BY <1>2, <2>1, TagsInStep
    <2>4. QED
        BY <2>2, <2>3 DEF Surplus
<1>5. Hidden(tokens, i) <=> \E j \in 1 .. n + 1 : Surplus(tokens, j, n) > 0
    BY <1>2, <1>4 DEF Hidden
<1>6. \A j \in 1 .. n + 1 : Surplus(tokens, j, n) \in Int
    BY <1>2, SurplusStep
<1>7. (\E j \in 1 .. n + 1 : Surplus(tokens, j, n) > 0) <=> d # 0
    BY <1>3, <1>6 DEF IsLargestSurplus
<1>8. QED
    BY <1>5, <1>7 DEF n, d

(***************************************************************************)
(* The words of a document.                                                *)
(***************************************************************************)
LEMMA DocWords ==
    ASSUME NEW tokens, IsTokenized(tokens)
    PROVE  Words(DocRounds(tokens)[Len(tokens)].text) = VisibleWords(tokens)
<1> DEFINE N == Len(tokens)
           marked == [i \in 1 .. N |-> IF i \in Visible(tokens) THEN tokens[i].rune ELSE NewLine]
           text(m) == DocRounds(tokens)[m].text
<1>1. /\ N \in Nat /\ DOMAIN tokens = 1 .. N
      /\ \A i \in 1 .. N : tokens[i].kind = "text" => tokens[i].rune \in Int
    BY TokenSeqs
<1>2. /\ marked \in Seq(Int) /\ Len(marked) = N
      /\ \A i \in 1 .. N : marked[i] = IF i \in Visible(tokens) THEN tokens[i].rune ELSE NewLine
    <2>1. \A i \in 1 .. N : (IF i \in Visible(tokens) THEN tokens[i].rune ELSE NewLine) \in Int
        BY <1>1 DEF Visible, NewLine
    <2> HIDE DEF N
    <2>2. QED
        BY <1>1, <2>1
<1>3. VisibleWords(tokens) = Words(marked)
    BY DEF VisibleWords
<1> HIDE DEF marked
<1>4. PICK g : IsWordRun(g, marked) /\ Words(marked) = g[N]
    BY <1>2, WordsLoop
<1> DEFINE T == {m \in 0 .. N : Words(text(m)) = g[m]}
<1>5. 0 \in T
    <2>1. text(0) = <<>>
        BY DocLoop
    <2>2. g[0] = <<>>
        BY <1>4 DEF IsWordRun
    <2>3. 0 \in 0 .. N
        BY <1>1
    <2> HIDE DEF text, N
    <2>4. QED
        BY <2>1, <2>2, <2>3, WordsOfEmpty
<1>6. ASSUME NEW m \in 0 .. N - 1, m \in T PROVE m + 1 \in T
    <2>1. m \in Nat /\ m + 1 \in 1 .. N /\ m + 1 \in 0 .. N /\ m \in 0 .. N /\ m + 1 - 1 = m
        BY <1>1
    <2>2. /\ DocRounds(tokens)[m] \in DocStates
          /\ DocRounds(tokens)[m + 1] = ApplyToken(DocRounds(tokens)[m], tokens[m + 1])
        BY <2>1, DocLoop
    <2> DEFINE token == tokens[m + 1]
               skipped == DocRounds(tokens)[m].skipDepth # 0
    <2>3. text(m) \in Seq(Int) /\ Words(text(m)) = g[m]
        BY <1>6, <2>2 DEF DocStates
    <2>4. token.kind = "text" => token.rune \in Int
        BY <1>1, <2>1
    <2>5. \/ token.kind = "text" /\ ~skipped /\ text(m + 1) = Append(text(m), token.rune)
          \/ token.kind # "text" /\ text(m + 1) = Append(text(m), NewLine)
          \/ (token.kind = "text" => skipped) /\ text(m + 1) = text(m)
        <3> HIDE DEF token
        <3>1. QED
            BY <2>2, <2>4, TokenEffect DEF token
    <2>6. m + 1 \in Visible(tokens) <=> token.kind = "text" /\ ~skipped
        BY <1>1, <2>1, HiddenIsSkipped DEF Visible
    <2>7. marked[m + 1] = IF m + 1 \in Visible(tokens) THEN token.rune ELSE NewLine
        BY <1>2, <2>1
    <2>8. g[m + 1] = WordStep(marked, g[m], m + 1)
        BY <1>2, <1>4, <2>1 DEF IsWordRun
    <2> HIDE DEF text, token, skipped, N
    <2>9. Words(text(m + 1)) = g[m + 1]
        <3>1. CASE token.kind = "text" /\ ~skipped /\ text(m + 1) = Append(text(m), token.rune)
            <4>1. marked[m + 1] = token.rune
                BY <2>6, <2>7, <3>1
            <4>2. Words(text(m + 1)) =
                      IF token.rune > 0 THEN Append(Words(text(m)), token.rune) ELSE Words(text(m))
                BY <2>3, <2>4, <3>1, WordsOfAppend
            <4>3. QED
                BY <2>3, <2>8, <4>1, <4>2 DEF WordStep
        <3>2. CASE token.kind # "text" /\ text(m + 1) = Append(text(m), NewLine)
            <4>1. marked[m + 1] = NewLine
                BY <2>6, <2>7, <3>2
            <4>2. Words(text(m + 1)) =
                      IF NewLine > 0 THEN Append(Words(text(m)), NewLine) ELSE Words(text(m))
                <5>1. NewLine \in Int
                    BY DEF NewLine
                <5>2. QED
                    BY <2>3, <3>2, <5>1, WordsOfAppend
            <4>3. QED
                BY <2>3, <2>8, <4>1, <4>2 DEF WordStep
        <3>3. CASE (token.kind = "text" => skipped) /\ text(m + 1) = text(m)
            <4>1. marked[m + 1] = NewLine
                BY <2>6, <2>7, <3>3
            <4>2. QED
                BY <2>3, <2>8, <3>3, <4>1 DEF WordStep, NewLine
        <3>4. QED
            BY <2>5, <3>1, <3>2, <3>3
    <2>10. QED
        BY <2>1, <2>9
<1>7. \A m \in 0 .. N : m \in T
    <2> HIDE DEF T, N
    <2>1. QED
        BY <1>1, <1>5, <1>6, Climb
<1>8. N \in T
    BY <1>1, <1>7
<1>9. QED
    BY <1>3, <1>4, <1>8

(***************************************************************************)
(* The path of a document: path.Join ends where the href leads.            *)
(***************************************************************************)
LEMMA CountStep ==
    ASSUME NEW n \in Nat, NEW S
    PROVE  /\ Cardinality((1 .. n) \cap S) \in Nat
           /\ Cardinality((1 .. n + 1) \cap S) =
                  Cardinality((1 .. n) \cap S) + IF n + 1 \in S THEN 1 ELSE 0
<1> DEFINE Counted(m) == (1 .. m) \cap S
<1>1. IsFiniteSet(Counted(n))
    <2>1. IsFiniteSet(1 .. n)
        BY FS_Interval
    <2>2. Counted(n) \in SUBSET (1 .. n)
        OBVIOUS
    <2> HIDE DEF Counted
    <2>3. QED
        BY <2>1, <2>2, FS_Subset
<1>2. Cardinality(Counted(n)) \in Nat
    BY <1>1, FS_CardinalityType
<1>3. 1 .. n + 1 = (1 .. n) \cup {n + 1} /\ n + 1 \notin 1 .. n
    OBVIOUS
<1>4. CASE n + 1 \in S
    <2>1. Counted(n + 1) = Counted(n) \cup {n + 1} /\ n + 1 \notin Counted(n)
        BY <1>3, <1>4
    <2>2. Cardinality(Counted(n) \cup {n + 1}) = Cardinality(Counted(n)) + 1
        <3> HIDE DEF Counted
        <3>1. QED
            BY <1>1, <2>1, FS_AddElement
    <2>3. QED
        BY <1>2, <1>4, <2>1, <2>2
<1>5. CASE n + 1 \notin S
    <2>1. Counted(n + 1) = Counted(n)
        BY <1>3, <1>5
    <2>2. Cardinality(Counted(n + 1)) = Cardinality(Counted(n)) + 0
        <3> HIDE DEF Counted
        <3>1. QED
            BY <1>2, <2>1
    <2>3. QED
        BY <1>2, <1>5, <2>2
<1>6. QED
    BY <1>4, <1>5

LEMMA LevelStep ==
    ASSUME NEW path, NEW n \in Nat
    PROVE  /\ Level(path, n) \in Int
           /\ Level(path, n + 1) =
                  Level(path, n) + (IF IsName(path[n + 1]) THEN 1
                                    ELSE IF path[n + 1] = ".." THEN -1 ELSE 0)
<1> DEFINE Names == {k \in 1 .. n + 1 : IsName(path[k])}
           Ups == {k \in 1 .. n + 1 : path[k] = ".."}
<1>1. \A m \in n .. n + 1 :
          /\ (1 .. m) \cap Names = {k \in 1 .. m : IsName(path[k])}
          /\ (1 .. m) \cap Ups = {k \in 1 .. m : path[k] = ".."}
    OBVIOUS
<1>2. \A m \in n .. n + 1 :
          Level(path, m) = Cardinality((1 .. m) \cap Names) - Cardinality((1 .. m) \cap Ups)
    BY <1>1 DEF Level
<1>3. /\ n + 1 \in Names <=> IsName(path[n + 1])
      /\ n + 1 \in Ups <=> path[n + 1] = ".."
    OBVIOUS
<1>4. ~(IsName(path[n + 1]) /\ path[n + 1] = "..")
    BY DEF IsName
<1> HIDE DEF Names, Ups
<1>5. /\ Cardinality((1 .. n) \cap Names) \in Nat
      /\ Cardinality((1 .. n + 1) \cap Names) =
             Cardinality((1 .. n) \cap Names) + IF n + 1 \in Names THEN 1 ELSE 0
    BY CountStep
<1>6. /\ Cardinality((1 .. n) \cap Ups) \in Nat
      /\ Cardinality((1 .. n + 1) \cap Ups) =
             Cardinality((1 .. n) \cap Ups) + IF n + 1 \in Ups THEN 1 ELSE 0
    BY CountStep
<1>7. n \in n .. n + 1 /\ n + 1 \in n .. n + 1
    OBVIOUS
<1>8. /\ Level(path, n) = Cardinality((1 .. n) \cap Names) - Cardinality((1 .. n) \cap Ups)
      /\ Level(path, n + 1) =
             Cardinality((1 .. n + 1) \cap Names) - Cardinality((1 .. n + 1) \cap Ups)
    BY <1>2, <1>7
<1>9. QED
    BY <1>3, <1>4, <1>5, <1>6, <1>8

LEMMA LevelOfNone ==
    ASSUME NEW path
    PROVE  Level(path, 0) = 0
<1>1. /\ {k \in 1 .. 0 : IsName(path[k])} = {}
      /\ {k \in 1 .. 0 : path[k] = ".."} = {}
    OBVIOUS
<1>2. QED
    BY <1>1, FS_EmptySet DEF Level

\* What the path p is after n components: at each level the name that last
\* entered it.
Stands(path, n, p) ==
    /\ Len(p) = Level(path, n)
    /\ \A l \in 1 .. Len(p) :
        \E k \in Entering(path, n, l) :
            p[l] = path[k] /\ \A j \in Entering(path, n, l) : j <= k

\* A name enters the level it goes down to, and no other.
LEMMA EnteringStep ==
    ASSUME NEW path, NEW n \in Nat, NEW l \in Int
    PROVE  Entering(path, n + 1, l) =
               IF IsName(path[n + 1]) /\ l = Level(path, n) + 1
               THEN Entering(path, n, l) \cup {n + 1}
               ELSE Entering(path, n, l)
<1>1. Level(path, n) \in Int
    BY LevelStep
<1>2. IsName(path[n + 1]) => Level(path, n + 1) = Level(path, n) + 1
    BY LevelStep
<1>3. 1 .. n + 1 = (1 .. n) \cup {n + 1}
    OBVIOUS
<1>4. QED
    BY <1>1, <1>2, <1>3 DEF Entering

LEMMA FrontIs ==
    ASSUME NEW S, NEW p \in Seq(S)
    PROVE  /\ Front(p) \in Seq(S)
           /\ p # <<>> => /\ Len(Front(p)) = Len(p) - 1
                          /\ \A l \in 1 .. Len(p) - 1 : Front(p)[l] = p[l]
<1> DEFINE m == Len(p) - 1
<1>1. m \in Int /\ \A l \in 1 .. m : p[l] \in S
    OBVIOUS
<1>2. p # <<>> => m \in Nat
    OBVIOUS
<1> HIDE DEF m
<1>3. /\ SubSeq(p, 1, m) \in Seq(S)
      /\ Len(SubSeq(p, 1, m)) = IF 1 <= m THEN m - 1 + 1 ELSE 0
      /\ \A l \in 1 .. m - 1 + 1 : SubSeq(p, 1, m)[l] = p[1 + l - 1]
    BY <1>1, SubSeqProperties
<1>4. Front(p) = SubSeq(p, 1, m)
    BY DEF Front, m
<1>5. p # <<>> => Len(SubSeq(p, 1, m)) = m
    BY <1>2, <1>3
<1>6. \A l \in 1 .. m : SubSeq(p, 1, m)[l] = p[l]
    BY <1>1, <1>3
<1>7. QED
    BY <1>3, <1>4, <1>5, <1>6 DEF m

LEMMA EnterStands ==
    ASSUME NEW path \in Seq(Component), NEW n \in 0 .. Len(path) - 1,
           NEW p \in Seq(Component), Stands(path, n, p), Level(path, n + 1) >= 0
    PROVE  Stands(path, n + 1, Enter(p, path[n + 1]))
<1> DEFINE c == path[n + 1]
           q == Enter(p, c)
<1>1. n \in Nat /\ c \in Component /\ Len(p) \in Nat
    OBVIOUS
<1>2. /\ Level(path, n) = Len(p)
      /\ Level(path, n + 1) =
             Len(p) + (IF IsName(c) THEN 1 ELSE IF c = ".." THEN -1 ELSE 0)
    BY <1>1, LevelStep DEF Stands
<1>3. ASSUME NEW l \in 1 .. Len(p)
      PROVE  \E k \in Entering(path, n + 1, l) :
                 p[l] = path[k] /\ \A j \in Entering(path, n + 1, l) : j <= k
    <2>1. l \in Int /\ l # Len(p) + 1
        BY <1>1
    <2>2. Entering(path, n + 1, l) = Entering(path, n, l)
        BY <1>1, <1>2, <2>1, EnteringStep
    <2>3. QED
        BY <2>2 DEF Stands
<1>4. CASE IsName(c)
    <2>1. q = Append(p, c)
        <3>1. /\ ~(c \in {"/", "."} \/ (c = ".." /\ p = <<"/">>))
              /\ ~(c = ".." /\ p # <<>> /\ Last(p) \notin {"/", ".."})
            BY <1>4 DEF IsName
        <3> HIDE DEF c
        <3>2. QED
            BY <3>1 DEF Enter
    <2>2. /\ q \in Seq(Component) /\ Len(q) = Len(p) + 1 /\ q[Len(p) + 1] = c
          /\ \A l \in 1 .. Len(p) : q[l] = p[l]
        BY <1>1, <2>1
    <2>3. Len(q) = Level(path, n + 1)
        BY <1>2, <1>4, <2>2
    <2>4. Entering(path, n + 1, Len(p) + 1) = Entering(path, n, Len(p) + 1) \cup {n + 1}
        <3>1. Len(p) + 1 \in Int /\ Len(p) + 1 = Level(path, n) + 1
            BY <1>1, <1>2
        <3>2. \A l \in Int : l = Level(path, n) + 1 =>
                  Entering(path, n + 1, l) = Entering(path, n, l) \cup {n + 1}
            BY <1>1, <1>4, EnteringStep
        <3>3. QED
            BY <3>1, <3>2
    <2>5. \A j \in Entering(path, n + 1, Len(p) + 1) : j <= n + 1
        BY <1>1 DEF Entering
    <2>6. \A l \in 1 .. Len(q) : l \in 1 .. Len(p) \/ l = Len(p) + 1
        BY <1>1, <2>2
    <2> HIDE DEF q, c
    <2>7. QED
        BY <1>3, <2>2, <2>3, <2>4, <2>5, <2>6 DEF Stands, c, q
<1>5. CASE c \in {"/", "."}
    <2>1. q = p
        BY <1>5 DEF Enter
    <2>2. Len(q) = Level(path, n + 1)
        BY <1>1, <1>2, <1>5, <2>1 DEF IsName
    <2> HIDE DEF q, c
    <2>3. QED
        BY <1>3, <2>1, <2>2 DEF Stands, c, q
<1>6. CASE c = ".."
    <2>1. Len(p) >= 1 /\ Level(path, n + 1) = Len(p) - 1
        BY <1>1, <1>2, <1>6 DEF IsName
    <2>2. \A l \in 1 .. Len(p) : IsName(p[l])
        BY DEF Stands, Entering
    <2>3. IsName(p[1]) /\ IsName(p[Len(p)]) /\ p # <<>>
        BY <1>1, <2>1, <2>2
    <2>4. p # <<"/">> /\ Last(p) \notin {"/", ".."}
        BY <2>3 DEF IsName, Last
    <2>5. q = Front(p)
        <3>1. /\ ~(c \in {"/", "."} \/ (c = ".." /\ p = <<"/">>))
              /\ c = ".." /\ p # <<>> /\ Last(p) \notin {"/", ".."}
            BY <1>6, <2>3, <2>4
        <3> HIDE DEF c
        <3>2. QED
            BY <3>1 DEF Enter
    <2>6. Len(q) = Len(p) - 1 /\ \A l \in 1 .. Len(p) - 1 : q[l] = p[l]
        BY <2>3, <2>5, FrontIs
    <2>7. \A l \in 1 .. Len(q) : l \in 1 .. Len(p) /\ q[l] = p[l]
        BY <1>1, <2>6
    <2> HIDE DEF q, c
    <2>8. QED
        BY <1>3, <2>1, <2>6, <2>7 DEF Stands, c, q
<1>7. QED
    BY <1>4, <1>5, <1>6 DEF IsName

\* Every round of Resolve is a step of Enter.
LEMMA ResolveLoop ==
    ASSUME NEW opf \in Seq(Component), opf # <<>>, opf[1] # "/", NEW href \in Seq(Component)
    PROVE  LET path == Front(opf) \o href
           IN  /\ path \in Seq(Component)
               /\ \E g : /\ g[0] = <<>> /\ Resolve(opf, href) = g[Len(path)]
                         /\ \A n \in 1 .. Len(path) : g[n] = Enter(g[n - 1], path[n])
                         /\ \A n \in 0 .. Len(path) : g[n] \in Seq(Component)
<1> DEFINE path == Front(opf) \o href
           N == Len(path)
           b == <<>>
           f == [m \in 1 .. N |-> [p \in Seq(Component) |-> Enter(p, path[m])]]
           after == CHOOSE g : g = [n \in 0 .. N |->
                        IF n = 0 THEN IF Len(opf) > 1 /\ opf[1] = "/" THEN <<"/">> ELSE <<>>
                        ELSE Enter(g[n - 1], path[n])]
<1>1. path \in Seq(Component)
    <2>1. Front(opf) \in Seq(Component)
        BY FrontIs
    <2>2. QED
        BY <2>1
<1>2. Resolve(opf, href) = after[N]
    BY DEF Resolve
<1> HIDE DEF path
<1>3. N \in Nat /\ \A m \in 1 .. N : path[m] \in Component
    BY <1>1
<1>4. b \in Seq(Component)
    BY EmptySeq
<1>5. ASSUME NEW p \in Seq(Component), NEW c \in Component
      PROVE  Enter(p, c) \in Seq(Component)
    <2>1. Front(p) \in Seq(Component)
        BY FrontIs
    <2>2. Append(p, c) \in Seq(Component)
        OBVIOUS
    <2>3. QED
        BY <2>1, <2>2 DEF Enter
<1>6. f \in [1 .. N -> [Seq(Component) -> Seq(Component)]]
    BY <1>3, <1>5
<1>7. PICK g \in [0 .. N -> Seq(Component)] : IsRun(g, N, b, f)
    <2> HIDE DEF N, f, b
    <2>1. QED
        BY <1>3, <1>4, <1>6, LoopRuns
<1>8. ASSUME NEW m \in 1 .. N PROVE g[m] = Enter(g[m - 1], path[m])
    <2>1. m - 1 \in 0 .. N
        BY <1>3
    <2>2. f[m] = [p \in Seq(Component) |-> Enter(p, path[m])]
        OBVIOUS
    <2> HIDE DEF f, N
    <2>3. g[m - 1] \in Seq(Component)
        BY <2>1
    <2>4. f[m][g[m - 1]] = Enter(g[m - 1], path[m])
        BY <2>2, <2>3
    <2>5. QED
        BY <1>7, <2>4 DEF IsRun
<1>9. g[0] = <<>>
    BY <1>7 DEF IsRun
<1>10. g = [n \in 0 .. N |->
               IF n = 0 THEN IF Len(opf) > 1 /\ opf[1] = "/" THEN <<"/">> ELSE <<>>
               ELSE Enter(g[n - 1], path[n])]
    <2>1. \A n \in 0 .. N : n # 0 => n \in 1 .. N
        BY <1>3
    <2> HIDE DEF N
    <2>2. \A n \in 0 .. N : g[n] =
              IF n = 0 THEN IF Len(opf) > 1 /\ opf[1] = "/" THEN <<"/">> ELSE <<>>
              ELSE Enter(g[n - 1], path[n])
        BY <1>8, <1>9, <2>1
    <2>3. QED
        BY <2>2, Zenon
<1>11. after = [n \in 0 .. N |->
                   IF n = 0 THEN IF Len(opf) > 1 /\ opf[1] = "/" THEN <<"/">> ELSE <<>>
                   ELSE Enter(after[n - 1], path[n])]
    BY <1>10
<1> HIDE DEF after
<1>12. after[0] = <<>> /\ \A n \in 1 .. N : after[n] = Enter(after[n - 1], path[n])
    <2>1. 0 \in 0 .. N /\ \A n \in 1 .. N : n \in 0 .. N /\ n # 0
        BY <1>3
    <2> HIDE DEF N
    <2>2. QED
        BY <1>11, <2>1
<1> DEFINE T == {n \in 0 .. N : after[n] \in Seq(Component)}
<1>13. 0 \in T
    <2>1. 0 \in 0 .. N
        BY <1>3
    <2> HIDE DEF N
    <2>2. QED
        BY <1>4, <1>12, <2>1
<1>14. ASSUME NEW m \in 0 .. N - 1, m \in T PROVE m + 1 \in T
    <2>1. m + 1 \in 1 .. N /\ m + 1 \in 0 .. N /\ m + 1 - 1 = m
        BY <1>3
    <2> HIDE DEF N
    <2>2. after[m + 1] = Enter(after[m], path[m + 1])
        BY <1>12, <2>1
    <2>3. QED
        BY <1>3, <1>5, <1>14, <2>1, <2>2
<1>15. \A n \in 0 .. N : n \in T
    <2> HIDE DEF T, N
    <2>1. QED
        BY <1>3, <1>13, <1>14, Climb
<1>16. \A n \in 0 .. N : after[n] \in Seq(Component)
    BY <1>15
<1>17. QED
    BY <1>1, <1>2, <1>12, <1>16 DEF path

\* However a path winds, path.Join ends where a reader does, as long as the path
\* stays inside the archive.
LEMMA ResolveIsPlace ==
    ASSUME NEW opf \in Seq(Component), opf # <<>>, opf[1] # "/", NEW href \in Seq(Component),
           \A n \in DOMAIN (Front(opf) \o href) : Level(Front(opf) \o href, n) >= 0
    PROVE  Resolve(opf, href) = Place(Front(opf) \o href)
<1> DEFINE path == Front(opf) \o href
           N == Len(path)
<1>1. path \in Seq(Component)
    BY ResolveLoop
<1>2. PICK g : /\ g[0] = <<>> /\ Resolve(opf, href) = g[N]
               /\ \A n \in 1 .. N : g[n] = Enter(g[n - 1], path[n])
               /\ \A n \in 0 .. N : g[n] \in Seq(Component)
    BY ResolveLoop
<1>3. \A n \in DOMAIN path : Level(path, n) >= 0
    OBVIOUS
<1> HIDE DEF path
<1>4. N \in Nat /\ DOMAIN path = 1 .. N
    BY <1>1
<1> DEFINE T == {n \in 0 .. N : Stands(path, n, g[n])}
<1>5. 0 \in T
    <2>1. Len(<<>>) = 0 /\ 0 \in 0 .. N /\ 1 .. 0 = {}
        BY <1>4
    <2>2. Level(path, 0) = 0
        BY LevelOfNone
    <2> HIDE DEF N
    <2>3. QED
        BY <1>2, <2>1, <2>2 DEF Stands
<1>6. ASSUME NEW m \in 0 .. N - 1, m \in T PROVE m + 1 \in T
    <2>1. m + 1 \in 1 .. N /\ m + 1 \in 0 .. N /\ m + 1 - 1 = m /\ m \in 0 .. N
        BY <1>4
    <2>2. Level(path, m + 1) >= 0
        BY <1>3, <1>4, <2>1
    <2>3. g[m + 1] = Enter(g[m], path[m + 1]) /\ g[m] \in Seq(Component)
        BY <1>2, <2>1
    <2>4. Stands(path, m, g[m])
        BY <1>6
    <2>5. Stands(path, m + 1, Enter(g[m], path[m + 1]))
        BY <1>1, <2>2, <2>3, <2>4, EnterStands
    <2> HIDE DEF N
    <2>6. QED
        BY <2>1, <2>3, <2>5
<1>7. \A n \in 0 .. N : n \in T
    <2> HIDE DEF T, N
    <2>1. QED
        BY <1>4, <1>5, <1>6, Climb
<1> DEFINE p == g[N]
           L == Len(p)
<1>8. Stands(path, N, p) /\ p \in Seq(Component)
    BY <1>2, <1>4, <1>7
<1> HIDE DEF N, p, T
<1>9. L = Level(path, N) /\ L \in Nat
    BY <1>8 DEF Stands
<1>10. ASSUME NEW l \in 1 .. L PROVE p[l] = path[Max(Entering(path, N, l))]
    <2> DEFINE E == Entering(path, N, l)
    <2>1. PICK k \in E : p[l] = path[k] /\ \A j \in E : j <= k
        BY <1>8 DEF Stands
    <2>2. E \in SUBSET (1 .. N) /\ E # {}
        BY DEF Entering
    <2> HIDE DEF E
    <2>3. Max(E) \in E /\ \A j \in E : j <= Max(E)
        BY <1>4, <2>2, Extremes
    <2>4. Max(E) = k
        <3>1. Max(E) <= k /\ k <= Max(E)
            BY <2>1, <2>3
        <3>2. Max(E) \in Int /\ k \in Int
            <4>1. Max(E) \in 1 .. N /\ k \in 1 .. N
                BY <2>2, <2>3
            <4>2. QED
                BY <4>1
        <3>3. QED
            BY <3>1, <3>2
    <2>5. QED
        BY <2>1, <2>4 DEF E
<1>11. p = [l \in 1 .. L |-> p[l]]
    BY <1>8
<1>12. p = [l \in 1 .. L |-> path[Max(Entering(path, N, l))]]
    <2> HIDE DEF L
    <2>1. QED
        BY <1>10, <1>11, Zenon
<1>13. Place(path) = [l \in 1 .. L |-> path[Max(Entering(path, N, l))]]
    BY <1>9 DEF Place, N
<1>14. QED
    BY <1>2, <1>12, <1>13 DEF p, path

(***************************************************************************)
(* The words of the book.                                                  *)
(***************************************************************************)
\* An entry of the spine leads where the last item of its ID points, which is
\* the one the manifest keeps.
LEMMA TargetIsDocPath ==
    ASSUME NEW f, NEW entry, InSpine(entry), IsTokenized(f.zip[OpfOf(f)]),
           OpfOf(f) \in Seq(Component), PlainHrefs(f)
    PROVE  /\ TargetOf(f, entry.id) # {} <=> Leads(f.zip, OpfOf(f), entry)
           /\ Leads(f.zip, OpfOf(f), entry) =>
                  TargetOf(f, entry.id) = {DocPath(f.zip, OpfOf(f), entry)}
<1> DEFINE opf == f.zip[OpfOf(f)]
           id == entry.id
           same == {i \in Items(opf) : opf[i].id = id}
           items == {i \in DOMAIN opf :
                       opf[i].kind = "item" /\ opf[i].id = id /\ id # "" /\ opf[i].href # <<>>}
           lasts == {i \in items : \A j \in items : j <= i}
           places == {Place(PathMeant(f, opf[i].href)) : i \in lasts}
<1>1. Len(opf) \in Nat /\ DOMAIN opf = 1 .. Len(opf)
    BY TokenSeqs
<1>2. TargetOf(f, id) = places \cap DOMAIN f.zip
    BY DEF TargetOf
<1>3. id \in DOMAIN Manifest(opf) <=> same # {}
    BY DEF Manifest
<1>4. items = same
    <2> HIDE DEF opf, id
    <2>1. QED
        BY Zenon DEF Items
<1>5. CASE same = {}
    <2>1. places = {}
        BY <1>4, <1>5
    <2> HIDE DEF places, same
    <2>2. QED
        BY <1>2, <1>3, <1>5, <2>1 DEF Leads
<1>6. CASE same # {}
    <2> DEFINE last == Max(same)
               href == opf[last].href
    <2>1. same \in SUBSET (1 .. Len(opf))
        BY <1>1 DEF Items
    <2>2. last \in same /\ \A i \in same : i <= last
        <3> HIDE DEF same, opf
        <3>1. QED
            BY <1>1, <1>6, <2>1, Extremes
    <2>3. same \subseteq Int
        BY <2>1
    <2>4. last \in DOMAIN opf /\ opf[last].kind = "item" /\ href # <<>>
        <3> HIDE DEF opf, last
        <3>1. QED
            BY <2>2, Zenon DEF Items
    <2>5. href \in Seq(Component)
        BY <2>4 DEF IsTokenized
    <2>6. Manifest(opf)[id] = href
        <3>1. id \in {opf[i].id : i \in Items(opf)}
            BY <1>6
        <3>2. QED
            BY <3>1 DEF Manifest, last
    <2> HIDE DEF last
    <2>7. lasts = {last}
        <3>1. last \in lasts
            BY <1>4, <2>2
        <3>2. ASSUME NEW i \in lasts PROVE i = last
            <4>1. i \in same /\ last <= i
                BY <1>4, <2>2, <3>2
            <4>2. i <= last
                BY <2>2, <4>1
            <4> HIDE DEF same, lasts
            <4>3. QED
                BY <2>2, <2>3, <4>1, <4>2
        <3>3. QED
            BY <3>1, <3>2
    <2>8. places = {Place(PathMeant(f, href))}
        <3> HIDE DEF lasts
        <3>1. QED
            BY <2>7
    <2>9. Place(PathMeant(f, href)) = Resolve(OpfOf(f), href)
        <3>1. /\ OpfOf(f) # <<>> /\ OpfOf(f)[1] # "/" /\ href[1] # "/"
              /\ \A k \in DOMAIN href : Unescape(href[k]) = href[k]
              /\ \A n \in DOMAIN PathMeant(f, href) : Level(PathMeant(f, href), n) >= 0
            BY <2>4, Zenon DEF PlainHrefs
        <3> HIDE DEF href
        <3>2. [k \in 1 .. Len(href) |-> Unescape(href[k])] = href
            <4>1. href = [k \in 1 .. Len(href) |-> href[k]] /\ DOMAIN href = 1 .. Len(href)
                BY <2>5
            <4>2. [k \in 1 .. Len(href) |-> Unescape(href[k])] = [k \in 1 .. Len(href) |-> href[k]]
                BY <3>1, <4>1
            <4>3. QED
                BY <4>1, <4>2
        <3>3. PathMeant(f, href) = Front(OpfOf(f)) \o href
            BY <3>1, <3>2 DEF PathMeant
        <3>4. QED
            BY <2>5, <3>1, <3>3, ResolveIsPlace
    <2>10. DocPath(f.zip, OpfOf(f), entry) = Resolve(OpfOf(f), href)
        BY <2>6 DEF DocPath
    <2> HIDE DEF places, same, items, opf, id, href
    <2>11. Leads(f.zip, OpfOf(f), entry) <=> DocPath(f.zip, OpfOf(f), entry) \in DOMAIN f.zip
        BY <1>3, <1>6 DEF Leads, opf, id
    <2>12. QED
        BY <1>2, <2>8, <2>9, <2>10, <2>11 DEF id
<1>7. QED
    BY <1>5, <1>6

\* The words of a round of the loop over the spine: those of the document that
\* the element leads to come last.
LEMMA RoundWords ==
    ASSUME NEW f, Documents(f.zip), OpfOf(f) \in DOMAIN f.zip,
           OpfOf(f) \in Seq(Component), PlainHrefs(f),
           NEW t \in Seq(Int), NEW element,
           Leads(f.zip, OpfOf(f), element) => ~Chapter(f.zip, OpfOf(f), element).err
    PROVE  Words(BookRound(f.zip, OpfOf(f), t, element)) =
               IF InSpine(element) /\ TargetOf(f, element.id) # {}
               THEN Words(t) \o VisibleWords(f.zip[CHOOSE p \in TargetOf(f, element.id) : TRUE])
               ELSE Words(t)
<1> DEFINE opf == f.zip[OpfOf(f)]
           path == DocPath(f.zip, OpfOf(f), element)
           chapter == Chapter(f.zip, OpfOf(f), element)
<1>1. IsTokenized(opf)
    BY DEF Documents
<1>2. CASE Leads(f.zip, OpfOf(f), element)
    <2>1. InSpine(element) /\ path \in DOMAIN f.zip
        BY <1>2 DEF Leads
    <2>2. TargetOf(f, element.id) = {path}
        BY <1>1, <1>2, <2>1, TargetIsDocPath
    <2>3. (CHOOSE p \in TargetOf(f, element.id) : TRUE) = path
        <3> HIDE DEF path
        <3>1. QED
            BY <2>2
    <2>4. IsTokenized(f.zip[path])
        BY <2>1 DEF Documents
    <2>5. chapter = EpubDocText(f.zip[path])
        BY DEF Chapter
    <2>6. chapter.text = DocRounds(f.zip[path])[Len(f.zip[path])].text
        <3>1. CASE Fails(f.zip[path])
            BY <1>2, <2>5, <3>1 DEF EpubDocText, Error
        <3>2. CASE ~Fails(f.zip[path])
            BY <2>5, <3>2 DEF EpubDocText, Text
        <3>3. QED
            BY <3>1, <3>2
    <2>7. Words(chapter.text) = VisibleWords(f.zip[path])
        BY <2>4, <2>6, DocWords
    <2>8. chapter.text \in Seq(Int)
        BY <1>2, ChapterOfZip
    <2>9. BookRound(f.zip, OpfOf(f), t, element) = AddChapter(t, chapter)
        BY <1>2 DEF BookRound
    <2> HIDE DEF chapter, path
    <2>10. Words(AddChapter(t, chapter)) = Words(t) \o VisibleWords(f.zip[path])
        BY <2>7, <2>8, WordsOfAddChapter
    <2>11. QED
        BY <2>1, <2>2, <2>3, <2>9, <2>10
<1>3. CASE ~Leads(f.zip, OpfOf(f), element)
    <2>1. BookRound(f.zip, OpfOf(f), t, element) = t
        BY <1>3 DEF BookRound
    <2>2. InSpine(element) => TargetOf(f, element.id) = {}
        BY <1>1, <1>3, TargetIsDocPath
    <2>3. QED
        BY <2>1, <2>2
<1>4. QED
    BY <1>2, <1>3

LEMMA BookWords ==
    ASSUME NEW f, Documents(f.zip), OpfOf(f) \in DOMAIN f.zip,
           OpfOf(f) \in Seq(Component), PlainHrefs(f),
           \A i \in DOMAIN f.zip[OpfOf(f)] :
               Leads(f.zip, OpfOf(f), f.zip[OpfOf(f)][i]) =>
                   ~Chapter(f.zip, OpfOf(f), f.zip[OpfOf(f)][i]).err
    PROVE  Words(BookRounds(f.zip, OpfOf(f))[Len(f.zip[OpfOf(f)])]) = ReadableWords(f)
<1> DEFINE opf == f.zip[OpfOf(f)]
           N == Len(opf)
           text == BookRounds(f.zip, OpfOf(f))
           readable == {i \in DOMAIN opf : InSpine(opf[i]) /\ TargetOf(f, opf[i].id) # {}}
           words(n) == VisibleWords(f.zip[CHOOSE p \in TargetOf(f, opf[n].id) : TRUE])
           g == [n \in 0 .. N |-> Words(text[n])]
           upTo == CHOOSE h : h = [n \in 0 .. N |->
                       IF n = 0 THEN <<>>
                       ELSE IF n \in readable THEN h[n - 1] \o words(n) ELSE h[n - 1]]
<1>1. N \in Nat /\ DOMAIN opf = 1 .. N
    BY TokenSeqs DEF Documents
<1>2. /\ text[0] = <<>>
      /\ \A n \in 1 .. N : text[n] = BookRound(f.zip, OpfOf(f), text[n - 1], opf[n])
      /\ \A n \in 0 .. N : text[n] \in Seq(Int)
    BY BookLoop
<1> HIDE DEF text
<1>3. ASSUME NEW n \in 1 .. N
      PROVE  Words(text[n]) =
                 IF n \in readable THEN Words(text[n - 1]) \o words(n) ELSE Words(text[n - 1])
    <2>1. n - 1 \in 0 .. N /\ n \in DOMAIN opf
        BY <1>1
    <2>2. text[n - 1] \in Seq(Int)
        BY <1>2, <2>1
    <2>3. n \in readable <=> InSpine(opf[n]) /\ TargetOf(f, opf[n].id) # {}
        BY <2>1
    <2>4. Leads(f.zip, OpfOf(f), opf[n]) => ~Chapter(f.zip, OpfOf(f), opf[n]).err
        BY <2>1
    <2>5. Words(BookRound(f.zip, OpfOf(f), text[n - 1], opf[n])) =
              IF InSpine(opf[n]) /\ TargetOf(f, opf[n].id) # {}
              THEN Words(text[n - 1]) \o words(n)
              ELSE Words(text[n - 1])
        BY <2>2, <2>4, RoundWords
    <2> HIDE DEF readable, words, opf, N
    <2>6. QED
        BY <1>2, <2>3, <2>5
<1> HIDE DEF readable, words
<1>4. \A n \in 0 .. N : g[n] = IF n = 0 THEN <<>>
                               ELSE IF n \in readable THEN g[n - 1] \o words(n) ELSE g[n - 1]
    <2>1. ASSUME NEW n \in 0 .. N, n # 0
          PROVE  g[n] = IF n \in readable THEN g[n - 1] \o words(n) ELSE g[n - 1]
        <3>1. n \in 1 .. N /\ n - 1 \in 0 .. N
            BY <1>1, <2>1
        <3>2. g[n] = Words(text[n]) /\ g[n - 1] = Words(text[n - 1])
            BY <3>1
        <3> HIDE DEF g, N
        <3>3. QED
            BY <1>3, <3>1, <3>2
    <2>2. g[0] = <<>>
        BY <1>1, <1>2, WordsOfEmpty
    <2> HIDE DEF g, N
    <2>3. QED
        BY <2>1, <2>2
<1>5. g = [n \in 0 .. N |-> IF n = 0 THEN <<>>
                            ELSE IF n \in readable THEN g[n - 1] \o words(n) ELSE g[n - 1]]
    <2> HIDE DEF N
    <2>1. QED
        BY <1>4, Zenon
<1>6. upTo = [n \in 0 .. N |-> IF n = 0 THEN <<>>
                               ELSE IF n \in readable THEN upTo[n - 1] \o words(n) ELSE upTo[n - 1]]
    <2> HIDE DEF g
    <2>1. QED
        BY <1>5
<1>7. ReadableWords(f) = upTo[N]
    BY DEF ReadableWords, readable, words, InSpine
<1> HIDE DEF upTo, g
<1>8. /\ upTo[0] = <<>>
      /\ \A n \in 1 .. N : upTo[n] = IF n \in readable THEN upTo[n - 1] \o words(n) ELSE upTo[n - 1]
    <2>1. 0 \in 0 .. N /\ \A n \in 1 .. N : n \in 0 .. N /\ n # 0
        BY <1>1
    <2> HIDE DEF N
    <2>2. QED
        BY <1>6, <2>1
<1> DEFINE T == {n \in 0 .. N : upTo[n] = Words(text[n])}
<1>9. 0 \in T
    BY <1>1, <1>2, <1>8, WordsOfEmpty
<1>10. ASSUME NEW m \in 0 .. N - 1, m \in T PROVE m + 1 \in T
    <2>1. m + 1 \in 1 .. N /\ m + 1 \in 0 .. N /\ m + 1 - 1 = m
        BY <1>1
    <2> HIDE DEF N
    <2>2. QED
        BY <1>3, <1>8, <1>10, <2>1
<1>11. \A n \in 0 .. N : n \in T
    <2> HIDE DEF T, N
    <2>1. QED
        BY <1>1, <1>9, <1>10, Climb
<1>12. N \in T
    BY <1>1, <1>11
<1>13. QED
    BY <1>7, <1>12 DEF text

(***************************************************************************)
(* The theorems.                                                           *)
(***************************************************************************)
\* Whatever the package and the tags of its documents, two words of the text
\* with nothing between them stood in one line of one document: no chapter,
\* trimmed or not, runs into the next, and no block into another.
THEOREM BlocksDoNotRunTogether == DocSpec => []BlocksSeparateWords
<1>1. file \in Files => BlocksSeparateWords
    <2>1. SUFFICES ASSUME file \in Files, IsEpub(file),
                          NEW k \in 1 .. Len(Extract(file).text) - 1,
                          Extract(file).text[k] > 0, Extract(file).text[k + 1] > 0
                   PROVE  \E p \in DOMAIN file.zip : \E i, j \in DOMAIN file.zip[p] :
                              InOneLine(file.zip[p], i, j,
                                        Extract(file).text[k], Extract(file).text[k + 1])
        BY DEF BlocksSeparateWords, InOneLine, Unbroken
    <2>2. QED
        BY <2>1, WordsStandInOneLine
<1>2. QED
    BY <1>1, FileStays, PTL

\* Code or tags never get into the text from a script or style element that was
\* opened by a start tag, however the tags around it are nested or missing.
THEOREM ScriptsStayOut == DocSpec => []OnlyRawTextLeaksMarkup
<1>1. file \in Files => OnlyRawTextLeaksMarkup
    <2>1. SUFFICES ASSUME file \in Files, IsEpub(file), Raw \in Range(Extract(file).text)
                   PROVE  \E p \in DOMAIN file.zip : \E i \in 1 .. Len(file.zip[p]) - 1 :
                              /\ OpensRawText(file.zip[p][i])
                              /\ file.zip[p][i].kind = "self" \/ file.zip[p][i].tag \notin SkippedTags
                              /\ file.zip[p][i + 1].kind = "text" /\ file.zip[p][i + 1].rune = Raw
        BY DEF OnlyRawTextLeaksMarkup
    <2>2. PICK p \in DOMAIN file.zip : \E i \in DOMAIN file.zip[p] : Leaks(file.zip[p], i)
        BY <2>1, MarkupIsRawText
    <2>3. PICK i \in DOMAIN file.zip[p] : Leaks(file.zip[p], i)
        BY <2>2
    <2>4. IsTokenized(file.zip[p])
        BY <2>1, FilesAreTokenized
    <2>5. i \in 1 .. Len(file.zip[p]) /\ i - 1 + 1 = i
        BY <2>4, TokenSeqs
    <2>6. /\ i - 1 \in 1 .. Len(file.zip[p]) - 1
          /\ OpensRawText(file.zip[p][i - 1])
          /\ file.zip[p][i - 1].kind = "self" \/ file.zip[p][i - 1].tag \notin SkippedTags
        BY <2>3, <2>4, <2>5, LeakFollowsRawTag
    <2>7. file.zip[p][i - 1 + 1].kind = "text" /\ file.zip[p][i - 1 + 1].rune = Raw
        BY <2>3, <2>5 DEF Leaks
    <2>8. QED
        BY <2>6, <2>7
<1>2. QED
    BY <1>1, FileStays, PTL

\* The index holds what a reader of the book sees: whatever the package and the
\* tags of its documents and however its plain hrefs wind through the archive, the
\* words of the text are the visible words of the readable documents in the order
\* of the spine.
THEOREM NoWordLostOrRepeated == DocSpec => []EpubWordsInReadingOrder
<1>1. file \in Files => EpubWordsInReadingOrder
    <2>1. SUFFICES ASSUME file \in Files, IsEpub(file), ~Extract(file).err, PlainHrefs(file)
                   PROVE  Words(Extract(file).text) = ReadableWords(file)
        BY DEF EpubWordsInReadingOrder
    <2>2. Extract(file) # Error
        BY <2>1 DEF Error
    <2>3. /\ Documents(file.zip) /\ OpfOf(file) \in DOMAIN file.zip
          /\ OpfOf(file) \in Seq(Component)
          /\ Extract(file) = Text(BookRounds(file.zip, OpfOf(file))[Len(file.zip[OpfOf(file)])])
          /\ \A i \in DOMAIN file.zip[OpfOf(file)] :
                 Leads(file.zip, OpfOf(file), file.zip[OpfOf(file)][i]) =>
                     ~Chapter(file.zip, OpfOf(file), file.zip[OpfOf(file)][i]).err
        BY <2>1, <2>2, EpubText
    <2>4. Extract(file).text = BookRounds(file.zip, OpfOf(file))[Len(file.zip[OpfOf(file)])]
        BY <2>3 DEF Text
    <2>5. QED
        BY <2>1, <2>3, <2>4, BookWords
<1>2. QED
    BY <1>1, FileStays, PTL
=============================================================================
