-------------------------------- MODULE Evidence --------------------------------
(***************************************************************************)
(* Retrieval of evidence: documents are cut into chunks, a query is        *)
(* answered by the chunks that score best, and each answer becomes an      *)
(* evidence with a confidence.  A word is one character of its text, so    *)
(* that lengths, windows and overlaps are those of the code; two words     *)
(* never share a bucket of the embedding.  The squared cosine stands for   *)
(* the cosine, and an age is counted in half-lives.                        *)
(***************************************************************************)
EXTENDS StrategyFeatures, Questions

CONSTANTS
  Words,       \* what texts are made of, each a bucket of the embedding
  MaxChars,    \* max_chars
  Overlap,     \* overlap_chars
  Overfetch,   \* least number of chunks the vector stage hands on (20)
  Reliability, \* source -> SOURCE_RELIABILITY, the default for the others
  Searches     \* what is asked: [items, query, top_k, symbol, source]

UnitShare(x) == x \in Fractions /\ ~Less(x, Zero) /\ ~Less(Whole(1), x)

\* News items have an id of their own; a paragraph is what is left between blank lines.
NewsItem(item) ==
  /\ item.id \in Nat /\ item.title \in Seq(Words) /\ item.age \in Nat \cup {Missing}
  /\ item.text \in Seq(Seq(Words) \ {<<>>})
SearchOf(q) ==
  /\ q.query \in Seq(Words) /\ q.top_k \in Int
  /\ IsFiniteSet(q.items)
  /\ \A item \in q.items : NewsItem(item) /\ \A other \in q.items : other.id = item.id => other = item

ASSUME EvidenceAssumption ==
  /\ IsFiniteSet(Words) /\ MaxChars \in Nat \ {0} /\ {Overlap, Overfetch} \subseteq Nat
  /\ \A s \in DOMAIN Reliability : UnitShare(Reliability[s]) /\ Reliability[s] # Zero
  /\ \A q \in Searches : SearchOf(q)

EvidenceInit == question \in [kind : {"evidence"}, of : Searches]
EvidenceSpec == EvidenceInit /\ Stays

-----------------------------------------------------------------------------
(* chunk_text: a document is a sequence of paragraphs, each a sequence of words.  A *)
(* window is a sequence of pieces <<paragraph, first, last>>, two characters apart. *)

Break == 2
Length(window) ==
  SumFunction([i \in DOMAIN window |-> window[i][3] - window[i][2] + 1])
  + Break * (IF window = <<>> THEN 0 ELSE Len(window) - 1)
Shared == IF Overlap < MaxChars \div 2 THEN Overlap ELSE MaxChars \div 2
Step   == MaxChars - Shared

\* A paragraph that is too long: full windows Step apart while more than one is left.
Cuts(length) == IF length <= MaxChars THEN 0 ELSE ((length - MaxChars) + Step - 1) \div Step
HardWindows(p, length) ==
  [j \in 1 .. Cuts(length) |-> << <<p, (j - 1) * Step + 1, (j - 1) * Step + MaxChars>> >>]
\* Mutant: the rest after the last full window is given no overlap and no character at the seam.
RestSkipping(p, length) ==
  << <<p, IF Cuts(length) = 0 THEN 1 ELSE Cuts(length) * Step + Shared + 2, length>> >>
RestWindow(p, length) == << <<p, Cuts(length) * Step + 1, length>> >>

\* Paragraphs are gathered while they fit; one that does not closes the window before it.
Added(acc, p, length) ==
  LET whole == Append(acc.open, <<p, 1, length>>)
  IN IF Length(whole) <= MaxChars THEN [closed |-> acc.closed, open |-> whole]
     ELSE [closed |-> acc.closed \o (IF acc.open = <<>> THEN <<>> ELSE <<acc.open>>)
                        \o HardWindows(p, length),
           open |-> RestWindow(p, length)]
Gather(doc) ==
  LET upTo[p \in 0 .. Len(doc)] == IF p = 0 THEN [closed |-> <<>>, open |-> <<>>]
                                   ELSE Added(upTo[p - 1], p, Len(doc[p]))
  IN upTo[Len(doc)]
Chunks(doc) ==
  LET g == Gather(doc) IN IF g.open = <<>> THEN g.closed ELSE Append(g.closed, g.open)

\* The words of a chunk; chunk_news_item gives the item's symbols, source and age to each.
WordsOf(doc, window) ==
  LET upTo[k \in 0 .. Len(window)] ==
        IF k = 0 THEN <<>>
        ELSE upTo[k - 1] \o SubSeq(doc[window[k][1]], window[k][2], window[k][3])
  IN upTo[Len(window)]
ChunkOf(item, i) ==
  [id |-> <<item.id, i>>, words |-> WordsOf(item.text, Chunks(item.text)[i]), title |-> item.title,
   symbols |-> item.symbols, source |-> item.source, age |-> item.age]
ChunksOf(item) == {ChunkOf(item, i) : i \in DOMAIN Chunks(item.text)}
Store(items) == UNION {ChunksOf(item) : item \in items}

-----------------------------------------------------------------------------
(* Scores, each in 0 .. 1 *)

Count(words, w) == Cardinality({i \in DOMAIN words : words[i] = w})
Vocabulary(words) == {words[i] : i \in DOMAIN words}
Dot(a, b) == SumFunction([w \in Words |-> Count(a, w) * Count(b, w)])
Cosine2(a, b) ==
  IF a = <<>> \/ b = <<>> THEN Zero ELSE Frac(Dot(a, b) * Dot(a, b), Dot(a, a) * Dot(b, b))
Share(part, all) == IF all = {} THEN Zero ELSE Frac(Cardinality(part), Cardinality(all))
KeywordScore(query, words) ==
  Share(Vocabulary(query) \cap Vocabulary(words), Vocabulary(query))
RecencyScore(age) ==
  LET after[n \in 0 .. age] == IF n = 0 THEN Whole(1) ELSE Times(Frac(1, 2), after[n - 1])
  IN IF age = Missing THEN Frac(1, 2) ELSE after[age]
SourceScore(source) == IF source \in DOMAIN Reliability THEN Reliability[source] ELSE Frac(6, 10)
Fuse(vector, keyword, recency, source) ==
  Sum(<<Times(Frac(1, 2), vector), Times(Frac(1, 4), keyword), Times(Frac(3, 20), recency),
        Times(Frac(1, 10), source)>>)
Bigrams(words) == {SubSeq(words, i, i + 1) : i \in 1 .. Len(words) - 1}
CrossEncoder(query, words) ==
  IF query = <<>> \/ words = <<>> THEN Zero
  ELSE Times(Frac(1, 2),
             Plus(KeywordScore(query, words),
                  Share(Bigrams(query) \cap Bigrams(words), Bigrams(query))))

Shown(c) == c.title \o c.words
VectorScore(query, c) == Cosine2(query, c.words)
Fused(query, c) ==
  Fuse(VectorScore(query, c), KeywordScore(query, Shown(c)), RecencyScore(c.age),
       SourceScore(c.source))
Reranked(query, c) ==
  Plus(Times(Frac(65, 100), Fused(query, c)), Times(Frac(35, 100), CrossEncoder(query, Shown(c))))

-----------------------------------------------------------------------------
(* MemoryVectorStore.search, Retriever.retrieve, RagService.search *)

\* The best n by a score; sorts are stable, equal ones stay in the order they came in, which is
\* that of an earlier score and, where that is equal too, that of the store.
Precedes(c, d) == c.id[1] < d.id[1] \/ (c.id[1] = d.id[1] /\ c.id[2] < d.id[2])
Preferred(score, came, d, c) ==
  \/ Less(score[c], score[d])
  \/ /\ score[c] = score[d]
     /\ Less(came[c], came[d]) \/ (came[c] = came[d] /\ Precedes(d, c))
BestBy(score, came, n) ==
  {c \in DOMAIN score : Cardinality({d \in DOMAIN score : Preferred(score, came, d, c)}) < n}

OfSymbol(c, symbol) == symbol = Missing \/ symbol \in c.symbols
Candidates(q) ==
  LET wanted == {c \in Store(q.items) : /\ OfSymbol(c, q.symbol)
                                        /\ q.source \in {Missing, c.source}}
      near == [c \in wanted |-> VectorScore(q.query, c)]
  IN BestBy(near, near, IF 4 * q.top_k > Overfetch THEN 4 * q.top_k ELSE Overfetch)
Retrieved(q) ==
  BestBy([c \in Candidates(q) |-> Fused(q.query, c)],
         [c \in Candidates(q) |-> VectorScore(q.query, c)], q.top_k)
Search(q) == IF q.query = <<>> \/ q.top_k <= 0 THEN {} ELSE Retrieved(q)

\* build_evidence: a document's evidence and its confidence, kept in 0 .. 1.
Clipped(x) == IF Less(x, Zero) THEN Zero ELSE IF Less(Whole(1), x) THEN Whole(1) ELSE x
Blend(query, c) ==
  Plus(Times(Frac(7, 10), Reranked(query, c)), Times(Frac(3, 10), SourceScore(c.source)))
ConfidenceFor(query, c) == Clipped(Blend(query, c))
EvidenceFor(q) ==
  {[claim |-> q.query, chunk |-> c.id, confidence |-> ConfidenceFor(q.query, c)] : c \in Search(q)}

-----------------------------------------------------------------------------
(* Properties *)

\* Every character of a document is in a chunk, no chunk is longer than max_chars, and each
\* brings a character no earlier one has (the arithmetic of the windows and their overlap).
CharsOf(window) ==
  UNION {{<<window[k][1], x>> : x \in window[k][2] .. window[k][3]} : k \in DOMAIN window}
ChunksCover(doc) ==
  LET windows == Chunks(doc)
  IN /\ UNION {CharsOf(windows[i]) : i \in DOMAIN windows}
          = UNION {{p} \X DOMAIN doc[p] : p \in DOMAIN doc}
     /\ \A i \in DOMAIN windows :
          /\ Length(windows[i]) <= MaxChars
          /\ ~(CharsOf(windows[i]) \subseteq UNION {CharsOf(windows[j]) : j \in 1 .. i - 1})

\* An answer cites stored chunks of the symbol asked for, as many as there are up to top_k;
\* scoring by vectors first never hides a chunk when there are no more than it hands on; and
\* a confidence is a positive share as it is, cutting it to 0 .. 1 changes nothing.
AnswerIsBest(q) ==
  LET mine == {c \in Store(q.items) : q.symbol = Missing \/ q.symbol \in c.symbols}
      eligible == {c \in mine : q.source \in {Missing, c.source}}
      answered == Search(q)
  IN q.query # <<>> /\ q.top_k > 0 =>
       /\ answered \subseteq eligible
       /\ Cardinality(answered) = Min({q.top_k, Cardinality(eligible)})
       /\ Cardinality(eligible) <= Overfetch =>
            \A c \in answered, d \in eligible \ answered :
              ~Less(Fused(q.query, c), Fused(q.query, d))
       /\ \A c \in answered : ConfidenceFor(q.query, c) = Blend(q.query, c)
       /\ \A e \in EvidenceFor(q) : Less(Zero, e.confidence)

\* The chunks cover every article, and what is cited are the best of the chunks the question
\* allows (a snippet is its chunk's first 400 characters, which is not asked about).
EvidenceIsSound ==
  Asked("evidence") =>
    /\ \A item \in question.of.items : ChunksCover(item.text)
    /\ AnswerIsBest(question.of)

=============================================================================
