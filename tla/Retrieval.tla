------------------------------ MODULE Retrieval ------------------------------
(***************************************************************************)
(* One search (rag/retrieval): the lexical and the dense query, each a     *)
(* statement of its own, the fusion of their rankings, the reranker, and   *)
(* the chunks that mention a date the query names.  Between its queries    *)
(* users switch sources on and off, syncs write and purge chunks, and the  *)
(* backfill embeds them.                                                   *)
(***************************************************************************)
EXTENDS Naturals, SequencesExt, FiniteSetsExt

CONSTANTS
  Source,
  Chunk,           \* numbers, in the order of document path and index
  SourceOf,        \* SourceOf[c]: the source of chunk c
  Dated,           \* chunks whose content mentions the date of a dated query
  TopK, FetchK,    \* top_k of the caller, fetch_k of the wrappers
  MaxDateMatches,  \* _MAX_DATE_MATCHES
  Unit             \* what a score is a whole number of shares of

(* RRF_K.                                                                  *)
RrfK == 60

ASSUME CorpusAssumption ==
  /\ Chunk \subseteq Nat /\ IsFiniteSet(Chunk)
  /\ SourceOf \in [Chunk -> Source] /\ Dated \subseteq Chunk
ASSUME LimitsAssumption ==
  TopK \in Nat \ {0} /\ FetchK \in Nat \ {0} /\ MaxDateMatches \in Nat \ {0}
ASSUME UnitAssumption ==
  Unit \in Nat \ {0} /\ \A r \in 1..FetchK : Unit % (RrfK + r) = 0

Strategy == {"lexical", "dense", "hybrid", "hybrid_reranked"}

VARIABLES
  on,        \* sources that are enabled
  row,       \* row[c]: the row of chunk c, and whether it has an embedding
  strategy,  \* RETRIEVAL_STRATEGY; the retriever is built once (lru_cache)
  asked,     \* filters.source_ids, {} for none
  dated,     \* the query names a date
  pc,
  lexical,   \* what the queries and the fusion have returned, best first
  dense,
  fused,
  inner,     \* what the retriever inside DateAwareRetriever returned
  results,   \* what the caller gets
  \* History, since the search began:
  onOnce,    \* sources that were enabled at some moment
  steady     \* chunks that could have been found at every moment

world  == <<on, row>>
query  == <<strategy, asked, dated>>
history == <<onOnce, steady>>
searchVars == <<world, query, pc, lexical, dense, fused, inner, results, history>>

(* apply_filters: off is off, whatever the caller asks for.                *)
Visible(sources, rows) ==
  {c \in Chunk : /\ rows[c] \in {"plain", "embedded"}
                 /\ SourceOf[c] \in sources
                 /\ asked # {} => SourceOf[c] \in asked}

SearchInit ==
  /\ on \in SUBSET Source
  /\ row \in [Chunk -> {"new", "plain", "embedded"}]
  /\ strategy \in Strategy /\ asked \in SUBSET Source /\ dated \in BOOLEAN
  /\ pc = (IF strategy = "dense" THEN "dense" ELSE "lexical")
  /\ lexical = <<>> /\ dense = <<>> /\ fused = <<>> /\ inner = <<>> /\ results = <<>>
  /\ onOnce = on /\ steady = Visible(on, row)

----------------------------------------------------------------------------
(* Meanwhile.                                                              *)

Moved ==
  /\ onOnce' = onOnce \cup on'
  /\ steady' = steady \cap Visible(on', row')
  /\ UNCHANGED <<query, pc, lexical, dense, fused, inner, results>>

(* PATCH of a source's enabled.  The whole row is saved: a PATCH of        *)
(* another field may write back an old enabled, which is a switch too;     *)
(* the status it writes back is SyncControl's.                             *)
Switch(s) == on' = SymDiff(on, {s}) /\ UNCHANGED row /\ Moved

(* A sync writes a chunk or purges one, whose key is not used again; a     *)
(* backfill saves an embedding.                                            *)
Becomes(c, from, to) ==
  row[c] \in from /\ row' = [row EXCEPT ![c] = to] /\ UNCHANGED on /\ Moved

----------------------------------------------------------------------------
(* The search.                                                             *)

Take(s, n) == SubSeq(s, 1, IF Len(s) < n THEN Len(s) ELSE n)

(* What a query that orders by relevance may return: the text or the       *)
(* vector index decides which rows match, and the LIMIT how many.          *)
Rankings(S, n) == {s \in SetToAllKPermutations(S) : Len(s) <= n}

(* A wrapped retriever is asked for fetch_k, a bare one for top_k.         *)
Wanted(name) == IF strategy = name THEN TopK ELSE FetchK

LexicalSearch ==
  /\ pc = "lexical"
  /\ lexical' \in Rankings(Visible(on, row), Wanted("lexical"))
  /\ IF strategy = "lexical" THEN pc' = "done" /\ results' = lexical'
                             ELSE pc' = "dense" /\ UNCHANGED results
  /\ UNCHANGED <<world, query, dense, fused, inner, history>>

DenseSearch ==
  /\ pc = "dense"
  /\ dense' \in Rankings({c \in Visible(on, row) : row[c] = "embedded"}, Wanted("dense"))
  /\ IF strategy = "dense" THEN pc' = "done" /\ results' = dense'
                           ELSE pc' = "fuse" /\ UNCHANGED results
  /\ UNCHANGED <<world, query, lexical, fused, inner, history>>

(* What sorting the elements of a set may come to.                         *)
InOrder(S, before(_, _)) ==
  {s \in SetToSeqs(S) : \A i, j \in DOMAIN s : i < j => before(s[i], s[j])}

(* Reciprocal rank fusion, in shares of a Unit they all divide.            *)
Rank(list, c)  == CHOOSE r \in DOMAIN list : list[r] = c
Share(list, c) == IF Contains(list, c) THEN Unit \div (RrfK + Rank(list, c)) ELSE 0

(* Fault: ranks themselves are added up, lowest first, which is to the     *)
(* advantage of a chunk only one query has found.                          *)
RankSum(c) ==
  LET rank(list) == IF Contains(list, c) THEN Rank(list, c) ELSE 0
  IN  Unit - (rank(lexical) + rank(dense))

Score(c) == Share(lexical, c) + Share(dense, c)

(* The sort is stable, over a dict in the order of first insertion.        *)
Place(c) == IF Contains(lexical, c) THEN Rank(lexical, c) ELSE Len(lexical) + Rank(dense, c)
Before(c, d) == Score(c) > Score(d) \/ (Score(c) = Score(d) /\ Place(c) < Place(d))

Fusion == InOrder(ToSet(lexical) \cup ToSet(dense), Before)

Fuse ==
  /\ pc = "fuse"
  /\ \E found \in Fusion : fused' = Take(found, Wanted("hybrid"))
  /\ IF strategy = "hybrid" THEN pc' = "dates" /\ inner' = fused'
                            ELSE pc' = "rerank" /\ UNCHANGED inner
  /\ UNCHANGED <<world, query, lexical, dense, results, history>>

(* The reranker's scores may put the candidates in any order.              *)
Rerank ==
  /\ pc = "rerank"
  /\ \E s \in SetToSeqs(DOMAIN fused) : inner' = Take([i \in DOMAIN s |-> fused[s[i]]], TopK)
  /\ pc' = "dates"
  /\ UNCHANGED <<world, query, lexical, dense, fused, results, history>>

(* RerankerUnavailableError: the order of the fusion will do.              *)
RerankerDown ==
  /\ pc = "rerank" /\ fused # <<>>
  /\ inner' = Take(fused, TopK)
  /\ pc' = "dates"
  /\ UNCHANGED <<world, query, lexical, dense, fused, results, history>>

(* Fault: the lookup by date looks in sources that are switched off.       *)
MatchesAnywhere(seen) ==
  InOrder({c \in Dated : row[c] \in {"plain", "embedded"} /\ c \notin seen}, <)

Matches(seen) ==
  InOrder({c \in Visible(on, row) : c \in Dated /\ c \notin seen}, <)

(* Fault: the chunks of the day crowd out everything else.                 *)
WithAllDates(found) == Take(found \o inner, TopK)

(* Without a match the results are not cut again, but they are short       *)
(* enough.                                                                 *)
WithDates(found) == Take(Take(found, MaxDateMatches) \o inner, TopK)

DateSearch ==
  /\ pc = "dates"
  /\ IF dated THEN \E found \in Matches(ToSet(inner)) : results' = WithDates(found)
              ELSE results' = inner
  /\ pc' = "done"
  /\ UNCHANGED <<world, query, lexical, dense, fused, inner, history>>

SearchNext ==
  \/ LexicalSearch \/ DenseSearch \/ Fuse \/ Rerank \/ RerankerDown \/ DateSearch
  \/ \E s \in Source : Switch(s)
  \/ \E c \in Chunk :
       \/ Becomes(c, {"new"}, "plain")
       \/ Becomes(c, {"plain"}, "embedded")
       \/ Becomes(c, {"plain", "embedded"}, "gone")

SearchSpec == SearchInit /\ [][SearchNext]_searchVars

----------------------------------------------------------------------------
(* What must hold.                                                         *)

(* A source that is off, or not asked for, is not searched by any of the   *)
(* queries: whatever is found was of a source that was enabled at some     *)
(* moment of the search ("a source that is off must never be retrieved",   *)
(* filtering.py).                                                          *)
SwitchedOffStaysOut ==
  \A i \in DOMAIN results :
    LET s == SourceOf[results[i]] IN s \in onOnce /\ (asked # {} => s \in asked)

(* A chunk that neither query ranks lower than another, and one of them    *)
(* ranks higher, comes before it, unless both are missing: what both       *)
(* halves agree on survives their fusion (hybrid.py), ties and absences    *)
(* included.                                                               *)
FusionRespectsBoth ==
  LET rank(list, c) == IF Contains(list, c) THEN Rank(list, c) ELSE FetchK + 1
      ahead(c, d) == /\ rank(lexical, c) <= rank(lexical, d)
                     /\ rank(dense, c) <= rank(dense, d)
                     /\ rank(lexical, c) + rank(dense, c) < rank(lexical, d) + rank(dense, d)
  IN  pc \in {"rerank", "dates"} =>
        \A j \in DOMAIN fused : \A c \in ToSet(lexical) \cup ToSet(dense) :
          ahead(c, fused[j]) => \E i \in 1 .. j - 1 : fused[i] = c

(* A question about a day finds a chunk that mentions it if there is one   *)
(* all the while, and yet the best of the other results keep their places: *)
(* the matches take MaxDateMatches at most, and nothing comes twice ("a    *)
(* date mentioned in passing shouldn't crowd out top_k entirely",          *)
(* date_matching.py).                                                      *)
DatesShareRoom ==
  pc = "done" /\ strategy \in {"hybrid", "hybrid_reranked"} =>
    /\ dated /\ steady \cap Dated # {} => ToSet(results) \cap Dated # {}
    /\ TopK > MaxDateMatches =>
         ToSet(Take(inner, TopK - MaxDateMatches)) \subseteq ToSet(results)
    /\ Len(results) <= TopK /\ IsInjective(results)

=============================================================================
