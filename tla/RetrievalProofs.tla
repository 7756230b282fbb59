-------------------------- MODULE RetrievalProofs --------------------------
(***************************************************************************)
(* Proofs about Retrieval for any corpus and any limits: a source that is  *)
(* off is not searched, what both halves of a hybrid search agree on       *)
(* survives their fusion, and the chunks of a day share the room.          *)
(***************************************************************************)
EXTENDS Retrieval, SequenceTheorems, FiniteSetTheorems, TLAPS

Hybrid == {"hybrid", "hybrid_reranked"}

(* A chunk that the search may return; a list of such, each one once.      *)
Eligible == {c \in Chunk : SourceOf[c] \in onOnce /\ (asked # {} => SourceOf[c] \in asked)}
Listed(list) == list \in Seq(Eligible) /\ IsInjective(list)

WorldInv ==
  /\ on \subseteq onOnce
  /\ row \in [Chunk -> {"new", "plain", "embedded", "gone"}]
  /\ steady \subseteq Visible(on, row)

StageInv ==
  /\ strategy \in Strategy /\ dated \in BOOLEAN
  /\ pc = "dense" => strategy # "lexical"
  /\ pc \in {"fuse", "dates"} => strategy \in Hybrid
  /\ pc = "rerank" => strategy = "hybrid_reranked"

(* A list is only as long as was asked for, and inner no longer than what  *)
(* the caller wants.                                                       *)
ListsInv ==
  /\ Listed(lexical) /\ Listed(dense) /\ Listed(fused) /\ Listed(inner) /\ Listed(results)
  /\ strategy \in Hybrid => Len(lexical) <= FetchK /\ Len(dense) <= FetchK
  /\ strategy \in Hybrid => Len(inner) <= TopK

SearchInv == WorldInv /\ StageInv /\ ListsInv /\ FusionRespectsBoth /\ DatesShareRoom

----------------------------------------------------------------------------
(* Sequences.                                                              *)

(* The first elements of a list.                                           *)
LEMMA Taken ==
  ASSUME NEW S, NEW s \in Seq(S), NEW n \in Nat
  PROVE  /\ Take(s, n) \in Seq(S) /\ Len(Take(s, n)) <= n /\ Len(Take(s, n)) <= Len(s)
         /\ Len(s) <= n => Len(Take(s, n)) = Len(s)
         /\ n <= Len(s) => Len(Take(s, n)) = n
         /\ \A i \in 1..Len(Take(s, n)) : Take(s, n)[i] = s[i]
         /\ IsInjective(s) => IsInjective(Take(s, n))
<1> DEFINE k == IF Len(s) < n THEN Len(s) ELSE n
           t == Take(s, n)
<1>1. k \in Nat /\ k <= n /\ k <= Len(s) /\ Len(s) \in Nat
  OBVIOUS
<1>2. t = SubSeq(s, 1, k)
  BY DEF Take
<1>3. /\ t \in Seq(S) /\ Len(t) = k /\ \A i \in 1..k : t[i] = s[i]
  BY <1>1, <1>2, SubSeqProperties
<1>4. IsInjective(s) => IsInjective(t)
  BY <1>1, <1>3 DEF IsInjective
<1>5. QED
  BY <1>1, <1>3, <1>4

(* An enumeration of a finite set is a list of all of its elements, each   *)
(* of them once.                                                           *)
LEMMA Enumerated ==
  ASSUME NEW S, IsFiniteSet(S), NEW s \in SetToSeqs(S)
  PROVE  /\ s \in Seq(S) /\ IsInjective(s) /\ Len(s) = Cardinality(S)
         /\ \A x \in S : \E i \in 1..Len(s) : s[i] = x
<1> DEFINE n == Cardinality(S)
<1>1. n \in Nat
  BY FS_CardinalityType
<1>2. s \in [1..n -> S] /\ \A i, j \in 1..n : i # j => s[i] # s[j]
  BY DEF SetToSeqs
<1>3. s \in Seq(S) /\ Len(s) = n /\ IsInjective(s)
  BY <1>1, <1>2 DEF IsInjective
<1>4. IsFiniteSet(1..n) /\ Cardinality(1..n) = n
  BY <1>1, FS_Interval
<1>5. s \in Injection(1..n, S)
  BY <1>2, <1>3 DEF Injection
<1>6. s \in Surjection(1..n, S)
  BY <1>4, <1>5, FS_Injection
<1>7. \A x \in S : \E i \in 1..n : s[i] = x
  BY <1>6 DEF Surjection
<1>8. QED
  BY <1>3, <1>7

(* A list of chunks of one set followed by one of others.                  *)
LEMMA Followed ==
  ASSUME NEW S, NEW a \in Seq(S), NEW b \in Seq(S), IsInjective(a), IsInjective(b),
         \A i \in 1..Len(a) : \A j \in 1..Len(b) : a[i] # b[j]
  PROVE  /\ a \o b \in Seq(S) /\ IsInjective(a \o b) /\ Len(a \o b) = Len(a) + Len(b)
         /\ \A i \in 1..Len(a) : (a \o b)[i] = a[i]
         /\ \A j \in 1..Len(b) : (a \o b)[Len(a) + j] = b[j]
<1> DEFINE ab == a \o b
<1>1. /\ ab \in Seq(S) /\ Len(ab) = Len(a) + Len(b)
      /\ \A i \in 1..Len(ab) : ab[i] = IF i <= Len(a) THEN a[i] ELSE b[i - Len(a)]
  BY ConcatProperties
<1>2. Len(a) \in Nat /\ Len(b) \in Nat
  OBVIOUS
<1> HIDE DEF ab
<1>3. ASSUME NEW i \in DOMAIN ab, NEW j \in DOMAIN ab, ab[i] = ab[j] PROVE i = j
  <2>1. i \in 1..Len(a) + Len(b) /\ j \in 1..Len(a) + Len(b)
    BY <1>1
  <2>2. CASE i <= Len(a) /\ j <= Len(a)
    BY <1>1, <1>2, <1>3, <2>1, <2>2 DEF IsInjective
  <2>3. CASE i > Len(a) /\ j > Len(a)
    <3>1. i - Len(a) \in 1..Len(b) /\ j - Len(a) \in 1..Len(b)
      BY <1>2, <2>1, <2>3
    <3>2. b[i - Len(a)] = b[j - Len(a)]
      BY <1>1, <1>2, <1>3, <2>1, <2>3
    <3>3. i - Len(a) = j - Len(a)
      BY <3>1, <3>2 DEF IsInjective
    <3>4. QED
      BY <1>2, <2>1, <3>3
  <2>4. CASE i <= Len(a) /\ j > Len(a)
    <3>1. i \in 1..Len(a) /\ j - Len(a) \in 1..Len(b)
      BY <1>2, <2>1, <2>4
    <3>2. a[i] = b[j - Len(a)]
      BY <1>1, <1>2, <1>3, <2>1, <2>4
    <3>3. QED
      BY <3>1, <3>2
  <2>5. CASE i > Len(a) /\ j <= Len(a)
    <3>1. j \in 1..Len(a) /\ i - Len(a) \in 1..Len(b)
      BY <1>2, <2>1, <2>5
    <3>2. a[j] = b[i - Len(a)]
      BY <1>1, <1>2, <1>3, <2>1, <2>5
    <3>3. QED
      BY <3>1, <3>2
  <2>6. QED
    BY <1>2, <2>1, <2>2, <2>3, <2>4, <2>5
<1>4. IsInjective(ab)
  BY <1>3 DEF IsInjective
<1>5. ASSUME NEW i \in 1..Len(a) PROVE ab[i] = a[i]
  <2>1. i \in 1..Len(ab) /\ i <= Len(a)
    BY <1>1, <1>2
  <2>2. QED
    BY <1>1, <2>1
<1>6. ASSUME NEW j \in 1..Len(b) PROVE ab[Len(a) + j] = b[j]
  <2>1. Len(a) + j \in 1..Len(ab) /\ ~ (Len(a) + j <= Len(a)) /\ (Len(a) + j) - Len(a) = j
    BY <1>1, <1>2
  <2>2. QED
    BY <1>1, <2>1
<1>7. QED
  BY <1>1, <1>4, <1>5, <1>6 DEF ab

(* A ranking of visible chunks.                                            *)
LEMMA RankingListed ==
  ASSUME NEW S, S \subseteq Chunk, NEW n \in Nat, NEW s \in Rankings(S, n)
  PROVE  s \in Seq(S) /\ IsInjective(s) /\ Len(s) <= n
<1>1. PICK T \in SUBSET S : s \in SetToSeqs(T)
  BY DEF Rankings, SetToAllKPermutations
<1>2. IsFiniteSet(T)
  BY CorpusAssumption, FS_Subset
<1>3. s \in Seq(T) /\ IsInjective(s)
  BY <1>1, <1>2, Enumerated
<1>4. s \in Seq(S) /\ Len(s) <= n
  BY <1>1, <1>3 DEF Rankings
<1>5. QED
  BY <1>3, <1>4

----------------------------------------------------------------------------
(* Shares.                                                                 *)

(* The lower a rank, the larger its share.                                 *)
LEMMA SharesFall ==
  ASSUME NEW a \in Nat \ {0}, NEW b \in Nat \ {0}, a <= b
  PROVE  Unit \div b <= Unit \div a /\ Unit \div a \in Nat
<1> DEFINE p == Unit \div a
           q == Unit \div b
<1>1. Unit \in Nat
  BY UnitAssumption
<1>2. p \in Int /\ Unit = a * p + (Unit % a) /\ 0 <= Unit % a /\ Unit % a < a
  BY <1>1
<1>3. q \in Int /\ Unit = b * q + (Unit % b) /\ 0 <= Unit % b /\ Unit % b < b
  BY <1>1
<1>4. QED
  BY <1>1, <1>2, <1>3

(* Where a list has a chunk; a list that does not comes last.              *)
PlaceIn(list, c) == IF Contains(list, c) THEN Rank(list, c) ELSE FetchK + 1

Ahead(a, b, c, d) ==
  /\ PlaceIn(a, c) <= PlaceIn(a, d) /\ PlaceIn(b, c) <= PlaceIn(b, d)
  /\ PlaceIn(a, c) + PlaceIn(b, c) < PlaceIn(a, d) + PlaceIn(b, d)

(* What the lists a and b agree on is so in the list f.                    *)
Keeps(a, b, f) ==
  \A j \in DOMAIN f : \A c \in ToSet(a) \cup ToSet(b) :
    Ahead(a, b, c, f[j]) => \E i \in 1 .. j - 1 : f[i] = c

LEMMA RankIs ==
  ASSUME NEW S, NEW list \in Seq(S), NEW c, Contains(list, c)
  PROVE  Rank(list, c) \in 1..Len(list) /\ list[Rank(list, c)] = c
BY DEF Rank, Contains

(* A chunk that a list has no later than another gets no smaller a share.  *)
LEMMA SharesFollow ==
  ASSUME NEW S, NEW list \in Seq(S), Len(list) <= FetchK, NEW c, NEW d,
         PlaceIn(list, c) <= PlaceIn(list, d)
  PROVE  Share(list, c) \in Nat /\ Share(list, d) \in Nat /\ Share(list, d) <= Share(list, c)
<1>1. FetchK \in Nat /\ Len(list) \in Nat
  BY LimitsAssumption
<1>2. ASSUME NEW x, Contains(list, x)
      PROVE  /\ Rank(list, x) \in 1..Len(list) /\ RrfK + Rank(list, x) \in Nat \ {0}
             /\ Share(list, x) = Unit \div (RrfK + Rank(list, x)) /\ Share(list, x) \in Nat
  <2>1. Rank(list, x) \in 1..Len(list)
    BY <1>2, RankIs
  <2>2. RrfK + Rank(list, x) \in Nat \ {0}
    BY <1>1, <2>1 DEF RrfK
  <2>3. Share(list, x) = Unit \div (RrfK + Rank(list, x))
    BY <1>2 DEF Share
  <2>4. QED
    BY <2>1, <2>2, <2>3, SharesFall
<1>3. ASSUME NEW x, ~ Contains(list, x) PROVE Share(list, x) = 0
  BY <1>3 DEF Share
<1>4. CASE Contains(list, d)
  <2>1. Contains(list, c)
    BY <1>1, <1>2, <1>4 DEF PlaceIn
  <2>2. Rank(list, c) <= Rank(list, d)
    BY <1>4, <2>1 DEF PlaceIn
  <2>3. RrfK + Rank(list, c) <= RrfK + Rank(list, d)
    BY <1>1, <1>2, <1>4, <2>1, <2>2 DEF RrfK
  <2>4. Share(list, d) <= Share(list, c)
    BY <1>2, <1>4, <2>1, <2>3, SharesFall
  <2>5. QED
    BY <1>2, <1>4, <2>1, <2>4
<1>5. CASE ~ Contains(list, d)
  <2>1. Share(list, d) = 0
    BY <1>3, <1>5
  <2>2. Share(list, c) \in Nat
    BY <1>2, <1>3
  <2>3. QED
    BY <2>1, <2>2
<1>6. QED
  BY <1>4, <1>5

(* What neither half ranks lower is not sorted after.                      *)
LEMMA AheadComesFirst ==
  ASSUME NEW S, lexical \in Seq(S), dense \in Seq(S), Len(lexical) <= FetchK, Len(dense) <= FetchK,
         NEW c \in ToSet(lexical) \cup ToSet(dense),
         NEW d \in ToSet(lexical) \cup ToSet(dense), Ahead(lexical, dense, c, d)
  PROVE  c # d /\ ~ Before(d, c)
<1>1. FetchK \in Nat /\ Len(lexical) \in Nat /\ Len(dense) \in Nat
  BY LimitsAssumption
<1>2. \A x \in {c, d} : Contains(lexical, x) \/ Contains(dense, x)
  BY DEF ToSet, Contains
<1>3. ASSUME NEW x \in {c, d}
      PROVE  /\ Contains(lexical, x) => /\ Rank(lexical, x) \in 1..Len(lexical)
                                       /\ lexical[Rank(lexical, x)] = x
             /\ Contains(dense, x) => /\ Rank(dense, x) \in 1..Len(dense)
                                     /\ dense[Rank(dense, x)] = x
  BY RankIs
<1>4. c # d
  <2>1. PlaceIn(lexical, c) \in Nat /\ PlaceIn(dense, c) \in Nat
    BY <1>1, <1>3 DEF PlaceIn
  <2>2. QED
    BY <2>1 DEF Ahead
<1>5. Score(c) \in Nat /\ Score(d) \in Nat /\ Score(d) <= Score(c)
  <2>1. /\ Share(lexical, c) \in Nat /\ Share(lexical, d) \in Nat
        /\ Share(lexical, d) <= Share(lexical, c)
    BY SharesFollow DEF Ahead
  <2>2. /\ Share(dense, c) \in Nat /\ Share(dense, d) \in Nat
        /\ Share(dense, d) <= Share(dense, c)
    BY SharesFollow DEF Ahead
  <2>3. QED
    BY <2>1, <2>2 DEF Score
<1>6. Place(c) \in Nat /\ Place(d) \in Nat /\ Place(c) < Place(d)
  <2>1. CASE Contains(lexical, c) /\ Contains(lexical, d)
    <3>1. Rank(lexical, c) <= Rank(lexical, d)
      BY <2>1 DEF Ahead, PlaceIn
    <3>2. Rank(lexical, c) # Rank(lexical, d)
      BY <1>3, <1>4, <2>1
    <3>3. QED
      BY <1>1, <1>3, <2>1, <3>1, <3>2 DEF Place
  <2>2. CASE Contains(lexical, c) /\ ~ Contains(lexical, d)
    <3>1. Contains(dense, d) /\ Rank(dense, d) \in 1..Len(dense) /\ Rank(lexical, c) \in 1..Len(lexical)
      BY <1>2, <1>3, <2>2
    <3>2. Place(c) = Rank(lexical, c) /\ Place(d) = Len(lexical) + Rank(dense, d)
      BY <2>2 DEF Place
    <3>3. QED
      BY <1>1, <3>1, <3>2
  <2>3. CASE ~ Contains(lexical, c)
    <3>1. ~ Contains(lexical, d)
      BY <1>1, <1>3, <2>3 DEF Ahead, PlaceIn
    <3>2. Contains(dense, c) /\ Contains(dense, d)
      BY <1>2, <2>3, <3>1
    <3>3. Rank(dense, c) <= Rank(dense, d)
      BY <3>2 DEF Ahead, PlaceIn
    <3>4. /\ Rank(dense, c) \in 1..Len(dense) /\ Rank(dense, d) \in 1..Len(dense)
          /\ Rank(dense, c) # Rank(dense, d)
      BY <1>3, <1>4, <3>2
    <3>5. Place(c) = Len(lexical) + Rank(dense, c) /\ Place(d) = Len(lexical) + Rank(dense, d)
      BY <2>3, <3>1 DEF Place
    <3>6. QED
      BY <1>1, <3>3, <3>4, <3>5
  <2>4. QED
    BY <2>1, <2>2, <2>3
<1>7. ~ Before(d, c)
  BY <1>5, <1>6 DEF Before
<1>8. QED
  BY <1>4, <1>7

(* The fusion is a list of what was found, in which what both halves agree *)
(* on keeps its order.                                                     *)
LEMMA FusionKeeps ==
  ASSUME Listed(lexical), Listed(dense), Len(lexical) <= FetchK, Len(dense) <= FetchK,
         NEW s \in Fusion, NEW n \in Nat
  PROVE  /\ Listed(Take(s, n)) /\ Len(Take(s, n)) <= n
         /\ Keeps(lexical, dense, Take(s, n))
<1> DEFINE found == ToSet(lexical) \cup ToSet(dense)
           t == Take(s, n)
<1>1. found \subseteq Eligible /\ lexical \in Seq(Eligible) /\ dense \in Seq(Eligible)
  BY DEF Listed, ToSet
<1>2. IsFiniteSet(found)
  <2>1. found \in SUBSET Chunk
    BY <1>1 DEF Eligible
  <2>2. QED
    BY <2>1, CorpusAssumption, FS_Subset
<1>3. s \in SetToSeqs(found) /\ \A i, j \in DOMAIN s : i < j => Before(s[i], s[j])
  BY DEF Fusion, InOrder
<1> HIDE DEF found
<1>4. /\ s \in Seq(found) /\ IsInjective(s)
      /\ \A x \in found : \E i \in 1..Len(s) : s[i] = x
  BY <1>2, <1>3, Enumerated
<1>5. /\ t \in Seq(found) /\ IsInjective(t) /\ Len(t) <= n /\ Len(t) <= Len(s)
      /\ \A i \in 1..Len(t) : t[i] = s[i]
  BY <1>4, Taken
<1> HIDE DEF t
<1>6. Listed(t)
  BY <1>1, <1>5 DEF Listed
<1> DEFINE lt == Len(t)
           ls == Len(s)
<1>7. lt \in Nat /\ ls \in Nat /\ DOMAIN t = 1..lt /\ DOMAIN s = 1..ls /\ lt <= ls
  BY <1>4, <1>5
<1>8. ASSUME NEW j \in DOMAIN t, NEW c \in found, Ahead(lexical, dense, c, t[j])
      PROVE  \E i \in 1 .. j - 1 : t[i] = c
  <2>1. j \in 1..lt /\ j \in 1..ls
    BY <1>7
  <2>2. t[j] = s[j] /\ t[j] \in found
    BY <1>5, <1>7
  <2>3. c # t[j] /\ ~ Before(t[j], c)
    BY <1>1, <1>8, <2>2, AheadComesFirst DEF found
  <2>4. PICK k \in 1..ls : s[k] = c
    BY <1>4
  <2> HIDE DEF lt, ls
  <2>5. ~ (j < k)
    BY <1>3, <1>7, <2>1, <2>2, <2>3, <2>4
  <2>6. k # j
    BY <2>2, <2>3, <2>4
  <2>7. k \in 1 .. j - 1 /\ k \in 1..lt
    BY <1>7, <2>1, <2>4, <2>5, <2>6
  <2>8. t[k] = c
    BY <1>5, <2>4, <2>7 DEF lt
  <2>9. QED
    BY <2>7, <2>8
<1>9. QED
  BY <1>5, <1>6, <1>8 DEF found, t, Keeps

----------------------------------------------------------------------------
(* Dates.                                                                  *)

(* The matches go first, but no more than MaxDateMatches of them: one that *)
(* there is all the while is among the results, and so are the best of     *)
(* what there was.                                                         *)
LEMMA DatesKept ==
  ASSUME WorldInv, Listed(inner), Len(inner) <= TopK, NEW found \in Matches(ToSet(inner))
  PROVE  /\ Listed(WithDates(found)) /\ Len(WithDates(found)) <= TopK
         /\ steady \cap Dated # {} => ToSet(WithDates(found)) \cap Dated # {}
         /\ TopK > MaxDateMatches =>
              ToSet(Take(inner, TopK - MaxDateMatches)) \subseteq ToSet(WithDates(found))
<1> DEFINE others == {c \in Visible(on, row) : c \in Dated /\ c \notin ToSet(inner)}
           m  == Take(found, MaxDateMatches)
           mi == m \o inner
           r  == WithDates(found)
<1>1. TopK \in Nat \ {0} /\ MaxDateMatches \in Nat \ {0}
  BY LimitsAssumption
<1>2. others \subseteq Eligible
  BY DEF WorldInv, Visible, Eligible
<1>3. IsFiniteSet(others)
  <2>1. others \in SUBSET Chunk
    BY DEF Visible
  <2>2. QED
    BY <2>1, CorpusAssumption, FS_Subset
<1>4. found \in SetToSeqs(others)
  BY DEF Matches, InOrder
<1>5. \A c \in others : c \in Dated /\ c \notin ToSet(inner)
  OBVIOUS
<1>6. \A c \in steady \cap Dated : c \in others \/ c \in ToSet(inner)
  BY DEF WorldInv
<1> HIDE DEF others
<1>7. /\ found \in Seq(others) /\ IsInjective(found)
      /\ \A x \in others : \E i \in 1..Len(found) : found[i] = x
  BY <1>3, <1>4, Enumerated
<1>8. /\ m \in Seq(others) /\ IsInjective(m) /\ Len(m) <= MaxDateMatches
      /\ Len(found) <= MaxDateMatches => Len(m) = Len(found)
      /\ MaxDateMatches <= Len(found) => Len(m) = MaxDateMatches
  BY <1>1, <1>7, Taken
<1>9. r = Take(mi, TopK)
  BY DEF WithDates
<1> HIDE DEF m
<1>10. m \in Seq(Eligible) /\ \A i \in 1..Len(m) : m[i] \in Dated
  BY <1>2, <1>5, <1>8
<1>11. inner \in Seq(Eligible) /\ IsInjective(inner)
  BY DEF Listed
<1>12. \A i \in 1..Len(m) : \A j \in 1..Len(inner) : m[i] # inner[j]
  BY <1>5, <1>8, <1>11 DEF ToSet
<1>13. /\ mi \in Seq(Eligible) /\ IsInjective(mi) /\ Len(mi) = Len(m) + Len(inner)
       /\ \A i \in 1..Len(m) : mi[i] = m[i]
       /\ \A j \in 1..Len(inner) : mi[Len(m) + j] = inner[j]
  BY <1>8, <1>10, <1>11, <1>12, Followed
<1> HIDE DEF mi, r
<1>14. /\ r \in Seq(Eligible) /\ IsInjective(r) /\ Len(r) <= TopK
       /\ Len(mi) <= TopK => Len(r) = Len(mi)
       /\ TopK <= Len(mi) => Len(r) = TopK
       /\ \A i \in 1..Len(r) : r[i] = mi[i]
  BY <1>1, <1>9, <1>13, Taken
<1> DEFINE lm == Len(m)
           li == Len(inner)
           lr == Len(r)
<1>15. /\ lm \in Nat /\ li \in Nat /\ lr \in Nat /\ lm <= MaxDateMatches /\ li <= TopK
       /\ lm + li <= TopK => lr = lm + li
       /\ TopK <= lm + li => lr = TopK
       /\ DOMAIN r = 1..lr /\ DOMAIN inner = 1..li
  BY <1>8, <1>11, <1>13, <1>14
<1>16. \A j \in 1..li : lm + j <= TopK => lm + j \in 1..lr /\ r[lm + j] = inner[j]
  <2> SUFFICES ASSUME NEW j \in 1..li, lm + j <= TopK
               PROVE  lm + j \in 1..lr /\ r[lm + j] = inner[j]
    OBVIOUS
  <2>1. lm + j \in 1..lr
    <3> HIDE DEF lm, li, lr
    <3>1. QED
      BY <1>1, <1>15
  <2>2. r[lm + j] = mi[lm + j]
    BY <1>14, <2>1
  <2>3. mi[lm + j] = inner[j]
    BY <1>13
  <2>4. QED
    BY <2>1, <2>2, <2>3
<1>17. steady \cap Dated # {} => ToSet(r) \cap Dated # {}
  <2> SUFFICES ASSUME NEW c \in steady \cap Dated PROVE ToSet(r) \cap Dated # {}
    OBVIOUS
  <2>1. CASE lm > 0
    <3>1. 1 \in 1..lm /\ 1 \in 1..lr
      <4> HIDE DEF lm, li, lr
      <4>1. QED
        BY <1>1, <1>15, <2>1
    <3>2. r[1] = m[1] /\ m[1] \in Dated
      BY <1>10, <1>13, <1>14, <3>1
    <3>3. 1 \in DOMAIN r
      BY <1>15, <3>1
    <3>4. QED
      BY <3>2, <3>3 DEF ToSet
  <2>2. CASE lm = 0
    <3>1. Len(found) = 0
      <4>1. Len(found) \in Nat
        BY <1>7
      <4>2. QED
        BY <1>1, <1>8, <2>2, <4>1
    <3>2. c \in ToSet(inner)
      BY <1>6, <1>7, <3>1
    <3>3. PICK k \in 1..li : inner[k] = c
      BY <1>15, <3>2 DEF ToSet
    <3>4. lm + k = k /\ k <= TopK
      <4> HIDE DEF lm, li
      <4>1. QED
        BY <1>1, <1>15, <2>2, <3>3
    <3>5. k \in DOMAIN r /\ r[k] = c
      BY <1>15, <1>16, <3>3, <3>4
    <3>6. QED
      BY <3>5 DEF ToSet
  <2>3. lm \in Nat
    BY <1>15
  <2> HIDE DEF lm
  <2>4. lm > 0 \/ lm = 0
    BY <2>3
  <2>5. QED
    BY <2>1, <2>2, <2>4
<1>18. ASSUME TopK > MaxDateMatches
       PROVE  ToSet(Take(inner, TopK - MaxDateMatches)) \subseteq ToSet(r)
  <2> DEFINE n == TopK - MaxDateMatches
             kept == Take(inner, n)
  <2>1. n \in Nat
    BY <1>1, <1>18
  <2>2. /\ kept \in Seq(Eligible) /\ Len(kept) <= n /\ Len(kept) <= Len(inner)
        /\ \A i \in 1..Len(kept) : kept[i] = inner[i]
    BY <1>11, <2>1, Taken
  <2> HIDE DEF kept
  <2>3. ASSUME NEW i \in DOMAIN kept PROVE \E k \in DOMAIN r : r[k] = kept[i]
    <3>1. i \in 1..Len(kept) /\ Len(kept) \in Nat
      BY <2>2
    <3>2. i \in 1..li /\ lm + i <= TopK
      <4>1. i <= n /\ i <= li /\ i \in Nat
        BY <1>11, <2>1, <2>2, <3>1
      <4>2. lm \in Nat /\ li \in Nat /\ lm <= MaxDateMatches
        BY <1>15
      <4> HIDE DEF lm, li
      <4>3. i \in 1..li
        BY <3>1, <4>1, <4>2
      <4>4. lm + i <= TopK
        BY <1>1, <4>1, <4>2
      <4>5. QED
        BY <4>3, <4>4
    <3>3. lm + i \in DOMAIN r /\ r[lm + i] = inner[i]
      BY <1>15, <1>16, <3>2
    <3>4. QED
      BY <2>2, <3>1, <3>3
  <2>4. QED
    BY <2>3 DEF ToSet, kept
<1>19. QED
  BY <1>14, <1>17, <1>18 DEF r, Listed

----------------------------------------------------------------------------
(* The initial states, and the steps.                                      *)

LEMMA NothingListed == Listed(<<>>) /\ Len(<<>>) = 0
BY DEF Listed, IsInjective

LEMMA SearchFirst == SearchInit => SearchInv
<1> SUFFICES ASSUME SearchInit PROVE SearchInv
  OBVIOUS
<1> USE DEF SearchInit
<1>1. WorldInv
  BY DEF WorldInv
<1>2. StageInv
  BY DEF StageInv
<1>3. ListsInv
  BY NothingListed, LimitsAssumption DEF ListsInv
<1>4. pc \notin {"rerank", "dates", "done"}
  OBVIOUS
<1>5. FusionRespectsBoth /\ DatesShareRoom
  BY <1>4 DEF FusionRespectsBoth, DatesShareRoom
<1>6. QED
  BY <1>1, <1>2, <1>3, <1>5 DEF SearchInv

(* What is eligible stays so, and with it the lists.                       *)
LEMMA ListedStays ==
  ASSUME NEW list, Listed(list), onOnce \subseteq onOnce', asked' = asked
  PROVE  list \in Seq(Eligible') /\ IsInjective(list)
<1>1. Eligible \subseteq Eligible'
  BY DEF Eligible
<1>2. list \in Seq(Eligible) /\ IsInjective(list)
  BY DEF Listed
<1>3. QED
  BY <1>1, <1>2

(* Users, syncs and the backfill go on while the search runs.              *)
LEMMA MeanwhileStep ==
  ASSUME SearchInv, Moved, row' \in [Chunk -> {"new", "plain", "embedded", "gone"}]
  PROVE  SearchInv'
<1> USE DEF SearchInv
<1>1. /\ onOnce' = onOnce \cup on' /\ steady' = steady \cap Visible(on', row')
      /\ UNCHANGED <<strategy, asked, dated, pc, lexical, dense, fused, inner, results>>
  BY DEF Moved, query
<1>2. WorldInv'
  <2>1. Visible(on, row)' = Visible(on', row')
    BY <1>1 DEF Visible
  <2>2. QED
    BY <1>1, <2>1 DEF WorldInv
<1>3. StageInv'
  BY <1>1 DEF StageInv
<1>4. ListsInv'
  <2>1. onOnce \subseteq onOnce'
    BY <1>1
  <2>2. \A list \in {lexical, dense, fused, inner, results} :
          list \in Seq(Eligible') /\ IsInjective(list)
    BY <1>1, <2>1, ListedStays DEF ListsInv
  <2>3. QED
    BY <1>1, <2>2 DEF ListsInv, Listed
<1>5. FusionRespectsBoth'
  BY <1>1 DEF FusionRespectsBoth, Rank
<1>6. DatesShareRoom'
  BY <1>1 DEF DatesShareRoom
<1>7. QED
  BY <1>2, <1>3, <1>4, <1>5, <1>6

(* The search moves on with the world as it was.                           *)
LEMMA WorldStays ==
  ASSUME WorldInv, UNCHANGED <<world, query, history>>
  PROVE  WorldInv' /\ Eligible' = Eligible
BY DEF WorldInv, world, query, history, Visible, Eligible

LEMMA LexicalStep == ASSUME SearchInv, LexicalSearch PROVE SearchInv'
<1> USE DEF SearchInv
<1>1. /\ lexical' \in Rankings(Visible(on, row), Wanted("lexical"))
      /\ IF strategy = "lexical" THEN pc' = "done" /\ results' = lexical'
                                 ELSE pc' = "dense" /\ UNCHANGED results
      /\ UNCHANGED <<world, query, strategy, dated, dense, fused, inner, history>>
  BY DEF LexicalSearch, query
<1>2. WorldInv' /\ Eligible' = Eligible
  BY <1>1, WorldStays
<1>3. Visible(on, row) \subseteq Eligible /\ Visible(on, row) \subseteq Chunk
  BY DEF WorldInv, Visible, Eligible
<1>4. Wanted("lexical") \in Nat /\ (strategy \in Hybrid => Wanted("lexical") = FetchK)
  BY LimitsAssumption DEF Wanted, Hybrid
<1>5. /\ lexical' \in Seq(Visible(on, row)) /\ IsInjective(lexical')
      /\ Len(lexical') <= Wanted("lexical")
  BY <1>1, <1>3, <1>4, RankingListed
<1>6. lexical' \in Seq(Eligible)
  BY <1>3, <1>5
<1>7. StageInv'
  BY <1>1 DEF StageInv
<1>8. ListsInv'
  BY <1>1, <1>2, <1>4, <1>5, <1>6 DEF ListsInv, Listed
<1>9. FusionRespectsBoth' /\ DatesShareRoom'
  BY <1>1 DEF FusionRespectsBoth, DatesShareRoom
<1>10. QED
  BY <1>2, <1>7, <1>8, <1>9

LEMMA DenseStep == ASSUME SearchInv, DenseSearch PROVE SearchInv'
<1> DEFINE embedded == {c \in Visible(on, row) : row[c] = "embedded"}
<1> USE DEF SearchInv
<1>1. /\ pc = "dense" /\ dense' \in Rankings(embedded, Wanted("dense"))
      /\ IF strategy = "dense" THEN pc' = "done" /\ results' = dense'
                               ELSE pc' = "fuse" /\ UNCHANGED results
      /\ UNCHANGED <<world, query, strategy, dated, lexical, fused, inner, history>>
  BY DEF DenseSearch, query
<1>2. WorldInv' /\ Eligible' = Eligible
  BY <1>1, WorldStays
<1>3. embedded \subseteq Eligible /\ embedded \subseteq Chunk
  BY DEF WorldInv, Visible, Eligible
<1> HIDE DEF embedded
<1>4. Wanted("dense") \in Nat /\ (strategy \in Hybrid => Wanted("dense") = FetchK)
  BY LimitsAssumption DEF Wanted, Hybrid
<1>5. dense' \in Seq(embedded) /\ IsInjective(dense') /\ Len(dense') <= Wanted("dense")
  BY <1>1, <1>3, <1>4, RankingListed
<1>6. dense' \in Seq(Eligible)
  BY <1>3, <1>5
<1>7. StageInv'
  BY <1>1 DEF StageInv, Strategy, Hybrid
<1>8. ListsInv'
  BY <1>1, <1>2, <1>4, <1>5, <1>6 DEF ListsInv, Listed
<1>9. FusionRespectsBoth' /\ DatesShareRoom'
  BY <1>1 DEF FusionRespectsBoth, DatesShareRoom
<1>10. QED
  BY <1>2, <1>7, <1>8, <1>9

(* FusionRespectsBoth in the words of this module.                         *)
LEMMA FusionIs ==
  FusionRespectsBoth <=> (pc \in {"rerank", "dates"} => Keeps(lexical, dense, fused))
BY DEF FusionRespectsBoth, Keeps, Ahead, PlaceIn

LEMMA FuseStep == ASSUME SearchInv, Fuse PROVE SearchInv'
<1> USE DEF SearchInv
<1>1. PICK found \in Fusion :
        /\ pc = "fuse" /\ fused' = Take(found, Wanted("hybrid"))
        /\ IF strategy = "hybrid" THEN pc' = "dates" /\ inner' = fused'
                                  ELSE pc' = "rerank" /\ UNCHANGED inner
        /\ UNCHANGED <<world, query, strategy, dated, lexical, dense, results, history>>
  BY DEF Fuse, query
<1>2. WorldInv' /\ Eligible' = Eligible
  BY <1>1, WorldStays
<1>3. strategy \in Hybrid
  BY <1>1 DEF StageInv
<1>4. /\ Listed(lexical) /\ Len(lexical) <= FetchK
      /\ Listed(dense) /\ Len(dense) <= FetchK
      /\ Len(inner) <= TopK
  BY <1>3 DEF ListsInv
<1>5. Wanted("hybrid") \in Nat /\ (strategy = "hybrid" => Wanted("hybrid") = TopK)
  BY LimitsAssumption DEF Wanted
<1>6. /\ Listed(fused') /\ Len(fused') <= Wanted("hybrid")
      /\ Keeps(lexical, dense, fused')
  BY <1>1, <1>4, <1>5, FusionKeeps
<1>7. StageInv'
  BY <1>1, <1>3 DEF StageInv, Hybrid
<1>8. ListsInv'
  <2>1. Listed(fused)' /\ Listed(inner)'
    BY <1>1, <1>2, <1>6 DEF Listed, ListsInv
  <2>2. (strategy \in Hybrid => Len(inner) <= TopK)'
    BY <1>1, <1>4, <1>5, <1>6
  <2>3. QED
    BY <1>1, <1>2, <2>1, <2>2 DEF ListsInv, Listed
<1>9. FusionRespectsBoth'
  <2>1. Keeps(lexical', dense', fused')
    BY <1>1, <1>6
  <2>2. QED
    BY <2>1 DEF FusionRespectsBoth, Keeps, Ahead, PlaceIn
<1>10. DatesShareRoom'
  BY <1>1 DEF DatesShareRoom
<1>11. QED
  BY <1>2, <1>7, <1>8, <1>9, <1>10

(* What a step of the reranker leaves alone.                               *)
LEMMA RerankedStep ==
  ASSUME SearchInv, pc = "rerank", pc' = "dates", Listed(inner'), Len(inner') <= TopK,
         UNCHANGED <<world, query, lexical, dense, fused, results, history>>
  PROVE  SearchInv'
<1> USE DEF SearchInv
<1>1. UNCHANGED <<strategy, dated>>
  BY DEF query
<1>2. WorldInv' /\ Eligible' = Eligible
  BY WorldStays
<1>3. StageInv'
  BY <1>1 DEF StageInv, Hybrid
<1>4. ListsInv'
  BY <1>1, <1>2 DEF ListsInv, Listed
<1>5. FusionRespectsBoth'
  <2>1. Keeps(lexical', dense', fused')
    BY FusionIs
  <2>2. QED
    BY <2>1 DEF FusionRespectsBoth, Keeps, Ahead, PlaceIn
<1>6. DatesShareRoom'
  BY DEF DatesShareRoom
<1>7. QED
  BY <1>2, <1>3, <1>4, <1>5, <1>6

LEMMA RerankStep == ASSUME SearchInv, Rerank PROVE SearchInv'
<1>1. PICK s \in SetToSeqs(DOMAIN fused) :
        inner' = Take([i \in DOMAIN s |-> fused[s[i]]], TopK)
  BY DEF Rerank
<1>2. fused \in Seq(Eligible) /\ IsInjective(fused) /\ TopK \in Nat
  BY LimitsAssumption DEF SearchInv, ListsInv, Listed
<1> DEFINE l == Len(fused)
           order == [i \in DOMAIN s |-> fused[s[i]]]
<1>3. l \in Nat /\ DOMAIN fused = 1..l /\ IsFiniteSet(1..l) /\ \A i \in 1..l : fused[i] \in Eligible
  BY <1>2, FS_Interval
<1>4. s \in Seq(1..l) /\ IsInjective(s)
  BY <1>1, <1>3, Enumerated
<1> HIDE DEF l
<1>5. Len(s) \in Nat /\ DOMAIN s = 1..Len(s) /\ \A i \in 1..Len(s) : s[i] \in 1..l
  BY <1>4, LenProperties, ElementOfSeq
<1>6. ASSUME NEW i \in 1..Len(s) PROVE fused[s[i]] \in Eligible
  BY <1>3, <1>5
<1>7. IsInjective(order)
  BY <1>2, <1>3, <1>4, <1>5 DEF IsInjective
<1>8. inner' = Take(order, TopK)
  BY <1>1
<1> HIDE DEF order
<1>9. order \in Seq(Eligible)
  BY <1>5, <1>6 DEF order
<1>10. Listed(inner') /\ Len(inner') <= TopK
  BY <1>2, <1>7, <1>8, <1>9, Taken DEF Listed
<1>11. QED
  BY <1>10, RerankedStep DEF Rerank

LEMMA RerankerDownStep == ASSUME SearchInv, RerankerDown PROVE SearchInv'
<1>1. fused \in Seq(Eligible) /\ IsInjective(fused) /\ TopK \in Nat
  BY LimitsAssumption DEF SearchInv, ListsInv, Listed
<1>2. Listed(inner') /\ Len(inner') <= TopK
  BY <1>1, Taken DEF Listed, RerankerDown
<1>3. QED
  BY <1>2, RerankedStep DEF RerankerDown

LEMMA DateStep == ASSUME SearchInv, DateSearch PROVE SearchInv'
<1> USE DEF SearchInv
<1>1. /\ pc = "dates" /\ pc' = "done"
      /\ UNCHANGED <<world, query, strategy, dated, lexical, dense, fused, inner, history, steady>>
  BY DEF DateSearch, query, history
<1>2. WorldInv' /\ Eligible' = Eligible
  BY <1>1, WorldStays
<1>3. Listed(inner) /\ Len(inner) <= TopK
  BY <1>1 DEF StageInv, ListsInv
<1>4. /\ Listed(results') /\ Len(results') <= TopK
      /\ dated /\ steady \cap Dated # {} => ToSet(results') \cap Dated # {}
      /\ TopK > MaxDateMatches =>
           ToSet(Take(inner, TopK - MaxDateMatches)) \subseteq ToSet(results')
  <2>1. CASE dated
    BY <1>3, <2>1, DatesKept DEF DateSearch
  <2>2. CASE ~ dated
    <3>1. results' = inner
      BY <2>2 DEF DateSearch
    <3>2. ASSUME TopK > MaxDateMatches
          PROVE  ToSet(Take(inner, TopK - MaxDateMatches)) \subseteq ToSet(inner)
      <4> DEFINE kept == Take(inner, TopK - MaxDateMatches)
      <4>1. TopK - MaxDateMatches \in Nat /\ inner \in Seq(Eligible)
        BY <1>3, <3>2, LimitsAssumption DEF Listed
      <4>2. /\ kept \in Seq(Eligible) /\ Len(kept) <= Len(inner)
            /\ \A i \in 1..Len(kept) : kept[i] = inner[i]
        BY <4>1, Taken
      <4> HIDE DEF kept
      <4>3. DOMAIN kept \subseteq DOMAIN inner /\ \A i \in DOMAIN kept : kept[i] = inner[i]
        BY <4>1, <4>2
      <4>4. QED
        BY <4>3 DEF ToSet, kept
    <3>3. QED
      BY <1>3, <2>2, <3>1, <3>2
  <2>3. QED
    BY <2>1, <2>2
<1>5. StageInv'
  BY <1>1 DEF StageInv
<1>6. ListsInv'
  BY <1>1, <1>2, <1>4 DEF ListsInv, Listed
<1>7. FusionRespectsBoth'
  BY <1>1 DEF FusionRespectsBoth
<1>8. DatesShareRoom'
  BY <1>1, <1>4 DEF DatesShareRoom, Listed, Take
<1>9. QED
  BY <1>2, <1>5, <1>6, <1>7, <1>8

(* Every step keeps the invariant.                                         *)
LEMMA SearchStep == SearchInv /\ [SearchNext]_searchVars => SearchInv'
<1> SUFFICES ASSUME SearchInv, [SearchNext]_searchVars PROVE SearchInv'
  OBVIOUS
<1>1. row \in [Chunk -> {"new", "plain", "embedded", "gone"}]
  BY DEF SearchInv, WorldInv
<1>2. ASSUME NEW s \in Source, Switch(s) PROVE SearchInv'
  BY <1>1, <1>2, MeanwhileStep DEF Switch
<1>3. ASSUME NEW c \in Chunk, NEW from,
             NEW to \in {"plain", "embedded", "gone"}, Becomes(c, from, to)
      PROVE  SearchInv'
  BY <1>1, <1>3, MeanwhileStep DEF Becomes
<1>4. CASE UNCHANGED searchVars
  <2>1. /\ UNCHANGED <<world, query, history, strategy, asked, dated, pc, lexical, dense,
                       fused, inner, results, steady>>
    BY <1>4 DEF searchVars, query, history
  <2>2. WorldInv' /\ Eligible' = Eligible
    BY <2>1, WorldStays DEF SearchInv
  <2>3. StageInv' /\ ListsInv'
    BY <2>1, <2>2 DEF SearchInv, StageInv, ListsInv, Listed
  <2>4. FusionRespectsBoth' /\ DatesShareRoom'
    BY <2>1 DEF SearchInv, FusionRespectsBoth, DatesShareRoom, Rank, Take
  <2>5. QED
    BY <2>2, <2>3, <2>4 DEF SearchInv
<1>5. QED
  BY <1>2, <1>3, <1>4, LexicalStep, DenseStep, FuseStep, RerankStep, RerankerDownStep, DateStep
  DEF SearchNext

LEMMA SearchHolds == SearchSpec => []SearchInv
BY SearchFirst, SearchStep, PTL DEF SearchSpec

----------------------------------------------------------------------------
(* The theorems.                                                           *)

(* Whatever a search returns is of a source that was enabled at some       *)
(* moment of it, and that the caller asked for if he asked for any, however *)
(* many switches, syncs and backfills go on between its queries:           *)
(* apply_filters (filtering.py) is part of each of them.                   *)
THEOREM SwitchedOff == SearchSpec => []SwitchedOffStaysOut
<1>1. SearchInv => SwitchedOffStaysOut
  <2> SUFFICES ASSUME SearchInv, NEW i \in DOMAIN results PROVE results[i] \in Eligible
    BY DEF SwitchedOffStaysOut, Eligible
  <2>1. QED
    BY DEF SearchInv, ListsInv, Listed
<1>2. QED
  BY <1>1, SearchHolds, PTL

(* Reciprocal rank fusion (hybrid.py) keeps the order of any two chunks    *)
(* that its two rankings do not disagree on, for every length of the lists *)
(* and also where the scores tie and the order of insertion decides.       *)
THEOREM FusionAgrees == SearchSpec => []FusionRespectsBoth
<1>1. SearchInv => FusionRespectsBoth
  BY DEF SearchInv
<1>2. QED
  BY <1>1, SearchHolds, PTL

(* The chunks of a day that DateAwareRetriever (date_matching.py) puts     *)
(* first are there when there are any, leave the best other results their  *)
(* places, and repeat none of them, whatever the limits.                   *)
THEOREM DatesAreFound == SearchSpec => []DatesShareRoom
<1>1. SearchInv => DatesShareRoom
  BY DEF SearchInv
<1>2. QED
  BY <1>1, SearchHolds, PTL

=============================================================================
