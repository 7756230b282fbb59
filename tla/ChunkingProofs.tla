--------------------------- MODULE ChunkingProofs ---------------------------
(***************************************************************************)
(* Proofs about Chunking for any document, any weights of lines and any    *)
(* limits: no line is lost or cited under a heading that is not its own,   *)
(* and chunks are not larger or smaller than they have to be.  Parser and  *)
(* chunker are loops, here functions defined by recursion on the number of *)
(* rounds; what holds after each round is an invariant of the loop, which  *)
(* IntervalInduction extends to the last.                                  *)
(***************************************************************************)
EXTENDS Chunking, SequenceTheorems, FiniteSetTheorems, WellFoundedInduction, TLAPS

----------------------------------------------------------------------------
(* Induction and recursion over numbers.                                   *)

(* A set of numbers with 0 and the successors of its elements has all.     *)
LEMMA SetInduction ==
  ASSUME NEW S, 0 \in S, \A n \in Nat : n \in S => n + 1 \in S
  PROVE  Nat \subseteq S
<1> DEFINE R == OpToRel(<, Nat)
           T == Nat \ S
<1>1. R = {p \in Nat \X Nat : p[1] < p[2]}
  BY DEF OpToRel
<1>2. IsWellFoundedOn(R, Nat)
  BY NatLessThanWellFounded
<1> HIDE DEF R
<1>3. SUFFICES ASSUME T # {} PROVE FALSE
  OBVIOUS
<1>4. PICK x \in T : \A y \in T : ~ (<<y, x>> \in R)
  <2>1. T \subseteq Nat
    OBVIOUS
  <2> HIDE DEF T
  <2>2. QED
    BY <1>2, <1>3, <2>1, WFMin
<1>5. x # 0 /\ x \in Nat
  OBVIOUS
<1>6. x - 1 \in Nat /\ x - 1 + 1 = x
  BY <1>5
<1>7. x - 1 \in S
  <2>1. CASE x - 1 \in T
    <3>1. <<x - 1, x>> \in R
      BY <1>1, <1>5, <1>6
    <3>2. QED
      BY <1>4, <2>1, <3>1
  <2>2. QED
    BY <1>6, <2>1
<1>8. QED
  BY <1>6, <1>7

LEMMA IntervalInduction ==
  ASSUME NEW a \in Int, NEW b \in Int, NEW S, a \in S,
         \A n \in a .. b - 1 : n \in S => n + 1 \in S
  PROVE  \A n \in a .. b : n \in S
<1> DEFINE T == {k \in Nat : a + k <= b => a + k \in S}
<1>1. 0 \in T
  OBVIOUS
<1>2. \A n \in Nat : n \in T => n + 1 \in T
  <2> TAKE n \in Nat
  <2> HAVE n \in T
  <2>1. CASE a + n + 1 <= b
    <3>1. a + n \in a .. b - 1 /\ a + n \in S
      BY <2>1
    <3>2. a + n + 1 \in S
      BY <3>1
    <3>3. QED
      BY <3>2
  <2>2. QED
    BY <2>1
<1>3. Nat \subseteq T
  <2> HIDE DEF T
  <2>1. QED
    BY <1>1, <1>2, SetInduction
<1> TAKE n \in a .. b
<1>4. n - a \in Nat /\ a + (n - a) = n
  OBVIOUS
<1>5. n - a \in T
  BY <1>3, <1>4
<1>6. QED
  BY <1>4, <1>5

(* f is what a loop of b rounds goes through whose n-th round takes x to   *)
(* G[<<n, x>>].                                                            *)
History(f, b, S, base, G) ==
  /\ f \in [0 .. b -> S] /\ f[0] = base
  /\ \A n \in 1 .. b : f[n] = G[<<n, f[n - 1]>>]

(* A loop that goes from a value of S to a value of S has a history.       *)
LEMMA LoopExists ==
  ASSUME NEW b \in Nat, NEW S, NEW base \in S, NEW G \in [(1 .. b) \X S -> S]
  PROVE  \E f : History(f, b, S, base, G)
<1> DEFINE Good(f, k) == /\ f \in [0 .. k -> S] /\ f[0] = base
                         /\ \A n \in 1 .. k : f[n] = G[<<n, f[n - 1]>>]
           T == {k \in 0 .. b : \E f : Good(f, k)}
<1>1. 0 \in T
  <2>1. Good([n \in 0 .. 0 |-> base], 0)
    OBVIOUS
  <2>2. \E f : Good(f, 0)
    <3> HIDE DEF Good
    <3>1. QED
      BY <2>1
  <2> HIDE DEF Good
  <2>3. QED
    BY <2>2
<1>2. \A k \in 0 .. b - 1 : k \in T => k + 1 \in T
  <2> TAKE k \in 0 .. b - 1
  <2> HAVE k \in T
  <2>1. PICK f : Good(f, k)
    OBVIOUS
  <2> DEFINE v == G[<<k + 1, f[k]>>]
             g == [n \in 0 .. k + 1 |-> IF n <= k THEN f[n] ELSE v]
  <2>2. f[k] \in S /\ k + 1 \in 1 .. b
    BY <2>1
  <2>3. v \in S
    BY <2>2
  <2>4. g \in [0 .. k + 1 -> S]
    <3> HIDE DEF v
    <3>1. QED
      BY <2>1, <2>3
  <2>5. g[0] = base
    BY <2>1
  <2>6. ASSUME NEW n \in 1 .. k + 1 PROVE g[n] = G[<<n, g[n - 1]>>]
    <3>1. n - 1 \in 0 .. k /\ g[n - 1] = f[n - 1] /\ n \in 0 .. k + 1
      OBVIOUS
    <3>2. CASE n = k + 1
      <4>1. g[n] = v
        BY <3>1, <3>2
      <4>2. n - 1 = k
        BY <3>2
      <4>3. QED
        BY <3>1, <3>2, <4>1, <4>2
    <3>3. CASE n <= k
      <4>1. n \in 1 .. k /\ g[n] = f[n]
        BY <3>3
      <4> HIDE DEF g
      <4>2. QED
        BY <2>1, <3>1, <4>1
    <3>4. QED
      BY <3>2, <3>3
  <2>7. Good(g, k + 1)
    <3> HIDE DEF g
    <3>1. QED
      BY <2>4, <2>5, <2>6
  <2>8. k + 1 \in 0 .. b /\ \E h : Good(h, k + 1)
    <3> HIDE DEF Good
    <3>1. QED
      BY <2>7
  <2> HIDE DEF Good
  <2>9. QED
    BY <2>8
<1>3. b \in T
  <2> HIDE DEF T
  <2>1. \A n \in 0 .. b : n \in T
    BY <1>1, <1>2, IntervalInduction
  <2>2. QED
    BY <2>1
<1>4. PICK f : Good(f, b)
  BY <1>3
<1>5. History(f, b, S, base, G)
  BY <1>4 DEF History
<1>6. QED
  BY <1>5

(* What every round of a loop keeps, it has at the end.                    *)
LEMMA LoopKeeps ==
  ASSUME NEW b \in Nat, NEW S, NEW f, f[0] \in S,
         \A n \in 1 .. b : f[n - 1] \in S => f[n] \in S
  PROVE  \A n \in 0 .. b : f[n] \in S
<1> DEFINE T == {n \in 0 .. b : f[n] \in S}
<1>1. 0 \in T
  OBVIOUS
<1>2. \A n \in 0 .. b - 1 : n \in T => n + 1 \in T
  <2> TAKE n \in 0 .. b - 1
  <2> HAVE n \in T
  <2>1. n + 1 \in 1 .. b /\ n + 1 - 1 = n /\ n + 1 \in 0 .. b
    OBVIOUS
  <2>2. f[n + 1] \in S
    BY <2>1
  <2>3. QED
    BY <2>1, <2>2
<1>3. \A n \in 0 .. b : n \in T
  <2> HIDE DEF T
  <2>1. QED
    BY <1>1, <1>2, IntervalInduction
<1>4. QED
  BY <1>3

----------------------------------------------------------------------------
(* Tokens.                                                                 *)

(* The count of the first n lines goes up line by line.                    *)
LEMMA CountsLoop ==
  ASSUME NEW lines \in Seq(Line)
  PROVE  /\ Counts(lines) \in [0 .. Len(lines) -> Nat]
         /\ Counts(lines)[0] = 0
         /\ \A n \in 1 .. Len(lines) :
              Counts(lines)[n] = Counts(lines)[n - 1] + Weight[lines[n]]
<1> DEFINE Loop(f) == f = [n \in 0 .. Len(lines) |->
                             IF n = 0 THEN 0 ELSE f[n - 1] + Weight[lines[n]]]
           G == [p \in (1 .. Len(lines)) \X Nat |-> p[2] + Weight[lines[p[1]]]]
           F == Counts(lines)
<1>0. Len(lines) \in Nat /\ \A n \in 1 .. Len(lines) : Weight[lines[n]] \in Nat
  BY WeightAssumption
<1>1. G \in [(1 .. Len(lines)) \X Nat -> Nat]
  BY <1>0
<1>2. PICK g : History(g, Len(lines), Nat, 0, G)
  <2> HIDE DEF G
  <2>1. 0 \in Nat
    OBVIOUS
  <2>2. QED
    BY <1>0, <1>1, <2>1, LoopExists
<1>3. ASSUME NEW n \in 1 .. Len(lines) PROVE g[n] = g[n - 1] + Weight[lines[n]]
  <2> HIDE DEF G
  <2>1. g[n - 1] \in Nat
    BY <1>0, <1>2 DEF History
  <2>2. g[n] = G[<<n, g[n - 1]>>]
    BY <1>2 DEF History
  <2> USE DEF G
  <2>3. QED
    BY <2>1, <2>2
<1>4. Loop(g)
  <2>1. \A n \in 0 .. Len(lines) :
          g[n] = IF n = 0 THEN 0 ELSE g[n - 1] + Weight[lines[n]]
    BY <1>0, <1>2, <1>3 DEF History
  <2>2. QED
    BY <1>2, <2>1 DEF History
<1>5. F = CHOOSE f : Loop(f)
  BY DEF Counts
<1>6. Loop(F)
  BY <1>4, <1>5
<1> HIDE DEF F, G
<1>7. F[0] = 0 /\ \A n \in 1 .. Len(lines) : F[n] = F[n - 1] + Weight[lines[n]]
  BY <1>0, <1>6
<1>8. \A n \in 0 .. Len(lines) : F[n] \in Nat
  <2>1. \A n \in 1 .. Len(lines) : F[n - 1] \in Nat => F[n] \in Nat
    BY <1>0, <1>7
  <2>2. F[0] \in Nat
    BY <1>7
  <2>3. QED
    BY <1>0, <2>1, <2>2, LoopKeeps
<1>9. F \in [0 .. Len(lines) -> Nat]
  BY <1>6, <1>8
<1>10. QED
  BY <1>7, <1>9 DEF F

(* A span has a number of tokens, and no more than one that goes further.  *)
LEMMA TokensGrow ==
  ASSUME NEW lines \in Seq(Line), NEW from \in 1 .. Len(lines),
         NEW mid \in from .. Len(lines), NEW to \in mid .. Len(lines)
  PROVE  Tokens(lines, from, mid) \in Nat /\ Tokens(lines, from, mid) <= Tokens(lines, from, to)
<1> DEFINE F == Counts(lines)
           Above(m) == {n \in 0 .. Len(lines) : m <= n => F[m] <= F[n]}
<1>1. Len(lines) \in Nat
  OBVIOUS
<1>2. /\ F \in [0 .. Len(lines) -> Nat]
      /\ \A n \in 1 .. Len(lines) : F[n] = F[n - 1] + Weight[lines[n]] /\ Weight[lines[n]] \in Nat
  BY CountsLoop, WeightAssumption
<1> HIDE DEF F
<1>3. ASSUME NEW m \in 0 .. Len(lines), NEW n \in 0 .. Len(lines), m <= n PROVE F[m] <= F[n]
  <2>0. F[m] \in Nat /\ F[n] \in Nat
    BY <1>2
  <2>1. m \in Above(m)
    BY <2>0
  <2>2. \A k \in m .. Len(lines) - 1 : k \in Above(m) => k + 1 \in Above(m)
    <3> TAKE k \in m .. Len(lines) - 1
    <3> HAVE k \in Above(m)
    <3>1. k + 1 \in 1 .. Len(lines) /\ k + 1 - 1 = k /\ k \in 0 .. Len(lines)
      BY <1>1
    <3>2. F[k + 1] = F[k] + Weight[lines[k + 1]] /\ Weight[lines[k + 1]] \in Nat
      BY <1>2, <3>1
    <3>3. F[m] \in Nat /\ F[k] \in Nat /\ F[m] <= F[k]
      BY <1>2, <3>1
    <3>4. F[m] <= F[k + 1]
      BY <3>2, <3>3
    <3>5. QED
      BY <3>1, <3>4
  <2>3. \A k \in m .. Len(lines) : k \in Above(m)
    <3> HIDE DEF Above
    <3>1. m \in Int /\ Len(lines) \in Int
      BY <1>1
    <3>2. QED
      BY <2>1, <2>2, <3>1, IntervalInduction
  <2>4. n \in Above(m)
    BY <1>1, <1>3, <2>3
  <2>5. QED
    BY <1>3, <2>4
<1>4. /\ from - 1 \in 0 .. Len(lines) /\ mid \in 0 .. Len(lines) /\ to \in 0 .. Len(lines)
      /\ from - 1 <= mid /\ mid <= to
  BY <1>1
<1>5. F[from - 1] <= F[mid] /\ F[mid] <= F[to]
  BY <1>3, <1>4
<1>6. F[from - 1] \in Nat /\ F[mid] \in Nat /\ F[to] \in Nat
  BY <1>2, <1>4
<1>7. QED
  BY <1>5, <1>6 DEF Tokens, F

----------------------------------------------------------------------------
(* The parser.                                                             *)

Spans == [path : Seq(Nat), from : Nat, to : Nat]

States == [done : Seq(Spans), path : Seq(Nat), from : Nat, fenced : BOOLEAN]

(* A heading is the last one on the path to what follows it.               *)
LEMMA NestEnds ==
  ASSUME NEW path \in Seq(Nat), NEW k \in Line, NEW n \in Nat
  PROVE  /\ Nest(path, k, n) \in Seq(Nat)
         /\ Nest(path, k, n) # <<>> /\ Last(Nest(path, k, n)) = n
<1>1. CASE k = "date" \/ path = <<>>
  <2>1. Nest(path, k, n) = <<n>>
    BY <1>1 DEF Nest
  <2>2. QED
    BY <2>1 DEF Last
<1>2. CASE ~ (k = "date" \/ path = <<>>)
  <2> DEFINE kept == SubSeq(path, 1, Level(k) - 1)
  <2>1. Len(path) >= 1 /\ Level(k) - 1 \in 0 .. 1
    BY <1>2, EmptySeq DEF Level
  <2>2. kept \in Seq(Nat)
    <3>1. \A i \in 1 .. Level(k) - 1 : path[i] \in Nat
      BY <2>1
    <3>2. 1 \in Int /\ Level(k) - 1 \in Int
      BY <2>1
    <3>3. QED
      BY <3>1, <3>2, SubSeqProperties
  <2>3. Nest(path, k, n) = Append(kept, n)
    BY <1>2 DEF Nest
  <2> HIDE DEF kept
  <2>4. Append(kept, n) \in Seq(Nat) /\ Append(kept, n) # <<>>
    BY <2>2, AppendProperties
  <2>5. Len(Append(kept, n)) = Len(kept) + 1 /\ Append(kept, n)[Len(kept) + 1] = n
    BY <2>2, AppendProperties
  <2>6. QED
    BY <2>3, <2>4, <2>5 DEF Last
<1>3. QED
  BY <1>1, <1>2

LEMMA ParseLineType ==
  ASSUME NEW s \in States, NEW k \in Line, NEW n \in Nat, n >= 1
  PROVE  ParseLine(s, k, n) \in States
<1>1. Nest(s.path, k, n) \in Seq(Nat)
  BY NestEnds DEF States
<1>2. Flush(s, n - 1) \in Seq(Spans)
  <2>1. Span(s.path, s.from, n - 1) \in Spans
    BY DEF Span, Spans, States
  <2>2. s.done \in Seq(Spans)
    BY DEF States
  <2>3. Append(s.done, Span(s.path, s.from, n - 1)) \in Seq(Spans)
    BY <2>1, <2>2, AppendProperties
  <2>4. QED
    BY <2>2, <2>3 DEF Flush
<1>3. QED
  BY <1>1, <1>2 DEF ParseLine, States

Start == [done |-> <<>>, path |-> <<>>, from |-> 1, fenced |-> FALSE]

(* What the parser knows after each line.                                  *)
LEMMA ParseLoop ==
  ASSUME NEW lines \in Seq(Line)
  PROVE  /\ \A n \in 0 .. Len(lines) : ParseStates(lines)[n] \in States
         /\ ParseStates(lines)[0] = Start
         /\ \A n \in 1 .. Len(lines) :
              ParseStates(lines)[n] = ParseLine(ParseStates(lines)[n - 1], lines[n], n)
<1> DEFINE Loop(f) == f = [n \in 0 .. Len(lines) |->
                             IF n = 0 THEN Start ELSE ParseLine(f[n - 1], lines[n], n)]
           G == [p \in (1 .. Len(lines)) \X States |-> ParseLine(p[2], lines[p[1]], p[1])]
           F == ParseStates(lines)
<1>1. Len(lines) \in Nat /\ \A n \in 1 .. Len(lines) : lines[n] \in Line /\ n \in Nat /\ n >= 1
  OBVIOUS
<1>2. Start \in States
  BY EmptySeq DEF Start, States
<1>3. G \in [(1 .. Len(lines)) \X States -> States]
  BY <1>1, ParseLineType
<1>4. PICK g : History(g, Len(lines), States, Start, G)
  <2> HIDE DEF G
  <2>1. QED
    BY <1>1, <1>2, <1>3, LoopExists
<1>5. ASSUME NEW n \in 1 .. Len(lines) PROVE g[n] = ParseLine(g[n - 1], lines[n], n)
  <2> HIDE DEF G
  <2>1. g[n - 1] \in States
    BY <1>1, <1>4 DEF History
  <2>2. g[n] = G[<<n, g[n - 1]>>]
    BY <1>4 DEF History
  <2> USE DEF G
  <2>3. QED
    BY <2>1, <2>2
<1>6. Loop(g)
  <2>1. \A n \in 0 .. Len(lines) :
          g[n] = IF n = 0 THEN Start ELSE ParseLine(g[n - 1], lines[n], n)
    BY <1>1, <1>4, <1>5 DEF History
  <2>2. QED
    BY <1>4, <2>1 DEF History
<1>7. F = CHOOSE f : Loop(f)
  BY DEF ParseStates, Start
<1>8. Loop(F)
  BY <1>6, <1>7
<1> HIDE DEF F, G
<1>9. /\ F[0] = Start
      /\ \A n \in 1 .. Len(lines) : F[n] = ParseLine(F[n - 1], lines[n], n)
  BY <1>1, <1>8
<1>10. \A n \in 0 .. Len(lines) : F[n] \in States
  <2>1. \A n \in 1 .. Len(lines) : F[n - 1] \in States => F[n] \in States
    BY <1>1, <1>9, ParseLineType
  <2>2. F[0] \in States
    BY <1>2, <1>9
  <2>3. QED
    BY <1>1, <2>1, <2>2, LoopKeeps
<1>11. QED
  BY <1>9, <1>10 DEF F

Fences(lines, n) == {f \in 1 .. n : lines[f] = "fence"}

(* The lines that are headings, outside of code.                           *)
Headings(lines) ==
  {n \in 1 .. Len(lines) :
     IsBoundary(lines[n]) /\ Cardinality(Fences(lines, n - 1)) % 2 = 0}

(* Of the lines up to n, those from `from` are under the headings of path. *)
Under(lines, path, from, n) ==
  IF path = <<>> THEN \A h \in Headings(lines) : n < h
  ELSE /\ Last(path) = from /\ from \in Headings(lines)
       /\ \A h \in Headings(lines) : h <= n => h <= from

Ordered(spans) == \A i, j \in 1 .. Len(spans) : i < j => spans[i].to < spans[j].from

Within(lines, s) == s.from \in 1 .. Len(lines) /\ s.to \in s.from .. Len(lines)

(* The first n lines, cut into sections.                                   *)
Sectioned(lines, sections, n) ==
  /\ sections \in Seq(Spans) /\ Ordered(sections)
  /\ \A i \in 1 .. Len(sections) :
       LET s == sections[i]
       IN  Within(lines, s) /\ s.to <= n /\ Under(lines, s.path, s.from, s.to)
  /\ \A m \in 1 .. n : \E i \in 1 .. Len(sections) : m \in sections[i].from .. sections[i].to

(* What the parser knows after n lines.                                    *)
ParseInv(lines, n, s) ==
  /\ s \in States
  /\ s.from >= 1 /\ (s.from <= n \/ (n = 0 /\ s.from = 1))
  /\ s.fenced <=> Cardinality(Fences(lines, n)) % 2 = 1
  /\ Under(lines, s.path, s.from, n)
  /\ Sectioned(lines, s.done, s.from - 1)

(* A fence turns code on or off.                                           *)
LEMMA FencesAlternate ==
  ASSUME NEW lines \in Seq(Line), NEW n \in 1 .. Len(lines)
  PROVE  (Cardinality(Fences(lines, n)) % 2 = 1)
           <=> IF lines[n] = "fence" THEN Cardinality(Fences(lines, n - 1)) % 2 = 0
               ELSE Cardinality(Fences(lines, n - 1)) % 2 = 1
<1> DEFINE before == Fences(lines, n - 1)
<1>1. IsFiniteSet(before) /\ Cardinality(before) \in Nat
  <2>1. before \in SUBSET (1 .. n - 1) /\ 1 \in Int /\ n - 1 \in Int
    BY DEF Fences
  <2>2. IsFiniteSet(1 .. n - 1)
    BY <2>1, FS_Interval
  <2>3. IsFiniteSet(before)
    BY <2>1, <2>2, FS_Subset
  <2>4. QED
    BY <2>3, FS_CardinalityType
<1>2. CASE lines[n] = "fence"
  <2>1. Fences(lines, n) = before \cup {n} /\ n \notin before
    BY <1>2 DEF Fences
  <2> HIDE DEF before
  <2>2. Cardinality(Fences(lines, n)) = Cardinality(before) + 1
    BY <1>1, <2>1, FS_AddElement
  <2>3. QED
    BY <1>1, <1>2, <2>2 DEF before
<1>3. CASE lines[n] # "fence"
  <2>1. Fences(lines, n) = before
    BY <1>3 DEF Fences
  <2>2. QED
    BY <1>1, <1>3, <2>1
<1>4. QED
  BY <1>2, <1>3

(* What is flushed continues the sections there are.                       *)
LEMMA FlushRight ==
  ASSUME NEW lines \in Seq(Line), NEW n \in 0 .. Len(lines), NEW s, ParseInv(lines, n, s)
  PROVE  Sectioned(lines, Flush(s, n), n)
<1>1. s \in States /\ Len(lines) \in Nat /\ s.from \in Nat /\ s.from >= 1
  BY DEF ParseInv, States
<1>2. CASE n = 0
  BY <1>1, <1>2 DEF ParseInv, Flush
<1>3. CASE n # 0
  <2> DEFINE new == Span(s.path, s.from, n)
             done == s.done
             all == Append(done, new)
  <2>1. s.from <= n /\ Flush(s, n) = all
    BY <1>1, <1>3 DEF ParseInv, Flush
  <2>2. done \in Seq(Spans) /\ new \in Spans
    BY <1>1 DEF States, Spans, Span
  <2>3. new.from = s.from /\ new.to = n /\ new.path = s.path
    BY DEF Span
  <2> HIDE DEF new, done
  <2>4. /\ all \in Seq(Spans) /\ Len(all) = Len(done) + 1 /\ Len(done) \in Nat
        /\ all[Len(done) + 1] = new /\ \A i \in 1 .. Len(done) : all[i] = done[i]
    BY <2>2, AppendProperties
  <2> HIDE DEF all
  <2>5. Sectioned(lines, done, s.from - 1)
    BY DEF ParseInv, done
  <2>6. \A i \in 1 .. Len(done) : /\ done[i] \in Spans /\ Within(lines, done[i])
                                  /\ done[i].to <= s.from - 1
                                  /\ Under(lines, done[i].path, done[i].from, done[i].to)
    BY <2>2, <2>5 DEF Sectioned
  <2>7. Ordered(all)
    <3> SUFFICES ASSUME NEW i \in 1 .. Len(all), NEW j \in 1 .. Len(all), i < j
                 PROVE  all[i].to < all[j].from
      BY DEF Ordered
    <3>1. CASE j = Len(done) + 1
      <4>1. i \in 1 .. Len(done) /\ all[i] = done[i] /\ all[j].from = s.from
        BY <2>3, <2>4, <3>1
      <4>2. done[i].to \in Nat /\ done[i].to <= s.from - 1
        BY <2>6, <4>1 DEF Spans
      <4>3. QED
        BY <1>1, <4>1, <4>2
    <3>2. CASE j # Len(done) + 1
      <4>1. i \in 1 .. Len(done) /\ j \in 1 .. Len(done)
        BY <2>4, <3>2
      <4>2. QED
        BY <2>4, <2>5, <4>1 DEF Sectioned, Ordered
    <3>3. QED
      BY <3>1, <3>2
  <2>8. ASSUME NEW i \in 1 .. Len(all)
        PROVE  /\ Within(lines, all[i]) /\ all[i].to <= n
               /\ Under(lines, all[i].path, all[i].from, all[i].to)
    <3>1. CASE i = Len(done) + 1
      <4>1. all[i] = new
        BY <2>4, <3>1
      <4>2. Within(lines, new)
        BY <1>1, <2>1, <2>3 DEF Within
      <4>3. QED
        BY <2>3, <4>1, <4>2 DEF ParseInv
    <3>2. CASE i # Len(done) + 1
      <4>1. i \in 1 .. Len(done) /\ all[i] = done[i]
        BY <2>4, <3>2
      <4>2. done[i].to \in Nat /\ done[i].to <= s.from - 1
        BY <2>6, <4>1 DEF Spans
      <4>3. QED
        BY <1>1, <2>1, <2>6, <4>1, <4>2
    <3>3. QED
      BY <3>1, <3>2
  <2>9. ASSUME NEW m \in 1 .. n
        PROVE  \E i \in 1 .. Len(all) : m \in all[i].from .. all[i].to
    <3>1. CASE m >= s.from
      <4>1. Len(done) + 1 \in 1 .. Len(all) /\ m \in new.from .. new.to
        BY <1>1, <2>3, <2>4, <3>1
      <4>2. QED
        BY <2>4, <4>1
    <3>2. CASE m < s.from
      <4>1. m \in 1 .. s.from - 1
        BY <1>1, <3>2
      <4>2. PICK i \in 1 .. Len(done) : m \in done[i].from .. done[i].to
        BY <2>5, <4>1 DEF Sectioned
      <4>3. i \in 1 .. Len(all) /\ all[i] = done[i]
        BY <2>4
      <4>4. QED
        BY <4>2, <4>3
    <3>3. QED
      BY <1>1, <3>1, <3>2
  <2>10. QED
    BY <2>1, <2>4, <2>7, <2>8, <2>9 DEF Sectioned
<1>4. QED
  BY <1>2, <1>3

(* A line that is no heading stays under those there are.                  *)
LEMMA UnderGoesOn ==
  ASSUME NEW lines \in Seq(Line), NEW path, NEW from, NEW n \in 1 .. Len(lines),
         Under(lines, path, from, n - 1), n \notin Headings(lines)
  PROVE  Under(lines, path, from, n)
<1>1. \A h \in Headings(lines) : h \in Nat /\ h # n
  BY DEF Headings
<1>2. \A h \in Headings(lines) : (n - 1 < h => n < h) /\ (h <= n => h <= n - 1)
  BY <1>1
<1>3. QED
  BY <1>2 DEF Under

LEMMA ParseStep ==
  ASSUME NEW lines \in Seq(Line), NEW n \in 1 .. Len(lines), NEW s,
         ParseInv(lines, n - 1, s)
  PROVE  ParseInv(lines, n, ParseLine(s, lines[n], n))
<1> DEFINE k == lines[n]
           t == ParseLine(s, k, n)
<1>1. k \in Line /\ n \in Nat /\ n >= 1 /\ n - 1 \in 0 .. Len(lines) /\ Len(lines) \in Nat
  OBVIOUS
<1>2. s \in States /\ t \in States /\ s.from \in Nat /\ s.fenced \in BOOLEAN
  BY <1>1, ParseLineType DEF ParseInv, States
<1>3. s.from >= 1 /\ s.from <= n
  BY <1>1, <1>2 DEF ParseInv
<1>4. s.fenced <=> Cardinality(Fences(lines, n - 1)) % 2 = 1
  BY DEF ParseInv
<1>5. n \in Headings(lines) <=> IsBoundary(k) /\ Cardinality(Fences(lines, n - 1)) % 2 = 0
  BY DEF Headings
<1>6. Cardinality(Fences(lines, n - 1)) % 2 = 0 <=> ~ s.fenced
  <2>1. Fences(lines, n - 1) \in SUBSET (1 .. n - 1) /\ 1 \in Int /\ n - 1 \in Int
    BY DEF Fences
  <2>2. IsFiniteSet(1 .. n - 1)
    BY <2>1, FS_Interval
  <2>3. Cardinality(Fences(lines, n - 1)) \in Nat
    BY <2>1, <2>2, FS_Subset, FS_CardinalityType
  <2>4. QED
    BY <1>4, <2>3
<1>7. ASSUME n \notin Headings(lines), t.path = s.path, t.from = s.from, t.done = s.done,
             t.fenced <=> Cardinality(Fences(lines, n)) % 2 = 1
      PROVE  ParseInv(lines, n, t)
  <2>1. Under(lines, s.path, s.from, n)
    BY <1>7, UnderGoesOn DEF ParseInv
  <2>2. Sectioned(lines, s.done, s.from - 1)
    BY DEF ParseInv
  <2>3. QED
    BY <1>2, <1>3, <1>7, <2>1, <2>2 DEF ParseInv
<1>8. CASE k = "fence"
  <2>1. t = [s EXCEPT !.fenced = ~@]
    BY <1>8 DEF ParseLine
  <2>2. t.path = s.path /\ t.from = s.from /\ t.done = s.done /\ t.fenced = ~ s.fenced
    BY <1>2, <2>1 DEF States
  <2>3. n \notin Headings(lines)
    BY <1>5, <1>8 DEF IsBoundary
  <2>4. t.fenced <=> Cardinality(Fences(lines, n)) % 2 = 1
    BY <1>6, <1>8, <2>2, FencesAlternate
  <2>5. QED
    BY <1>7, <2>2, <2>3, <2>4
<1>9. CASE k # "fence" /\ (s.fenced \/ ~ IsBoundary(k))
  <2>1. t = s
    BY <1>9 DEF ParseLine
  <2>2. n \notin Headings(lines)
    BY <1>5, <1>6, <1>9
  <2>3. t.fenced <=> Cardinality(Fences(lines, n)) % 2 = 1
    BY <1>4, <1>9, <2>1, FencesAlternate
  <2>4. QED
    BY <1>7, <2>1, <2>2, <2>3
<1>10. CASE k # "fence" /\ ~ (s.fenced \/ ~ IsBoundary(k))
  <2>1. t = [s EXCEPT !.done = Flush(s, n - 1), !.path = Nest(s.path, k, n), !.from = n]
    BY <1>10 DEF ParseLine
  <2>2. /\ t.path = Nest(s.path, k, n) /\ t.from = n /\ t.done = Flush(s, n - 1)
        /\ t.fenced = s.fenced
    BY <1>2, <2>1 DEF States
  <2>3. n \in Headings(lines)
    BY <1>5, <1>6, <1>10
  <2>4. t.fenced <=> Cardinality(Fences(lines, n)) % 2 = 1
    BY <1>4, <1>10, <2>2, FencesAlternate
  <2>5. t.path # <<>> /\ Last(t.path) = n
    <3>1. s.path \in Seq(Nat)
      BY <1>2 DEF States
    <3>2. Nest(s.path, k, n) # <<>> /\ Last(Nest(s.path, k, n)) = n
      <4> HIDE DEF k
      <4>1. QED
        BY <1>1, <3>1, NestEnds
    <3>3. QED
      BY <2>2, <3>2
  <2>6. Under(lines, t.path, t.from, n)
    BY <2>2, <2>3, <2>5 DEF Under
  <2>7. Sectioned(lines, t.done, t.from - 1)
    BY <1>1, <2>2, FlushRight
  <2>8. QED
    BY <1>1, <1>2, <2>2, <2>4, <2>6, <2>7 DEF ParseInv
<1>11. QED
  BY <1>8, <1>9, <1>10

(* The sections are a partition of the lines, each under its headings.     *)
LEMMA ParseRight ==
  ASSUME NEW lines \in Seq(Line)
  PROVE  Sectioned(lines, Parse(lines), Len(lines))
<1> DEFINE F == ParseStates(lines)
           T == {n \in 0 .. Len(lines) : ParseInv(lines, n, F[n])}
<1>1. Len(lines) \in Nat
  OBVIOUS
<1>2. F[0] = Start /\ \A n \in 1 .. Len(lines) : F[n] = ParseLine(F[n - 1], lines[n], n)
  BY ParseLoop
<1>3. ParseInv(lines, 0, Start)
  <2>1. Start \in States
    BY EmptySeq DEF Start, States
  <2>2. Fences(lines, 0) = {}
    BY DEF Fences
  <2>3. Cardinality(Fences(lines, 0)) % 2 = 0
    <3>1. Cardinality(Fences(lines, 0)) = 0
      BY <2>2, FS_EmptySet
    <3>2. QED
      BY <3>1
  <2>4. Under(lines, <<>>, 1, 0)
    BY DEF Under, Headings
  <2>5. Sectioned(lines, <<>>, 0)
    BY EmptySeq DEF Sectioned, Ordered
  <2>6. QED
    BY <2>1, <2>3, <2>4, <2>5 DEF ParseInv, Start
<1>4. 0 \in T
  BY <1>1, <1>2, <1>3
<1>5. \A n \in 0 .. Len(lines) - 1 : n \in T => n + 1 \in T
  <2> TAKE n \in 0 .. Len(lines) - 1
  <2> HAVE n \in T
  <2>1. n + 1 \in 1 .. Len(lines) /\ n + 1 - 1 = n /\ n + 1 \in 0 .. Len(lines)
    BY <1>1
  <2>2. F[n + 1] = ParseLine(F[n], lines[n + 1], n + 1)
    BY <1>2, <2>1
  <2>3. ParseInv(lines, n + 1, F[n + 1])
    BY <2>1, <2>2, ParseStep
  <2>4. QED
    BY <2>1, <2>3
<1>6. \A n \in 0 .. Len(lines) : n \in T
  <2> HIDE DEF T
  <2>1. 0 \in Int /\ Len(lines) \in Int
    BY <1>1
  <2>2. QED
    BY <1>4, <1>5, <2>1, IntervalInduction
<1>7. ParseInv(lines, Len(lines), F[Len(lines)])
  BY <1>1, <1>6
<1>8. QED
  BY <1>1, <1>7, FlushRight DEF Parse

----------------------------------------------------------------------------
(* The chunker's paragraphs.                                               *)

Paragraph(lines, s) ==
  \A n \in s.from + 1 .. s.to : lines[n] # "blank" => lines[n - 1] # "blank"

(* Parts of the lines from a section's beginning to n.                     *)
Parts(lines, sec, n, parts) ==
  /\ parts \in Seq(Spans) /\ Ordered(parts)
  /\ \A i \in 1 .. Len(parts) :
       LET s == parts[i]
       IN  s.path = sec.path /\ sec.from <= s.from /\ s.from <= s.to /\ s.to <= n
  /\ \A m \in sec.from .. n :
       lines[m] # "blank" => \E i \in 1 .. Len(parts) : m \in parts[i].from .. parts[i].to

SlotInv(lines, sec, n, slots) ==
  /\ Parts(lines, sec, n, slots)
  /\ \A i \in 1 .. Len(slots) : Paragraph(lines, slots[i])
  /\ IF slots = <<>> THEN \A m \in sec.from .. n : lines[m] = "blank"
     ELSE Last(slots).to = n

(* The last span goes further, the others are what they were.              *)
LEMMA Extended ==
  ASSUME NEW spans \in Seq(Spans), spans # <<>>, NEW to \in Nat
  PROVE  /\ Extend(spans, to) \in Seq(Spans) /\ Extend(spans, to) # <<>>
         /\ Len(Extend(spans, to)) = Len(spans) /\ Len(spans) \in Nat /\ Len(spans) >= 1
         /\ \A i \in 1 .. Len(spans) :
              /\ Extend(spans, to)[i].path = spans[i].path
              /\ Extend(spans, to)[i].from = spans[i].from
              /\ Extend(spans, to)[i].to = IF i = Len(spans) THEN to ELSE spans[i].to
<1>1. Len(spans) \in Nat /\ Len(spans) >= 1
  BY EmptySeq
<1> DEFINE l == Len(spans)
           e == [spans[l] EXCEPT !.to = to]
<1>2. spans[l] \in Spans /\ l \in 1 .. Len(spans)
  BY <1>1
<1>3. e \in Spans /\ e.path = spans[l].path /\ e.from = spans[l].from /\ e.to = to
  BY <1>2 DEF Spans
<1>4. Extend(spans, to) = [spans EXCEPT ![l] = e]
  BY <1>2 DEF Extend
<1> HIDE DEF e, l
<1>5. /\ Extend(spans, to) \in Seq(Spans) /\ Len(Extend(spans, to)) = Len(spans)
      /\ \A i \in 1 .. Len(spans) : Extend(spans, to)[i] = IF i = l THEN e ELSE spans[i]
  BY <1>2, <1>3, <1>4, ExceptSeq
<1>6. Extend(spans, to) # <<>>
  BY <1>1, <1>5, EmptySeq
<1>7. QED
  BY <1>1, <1>3, <1>5, <1>6 DEF l

LEMMA AddLineType ==
  ASSUME NEW lines \in Seq(Line), NEW sec \in Spans, NEW slots \in Seq(Spans), NEW n \in Nat
  PROVE  AddLine(lines, sec, slots, n) \in Seq(Spans)
<1>1. Span(sec.path, n, n) \in Spans
  BY DEF Span, Spans
<1>2. Append(slots, Span(sec.path, n, n)) \in Seq(Spans)
  BY <1>1, AppendProperties
<1>3. slots # <<>> => Extend(slots, n) \in Seq(Spans)
  BY Extended
<1>4. <<>> \in Seq(Spans)
  BY EmptySeq
<1>5. QED
  BY <1>2, <1>3, <1>4 DEF AddLine

(* The slots there are after each line.                                    *)
LEMMA SlotsLoop ==
  ASSUME NEW lines \in Seq(Line), NEW sec \in Spans, sec.from >= 1
  PROVE  /\ SlotsUpTo(lines, sec)[0] = <<>>
         /\ \A n \in 1 .. sec.to :
              SlotsUpTo(lines, sec)[n] =
                IF n < sec.from THEN <<>>
                ELSE AddLine(lines, sec, SlotsUpTo(lines, sec)[n - 1], n)
<1> DEFINE Loop(f) == f = [n \in 0 .. sec.to |->
                             IF n < sec.from THEN <<>> ELSE AddLine(lines, sec, f[n - 1], n)]
           G == [p \in (1 .. sec.to) \X Seq(Spans) |->
                   IF p[1] < sec.from THEN <<>> ELSE AddLine(lines, sec, p[2], p[1])]
           F == SlotsUpTo(lines, sec)
<1>1. sec.to \in Nat /\ sec.from \in Nat /\ \A n \in 1 .. sec.to : n \in Nat
  BY DEF Spans
<1>2. <<>> \in Seq(Spans)
  BY EmptySeq
<1>3. G \in [(1 .. sec.to) \X Seq(Spans) -> Seq(Spans)]
  BY <1>1, <1>2, AddLineType
<1>4. PICK g : History(g, sec.to, Seq(Spans), <<>>, G)
  <2> HIDE DEF G
  <2>1. QED
    BY <1>1, <1>2, <1>3, LoopExists
<1>5. ASSUME NEW n \in 1 .. sec.to
      PROVE  g[n] = IF n < sec.from THEN <<>> ELSE AddLine(lines, sec, g[n - 1], n)
  <2> HIDE DEF G
  <2>1. g[n - 1] \in Seq(Spans)
    BY <1>1, <1>4 DEF History
  <2>2. g[n] = G[<<n, g[n - 1]>>]
    BY <1>4 DEF History
  <2> USE DEF G
  <2>3. QED
    BY <2>1, <2>2
<1>6. Loop(g)
  <2>1. \A n \in 0 .. sec.to :
          g[n] = IF n < sec.from THEN <<>> ELSE AddLine(lines, sec, g[n - 1], n)
    BY <1>1, <1>4, <1>5 DEF History
  <2>2. QED
    BY <1>4, <2>1 DEF History
<1>7. F = CHOOSE f : Loop(f)
  BY DEF SlotsUpTo
<1>8. Loop(F)
  BY <1>6, <1>7
<1> HIDE DEF F, G
<1>9. QED
  BY <1>1, <1>8 DEF F

(* A span that follows the others keeps them in order.                     *)
LEMMA AppendedInOrder ==
  ASSUME NEW spans \in Seq(Spans), NEW s \in Spans, Ordered(spans),
         \A i \in 1 .. Len(spans) : spans[i].to < s.from
  PROVE  /\ Append(spans, s) \in Seq(Spans) /\ Append(spans, s) # <<>>
         /\ Len(Append(spans, s)) = Len(spans) + 1 /\ Len(spans) \in Nat
         /\ Append(spans, s)[Len(spans) + 1] = s
         /\ \A i \in 1 .. Len(spans) : Append(spans, s)[i] = spans[i]
         /\ Ordered(Append(spans, s))
<1> DEFINE all == Append(spans, s)
<1>1. /\ all \in Seq(Spans) /\ all # <<>> /\ Len(all) = Len(spans) + 1 /\ Len(spans) \in Nat
      /\ all[Len(spans) + 1] = s /\ \A i \in 1 .. Len(spans) : all[i] = spans[i]
  BY AppendProperties
<1> HIDE DEF all
<1>2. ASSUME NEW i \in 1 .. Len(all), NEW j \in 1 .. Len(all), i < j
      PROVE  all[i].to < all[j].from
  <2>1. i \in 1 .. Len(spans) /\ (j \in 1 .. Len(spans) \/ j = Len(spans) + 1)
    BY <1>1, <1>2
  <2>2. QED
    BY <1>1, <1>2, <2>1 DEF Ordered
<1>3. QED
  BY <1>1, <1>2 DEF Ordered, all

(* The last span of some in order may go further.                          *)
LEMMA ExtendedInOrder ==
  ASSUME NEW spans \in Seq(Spans), spans # <<>>, NEW to \in Nat, Ordered(spans)
  PROVE  Ordered(Extend(spans, to))
<1>1. ASSUME NEW i \in 1 .. Len(spans), NEW j \in 1 .. Len(spans), i < j
      PROVE  Extend(spans, to)[i].to < Extend(spans, to)[j].from
  <2>1. i # Len(spans)
    BY <1>1, Extended
  <2>2. QED
    BY <1>1, <2>1, Extended DEF Ordered
<1>2. QED
  BY <1>1, Extended DEF Ordered

LEMMA SlotStep ==
  ASSUME NEW lines \in Seq(Line), NEW sec \in Spans, Within(lines, sec),
         NEW n \in sec.from .. sec.to, NEW slots, SlotInv(lines, sec, n - 1, slots)
  PROVE  SlotInv(lines, sec, n, AddLine(lines, sec, slots, n))
<1> DEFINE starts == lines[n] # "blank" /\ (n = sec.from \/ lines[n - 1] = "blank")
           L == Len(slots)
<1>1. /\ n \in Nat /\ n >= 1 /\ n - 1 \in Nat /\ sec.from \in Nat /\ sec.from >= 1 /\ sec.from <= n
      /\ sec.to \in Nat
  BY DEF Spans, Within
<1>2. /\ slots \in Seq(Spans) /\ L \in Nat /\ Ordered(slots)
      /\ \A i \in 1 .. L :
           /\ slots[i] \in Spans /\ slots[i].path = sec.path /\ sec.from <= slots[i].from
           /\ slots[i].from <= slots[i].to /\ slots[i].to <= n - 1
           /\ slots[i].from \in Nat /\ slots[i].to \in Nat /\ Paragraph(lines, slots[i])
  <2>1. slots \in Seq(Spans) /\ L \in Nat /\ Ordered(slots)
    BY DEF SlotInv, Parts
  <2>2. ASSUME NEW i \in 1 .. L
        PROVE  slots[i] \in Spans /\ slots[i].from \in Nat /\ slots[i].to \in Nat
    <3>1. slots[i] \in Spans
      BY <2>1
    <3>2. QED
      BY <3>1 DEF Spans
  <2>3. \A i \in 1 .. L :
          /\ slots[i].path = sec.path /\ sec.from <= slots[i].from
          /\ slots[i].from <= slots[i].to /\ slots[i].to <= n - 1 /\ Paragraph(lines, slots[i])
    BY DEF SlotInv, Parts
  <2>4. QED
    BY <2>1, <2>2, <2>3
<1>3. \A m \in sec.from .. n - 1 :
        lines[m] # "blank" => \E i \in 1 .. L : m \in slots[i].from .. slots[i].to
  BY DEF SlotInv, Parts
<1>4. CASE starts
  <2> DEFINE new == Span(sec.path, n, n)
             all == Append(slots, new)
  <2>1. AddLine(lines, sec, slots, n) = all
    BY <1>4 DEF AddLine
  <2>2. new \in Spans /\ new.path = sec.path /\ new.from = n /\ new.to = n
    BY <1>1 DEF Span, Spans
  <2> HIDE DEF new
  <2>3. \A i \in 1 .. L : slots[i].to < new.from
    BY <1>1, <1>2, <2>2
  <2>4. /\ all \in Seq(Spans) /\ all # <<>> /\ Len(all) = L + 1 /\ all[L + 1] = new
        /\ \A i \in 1 .. L : all[i] = slots[i]
        /\ Ordered(all)
    BY <1>2, <2>2, <2>3, AppendedInOrder
  <2> HIDE DEF all
  <2>5. ASSUME NEW i \in 1 .. Len(all)
        PROVE  /\ all[i].path = sec.path /\ sec.from <= all[i].from
               /\ all[i].from <= all[i].to /\ all[i].to <= n /\ Paragraph(lines, all[i])
    <3>1. CASE i = L + 1
      <4>1. all[i] = new
        BY <2>4, <3>1
      <4>2. Paragraph(lines, new)
        BY <1>1, <2>2 DEF Paragraph
      <4>3. QED
        BY <1>1, <2>2, <4>1, <4>2
    <3>2. CASE i # L + 1
      <4>1. i \in 1 .. L /\ all[i] = slots[i]
        BY <1>2, <2>4, <3>2
      <4>2. QED
        BY <1>1, <1>2, <4>1
    <3>3. QED
      BY <3>1, <3>2
  <2>6. ASSUME NEW m \in sec.from .. n, lines[m] # "blank"
        PROVE  \E i \in 1 .. Len(all) : m \in all[i].from .. all[i].to
    <3>1. CASE m = n
      <4>1. L + 1 \in 1 .. Len(all) /\ m \in all[L + 1].from .. all[L + 1].to
        BY <1>1, <1>2, <2>2, <2>4, <3>1
      <4>2. QED
        BY <4>1
    <3>2. CASE m # n
      <4>1. m \in sec.from .. n - 1
        BY <1>1, <3>2
      <4>2. PICK i \in 1 .. L : m \in slots[i].from .. slots[i].to
        BY <1>3, <2>6, <4>1
      <4>3. i \in 1 .. Len(all) /\ all[i] = slots[i]
        BY <1>2, <2>4
      <4>4. QED
        BY <4>2, <4>3
    <3>3. QED
      BY <3>1, <3>2
  <2>7. Last(all).to = n
    BY <2>2, <2>4 DEF Last
  <2>8. QED
    BY <2>1, <2>4, <2>5, <2>6, <2>7 DEF SlotInv, Parts
<1>5. CASE ~ starts /\ slots = <<>>
  <2>1. AddLine(lines, sec, slots, n) = <<>>
    BY <1>5 DEF AddLine
  <2>2. \A m \in sec.from .. n - 1 : lines[m] = "blank"
    BY <1>5 DEF SlotInv
  <2>3. lines[n] = "blank"
    <3>1. CASE n = sec.from
      BY <1>5, <3>1
    <3>2. CASE n # sec.from
      <4>1. lines[n - 1] = "blank"
        BY <1>1, <2>2, <3>2
      <4>2. QED
        BY <1>5, <4>1
    <3>3. QED
      BY <3>1, <3>2
  <2>4. \A m \in sec.from .. n : lines[m] = "blank"
    <3> TAKE m \in sec.from .. n
    <3>1. m = n \/ m \in sec.from .. n - 1
      BY <1>1
    <3>2. QED
      BY <2>2, <2>3, <3>1
  <2>5. QED
    BY <2>1, <2>4, EmptySeq DEF SlotInv, Parts, Ordered
<1>6. CASE ~ starts /\ slots # <<>>
  <2> DEFINE all == Extend(slots, n)
  <2>1. AddLine(lines, sec, slots, n) = all
    BY <1>6 DEF AddLine
  <2>2. /\ all \in Seq(Spans) /\ all # <<>> /\ Len(all) = L /\ L >= 1
        /\ \A i \in 1 .. L : /\ all[i].path = slots[i].path /\ all[i].from = slots[i].from
                             /\ all[i].to = IF i = L THEN n ELSE slots[i].to
    BY <1>1, <1>2, <1>6, Extended
  <2>3. Ordered(all)
    BY <1>1, <1>2, <1>6, ExtendedInOrder
  <2> HIDE DEF all
  <2>4. L \in 1 .. L /\ slots[L].to = n - 1
    BY <1>2, <1>6, <2>2 DEF SlotInv, Last
  <2>5. ASSUME NEW i \in 1 .. Len(all)
        PROVE  /\ all[i].path = sec.path /\ sec.from <= all[i].from
               /\ all[i].from <= all[i].to /\ all[i].to <= n /\ Paragraph(lines, all[i])
    <3>1. CASE i = L
      <4>1. /\ all[i].path = sec.path /\ all[i].from = slots[i].from /\ all[i].to = n
            /\ Paragraph(lines, slots[i]) /\ slots[i].to = n - 1
            /\ slots[i].from \in Nat /\ slots[i].from <= n - 1 /\ sec.from <= slots[i].from
        BY <1>2, <2>2, <2>4, <3>1
      <4>2. ASSUME NEW m \in all[i].from + 1 .. all[i].to, lines[m] # "blank"
            PROVE  lines[m - 1] # "blank"
        <5>1. CASE m = n
          BY <1>1, <1>6, <4>1, <4>2, <5>1
        <5>2. CASE m # n
          <6>1. m \in slots[i].from + 1 .. slots[i].to
            BY <1>1, <4>1, <4>2, <5>2
          <6>2. QED
            BY <4>1, <4>2, <6>1 DEF Paragraph
        <5>3. QED
          BY <5>1, <5>2
      <4>3. QED
        BY <1>1, <4>1, <4>2 DEF Paragraph
    <3>2. CASE i # L
      <4>1. /\ i \in 1 .. L /\ all[i].path = sec.path /\ all[i].from = slots[i].from
            /\ all[i].to = slots[i].to
        BY <1>2, <2>2, <3>2
      <4>2. QED
        BY <1>1, <1>2, <4>1 DEF Paragraph
    <3>3. QED
      BY <3>1, <3>2
  <2>6. ASSUME NEW m \in sec.from .. n, lines[m] # "blank"
        PROVE  \E i \in 1 .. Len(all) : m \in all[i].from .. all[i].to
    <3>1. CASE m = n
      <4>1. m \in all[L].from .. all[L].to /\ L \in 1 .. Len(all)
        BY <1>1, <1>2, <2>2, <2>4, <3>1
      <4>2. QED
        BY <4>1
    <3>2. CASE m # n
      <4>1. m \in sec.from .. n - 1
        BY <1>1, <3>2
      <4>2. PICK i \in 1 .. L : m \in slots[i].from .. slots[i].to
        BY <1>3, <2>6, <4>1
      <4>3. slots[i].to <= all[i].to /\ all[i].from = slots[i].from
        BY <1>1, <1>2, <2>2, <2>4
      <4>4. m \in all[i].from .. all[i].to
        BY <1>1, <1>2, <2>2, <4>2, <4>3
      <4>5. QED
        BY <2>2, <4>4
    <3>3. QED
      BY <3>1, <3>2
  <2>7. Last(all).to = n
    BY <2>2, <2>4 DEF Last
  <2>8. QED
    BY <2>1, <2>2, <2>3, <2>5, <2>6, <2>7 DEF SlotInv, Parts
<1>7. QED
  BY <1>4, <1>5, <1>6

(* The paragraphs of a section, in order, leave no line of text out.       *)
LEMMA SlotsRight ==
  ASSUME NEW lines \in Seq(Line), NEW sec \in Spans, Within(lines, sec)
  PROVE  /\ Parts(lines, sec, sec.to, Slots(lines, sec)) /\ Slots(lines, sec) # <<>>
         /\ \A i \in 1 .. Len(Slots(lines, sec)) : Paragraph(lines, Slots(lines, sec)[i])
<1> DEFINE F == SlotsUpTo(lines, sec)
           T == {n \in sec.from - 1 .. sec.to : SlotInv(lines, sec, n, F[n])}
<1>1. sec.from \in Nat /\ sec.to \in Nat /\ sec.from >= 1 /\ sec.from <= sec.to
  BY DEF Spans, Within
<1>2. /\ F[0] = <<>>
      /\ \A n \in 1 .. sec.to :
           F[n] = IF n < sec.from THEN <<>> ELSE AddLine(lines, sec, F[n - 1], n)
  BY <1>1, SlotsLoop
<1>3. sec.from - 1 \in T
  <2>1. F[sec.from - 1] = <<>>
    <3>1. sec.from - 1 = 0 \/ sec.from - 1 \in 1 .. sec.to
      BY <1>1
    <3>2. QED
      BY <1>1, <1>2, <3>1
  <2>2. SlotInv(lines, sec, sec.from - 1, <<>>)
    BY <1>1, EmptySeq DEF SlotInv, Parts, Ordered
  <2>3. QED
    BY <1>1, <2>1, <2>2
<1>4. \A n \in sec.from - 1 .. sec.to - 1 : n \in T => n + 1 \in T
  <2> TAKE n \in sec.from - 1 .. sec.to - 1
  <2> HAVE n \in T
  <2>1. /\ n + 1 \in sec.from .. sec.to /\ n + 1 - 1 = n /\ n + 1 \in 1 .. sec.to
        /\ ~ (n + 1 < sec.from) /\ n + 1 \in sec.from - 1 .. sec.to
    BY <1>1
  <2>2. F[n + 1] = AddLine(lines, sec, F[n], n + 1)
    BY <1>2, <2>1
  <2>3. SlotInv(lines, sec, n + 1, F[n + 1])
    BY <2>1, <2>2, SlotStep
  <2>4. QED
    BY <2>1, <2>3
<1>5. sec.to \in T
  <2> HIDE DEF T
  <2>1. sec.from - 1 \in Int /\ sec.to \in Int
    BY <1>1
  <2>2. \A n \in sec.from - 1 .. sec.to : n \in T
    BY <1>3, <1>4, <2>1, IntervalInduction
  <2>3. QED
    BY <1>1, <2>2
<1> HIDE DEF F
<1>6. SlotInv(lines, sec, sec.to, F[sec.to])
  BY <1>5
<1>7. CASE F[sec.to] # <<>>
  <2>1. Slots(lines, sec) = F[sec.to]
    BY <1>7 DEF Slots, F
  <2>2. QED
    BY <1>6, <1>7, <2>1 DEF SlotInv
<1>8. CASE F[sec.to] = <<>>
  <2>1. Slots(lines, sec) = <<sec>>
    BY <1>8 DEF Slots, F
  <2>2. \A m \in sec.from .. sec.to : lines[m] = "blank"
    BY <1>6, <1>8 DEF SlotInv
  <2>3. Paragraph(lines, sec)
    BY <1>1, <2>2 DEF Paragraph
  <2>4. <<sec>> \in Seq(Spans) /\ <<sec>> # <<>> /\ Len(<<sec>>) = 1 /\ <<sec>>[1] = sec
    OBVIOUS
  <2>5. Ordered(<<sec>>)
    BY <2>4 DEF Ordered
  <2>6. QED
    BY <1>1, <2>1, <2>2, <2>3, <2>4, <2>5 DEF Parts
<1>9. QED
  BY <1>7, <1>8

----------------------------------------------------------------------------
(* Spans joined to longer ones.                                            *)

Chain(spans) ==
  /\ spans \in Seq(Spans) /\ Ordered(spans)
  /\ \A i \in 1 .. Len(spans) : spans[i].from <= spans[i].to

(* The first n of some spans, joined: each result goes from where one of   *)
(* them begins to where that or a later one ends.                          *)
JoinedFrom(joined, spans, n) ==
  /\ joined \in Seq(Spans) /\ Ordered(joined)
  /\ IF n = 0 THEN joined = <<>> ELSE joined # <<>> /\ Last(joined).to = spans[n].to
  /\ \A k \in 1 .. Len(joined) : \E i \in 1 .. n : \E j \in i .. n :
       /\ joined[k].path = spans[i].path /\ joined[k].from = spans[i].from
       /\ joined[k].to = spans[j].to
  /\ \A i \in 1 .. n : \E k \in 1 .. Len(joined) :
       joined[k].from <= spans[i].from /\ spans[i].to <= joined[k].to

LEMMA ChainNumbers ==
  ASSUME NEW spans, Chain(spans)
  PROVE  /\ Len(spans) \in Nat
         /\ \A i \in 1 .. Len(spans) :
              /\ spans[i] \in Spans /\ spans[i].from \in Nat /\ spans[i].to \in Nat
              /\ spans[i].from <= spans[i].to
         /\ \A i \in 1 .. Len(spans) : \A j \in i .. Len(spans) :
              spans[i].from <= spans[j].from /\ spans[i].to <= spans[j].to
<1>1. spans \in Seq(Spans) /\ Len(spans) \in Nat
  BY DEF Chain
<1>2. ASSUME NEW i \in 1 .. Len(spans)
      PROVE  /\ spans[i] \in Spans /\ spans[i].from \in Nat /\ spans[i].to \in Nat
             /\ spans[i].from <= spans[i].to
  <2>1. spans[i] \in Spans
    BY <1>1
  <2>2. QED
    BY <2>1 DEF Spans, Chain
<1>3. ASSUME NEW i \in 1 .. Len(spans), NEW j \in i .. Len(spans)
      PROVE  spans[i].from <= spans[j].from /\ spans[i].to <= spans[j].to
  <2>1. j \in 1 .. Len(spans)
    BY <1>1
  <2>2. CASE i = j
    BY <1>2, <2>2
  <2>3. CASE i # j
    <3>1. i < j
      BY <1>1, <2>3
    <3>2. spans[i].to < spans[j].from
      BY <2>1, <3>1 DEF Chain, Ordered
    <3>3. QED
      BY <1>2, <2>1, <3>2
  <2>4. QED
    BY <2>2, <2>3
<1>4. QED
  BY <1>1, <1>2, <1>3

LEMMA JoinedNumbers ==
  ASSUME NEW spans, Chain(spans), NEW n \in 0 .. Len(spans), NEW joined,
         JoinedFrom(joined, spans, n)
  PROVE  /\ Len(joined) \in Nat /\ joined \in Seq(Spans) /\ Ordered(joined)
         /\ \A k \in 1 .. Len(joined) :
              /\ joined[k] \in Spans /\ joined[k].from \in Nat /\ joined[k].to \in Nat
              /\ joined[k].from <= joined[k].to /\ n >= 1 /\ joined[k].to <= spans[n].to
<1>1. joined \in Seq(Spans) /\ Len(joined) \in Nat /\ Ordered(joined)
  BY DEF JoinedFrom
<1>2. ASSUME NEW k \in 1 .. Len(joined)
      PROVE  /\ joined[k] \in Spans /\ joined[k].from \in Nat /\ joined[k].to \in Nat
             /\ joined[k].from <= joined[k].to /\ n >= 1 /\ joined[k].to <= spans[n].to
  <2>1. joined[k] \in Spans
    BY <1>1
  <2>2. PICK i \in 1 .. n : \E j \in i .. n :
           joined[k].from = spans[i].from /\ joined[k].to = spans[j].to
    BY DEF JoinedFrom
  <2>3. PICK j \in i .. n : joined[k].from = spans[i].from /\ joined[k].to = spans[j].to
    BY <2>2
  <2>4. /\ i \in 1 .. Len(spans) /\ j \in i .. Len(spans) /\ j \in 1 .. Len(spans)
        /\ n \in j .. Len(spans) /\ n >= 1
    BY ChainNumbers
  <2>5. /\ spans[i].from <= spans[i].to /\ spans[i].to <= spans[j].to /\ spans[j].to <= spans[n].to
        /\ spans[i].from \in Nat /\ spans[i].to \in Nat /\ spans[j].to \in Nat
        /\ spans[n].to \in Nat
    BY <2>4, ChainNumbers
  <2>6. QED
    BY <2>1, <2>3, <2>4, <2>5
<1>3. QED
  BY <1>1, <1>2

(* The next span may go to the last result.                                *)
LEMMA JoinedByExtend ==
  ASSUME NEW spans, Chain(spans), NEW n \in 1 .. Len(spans), NEW joined,
         JoinedFrom(joined, spans, n - 1), joined # <<>>
  PROVE  JoinedFrom(Extend(joined, spans[n].to), spans, n)
<1> DEFINE all == Extend(joined, spans[n].to)
           L == Len(joined)
<1>1. /\ n \in Nat /\ n - 1 \in 0 .. Len(spans) /\ n - 1 \in 1 .. Len(spans) /\ n \in n - 1 .. Len(spans)
  <2>1. n - 1 # 0
    BY DEF JoinedFrom
  <2>2. QED
    BY <2>1, ChainNumbers
<1>2. /\ spans[n].to \in Nat /\ spans[n].from \in Nat /\ spans[n - 1].to < spans[n].from
      /\ spans[n - 1].to <= spans[n].to /\ spans[n].from <= spans[n].to /\ spans[n - 1].to \in Nat
  BY <1>1, ChainNumbers DEF Chain, Ordered
<1>3. /\ L \in Nat /\ joined \in Seq(Spans) /\ Ordered(joined)
      /\ \A k \in 1 .. L :
           /\ joined[k].from \in Nat /\ joined[k].to \in Nat
           /\ joined[k].from <= joined[k].to /\ joined[k].to <= spans[n - 1].to
  BY <1>1, JoinedNumbers
<1>4. /\ all \in Seq(Spans) /\ all # <<>> /\ Len(all) = L /\ L >= 1
      /\ \A k \in 1 .. L :
           /\ all[k].path = joined[k].path /\ all[k].from = joined[k].from
           /\ all[k].to = IF k = L THEN spans[n].to ELSE joined[k].to
  BY <1>2, <1>3, Extended
<1>5. Ordered(all)
  BY <1>2, <1>3, ExtendedInOrder
<1> HIDE DEF all
<1>6. n # 0 /\ L \in 1 .. L /\ Last(all).to = spans[n].to
  BY <1>1, <1>3, <1>4 DEF Last
<1>7. ASSUME NEW k \in 1 .. Len(all)
      PROVE  \E i \in 1 .. n : \E j \in i .. n :
               /\ all[k].path = spans[i].path /\ all[k].from = spans[i].from
               /\ all[k].to = spans[j].to
  <2>1. k \in 1 .. L
    BY <1>4
  <2>2. PICK i \in 1 .. n - 1 : \E j \in i .. n - 1 :
           /\ joined[k].path = spans[i].path /\ joined[k].from = spans[i].from
           /\ joined[k].to = spans[j].to
    BY <2>1 DEF JoinedFrom
  <2>3. PICK j \in i .. n - 1 : /\ joined[k].path = spans[i].path /\ joined[k].from = spans[i].from
                                /\ joined[k].to = spans[j].to
    BY <2>2
  <2>4. i \in 1 .. n /\ j \in i .. n /\ n \in i .. n
    BY <1>1
  <2>5. all[k].to = spans[n].to \/ all[k].to = spans[j].to
    BY <1>4, <2>1, <2>3
  <2>6. all[k].path = spans[i].path /\ all[k].from = spans[i].from
    BY <1>4, <2>1, <2>3
  <2>7. QED
    BY <2>4, <2>5, <2>6
<1>8. ASSUME NEW i \in 1 .. n
      PROVE  \E k \in 1 .. Len(all) : all[k].from <= spans[i].from /\ spans[i].to <= all[k].to
  <2>1. CASE i = n
    <3>1. all[L].from <= spans[i].from /\ spans[i].to <= all[L].to
      BY <1>2, <1>3, <1>4, <1>6, <2>1
    <3>2. QED
      BY <1>4, <1>6, <3>1
  <2>2. CASE i # n
    <3>1. i \in 1 .. n - 1 /\ i \in 1 .. Len(spans) /\ spans[i].to \in Nat
      BY <1>1, <2>2, ChainNumbers
    <3>2. PICK k \in 1 .. L : joined[k].from <= spans[i].from /\ spans[i].to <= joined[k].to
      BY <3>1 DEF JoinedFrom
    <3>3. joined[k].to <= all[k].to /\ all[k].to \in Nat /\ joined[k].to \in Nat
      BY <1>2, <1>3, <1>4
    <3>4. spans[i].to <= all[k].to /\ all[k].from <= spans[i].from /\ k \in 1 .. Len(all)
      BY <1>4, <3>1, <3>2, <3>3
    <3>5. QED
      BY <3>4
  <2>3. QED
    BY <2>1, <2>2
<1>9. QED
  BY <1>4, <1>5, <1>6, <1>7, <1>8 DEF JoinedFrom, all

(* Or it begins a result of its own.                                       *)
LEMMA JoinedByAppend ==
  ASSUME NEW spans, Chain(spans), NEW n \in 1 .. Len(spans), NEW joined,
         JoinedFrom(joined, spans, n - 1)
  PROVE  JoinedFrom(Append(joined, spans[n]), spans, n)
<1> DEFINE all == Append(joined, spans[n])
           L == Len(joined)
<1>1. n \in Nat /\ n >= 1 /\ n - 1 \in 0 .. Len(spans) /\ Len(spans) \in Nat
  BY ChainNumbers
<1>2. /\ spans[n] \in Spans /\ spans[n].to \in Nat /\ spans[n].from \in Nat
      /\ spans[n].from <= spans[n].to
  BY ChainNumbers
<1>3. /\ L \in Nat /\ joined \in Seq(Spans) /\ Ordered(joined)
      /\ \A k \in 1 .. L : /\ joined[k].to \in Nat /\ n - 1 >= 1 /\ joined[k].to <= spans[n - 1].to
  BY <1>1, JoinedNumbers
<1>4. \A k \in 1 .. L : joined[k].to < spans[n].from
  <2> TAKE k \in 1 .. L
  <2>1. n - 1 \in 1 .. Len(spans) /\ n - 1 < n
    BY <1>1, <1>3
  <2>2. spans[n - 1].to < spans[n].from /\ spans[n - 1].to \in Nat
    BY <2>1, ChainNumbers DEF Chain, Ordered
  <2>3. QED
    BY <1>2, <1>3, <2>2
<1>5. /\ all \in Seq(Spans) /\ all # <<>> /\ Len(all) = L + 1 /\ all[L + 1] = spans[n]
      /\ \A k \in 1 .. L : all[k] = joined[k]
      /\ Ordered(all)
  BY <1>2, <1>3, <1>4, AppendedInOrder
<1> HIDE DEF all
<1>6. n # 0 /\ Last(all).to = spans[n].to /\ n \in 1 .. n /\ n \in n .. n
  BY <1>1, <1>5 DEF Last
<1>7. ASSUME NEW k \in 1 .. Len(all)
      PROVE  \E i \in 1 .. n : \E j \in i .. n :
               /\ all[k].path = spans[i].path /\ all[k].from = spans[i].from
               /\ all[k].to = spans[j].to
  <2>1. CASE k = L + 1
    BY <1>5, <1>6, <2>1
  <2>2. CASE k # L + 1
    <3>1. k \in 1 .. L /\ all[k] = joined[k]
      BY <1>3, <1>5, <2>2
    <3>2. PICK i \in 1 .. n - 1 : \E j \in i .. n - 1 :
             /\ joined[k].path = spans[i].path /\ joined[k].from = spans[i].from
             /\ joined[k].to = spans[j].to
      BY <3>1 DEF JoinedFrom
    <3>3. PICK j \in i .. n - 1 :
             /\ joined[k].path = spans[i].path /\ joined[k].from = spans[i].from
             /\ joined[k].to = spans[j].to
      BY <3>2
    <3>4. i \in 1 .. n /\ j \in i .. n
      BY <1>1
    <3>5. QED
      BY <3>1, <3>3, <3>4
  <2>3. QED
    BY <2>1, <2>2
<1>8. ASSUME NEW i \in 1 .. n
      PROVE  \E k \in 1 .. Len(all) : all[k].from <= spans[i].from /\ spans[i].to <= all[k].to
  <2>1. CASE i = n
    <3>1. L + 1 \in 1 .. Len(all) /\ all[L + 1] = spans[i]
      BY <1>3, <1>5, <2>1
    <3>2. QED
      BY <1>2, <2>1, <3>1
  <2>2. CASE i # n
    <3>1. i \in 1 .. n - 1
      BY <1>1, <2>2
    <3>2. PICK k \in 1 .. L : joined[k].from <= spans[i].from /\ spans[i].to <= joined[k].to
      BY <3>1 DEF JoinedFrom
    <3>3. k \in 1 .. Len(all) /\ all[k] = joined[k]
      BY <1>3, <1>5
    <3>4. QED
      BY <3>2, <3>3
  <2>3. QED
    BY <2>1, <2>2
<1>9. QED
  BY <1>5, <1>6, <1>7, <1>8 DEF JoinedFrom, all

(* A span over the maximum is a single paragraph.                          *)
Fits(lines, s) == Tokens(lines, s.from, s.to) <= MaxTokens \/ Paragraph(lines, s)

AllFit(lines, spans) == \A i \in 1 .. Len(spans) : Fits(lines, spans[i])

LEMMA ExtendedFit ==
  ASSUME NEW lines, NEW spans \in Seq(Spans), spans # <<>>, NEW to \in Nat,
         AllFit(lines, spans), Tokens(lines, Last(spans).from, to) <= MaxTokens
  PROVE  AllFit(lines, Extend(spans, to))
<1> DEFINE all == Extend(spans, to)
           L == Len(spans)
<1>1. /\ Len(all) = L /\ L \in Nat /\ L >= 1
      /\ \A i \in 1 .. L : /\ all[i].from = spans[i].from
                           /\ all[i].to = IF i = L THEN to ELSE spans[i].to
  BY Extended
<1> HIDE DEF all
<1>2. ASSUME NEW i \in 1 .. L PROVE Fits(lines, all[i])
  <2>1. CASE i = L
    BY <1>1, <2>1 DEF Fits, Last
  <2>2. CASE i # L
    BY <1>1, <2>2 DEF AllFit, Fits, Paragraph
  <2>3. QED
    BY <2>1, <2>2
<1>3. QED
  BY <1>1, <1>2 DEF AllFit, all

LEMMA AppendedFit ==
  ASSUME NEW lines, NEW spans \in Seq(Spans), NEW s \in Spans,
         AllFit(lines, spans), Fits(lines, s)
  PROVE  AllFit(lines, Append(spans, s))
<1>1. /\ Len(Append(spans, s)) = Len(spans) + 1 /\ Len(spans) \in Nat
      /\ Append(spans, s)[Len(spans) + 1] = s
      /\ \A i \in 1 .. Len(spans) : Append(spans, s)[i] = spans[i]
  BY AppendProperties
<1>2. QED
  BY <1>1 DEF AllFit

(* _split_if_too_long packs paragraphs.                                    *)
PackInv(lines, slots, n, groups) == JoinedFrom(groups, slots, n) /\ AllFit(lines, groups)

LEMMA PackStep ==
  ASSUME NEW lines, NEW slots, Chain(slots), AllFit(lines, slots),
         NEW n \in 1 .. Len(slots), NEW groups, PackInv(lines, slots, n - 1, groups)
  PROVE  PackInv(lines, slots, n, Pack(lines, groups, slots[n]))
<1>1. slots[n] \in Spans /\ slots[n].to \in Nat
  BY ChainNumbers
<1>2. groups \in Seq(Spans) /\ AllFit(lines, groups)
  BY DEF PackInv, JoinedFrom
<1>3. CASE groups # <<>> /\ Tokens(lines, Last(groups).from, slots[n].to) <= MaxTokens
  <2>1. Pack(lines, groups, slots[n]) = Extend(groups, slots[n].to)
    BY <1>3 DEF Pack
  <2>2. JoinedFrom(Extend(groups, slots[n].to), slots, n)
    BY <1>3, JoinedByExtend DEF PackInv
  <2>3. AllFit(lines, Extend(groups, slots[n].to))
    BY <1>1, <1>2, <1>3, ExtendedFit
  <2>4. QED
    BY <2>1, <2>2, <2>3 DEF PackInv
<1>4. CASE ~ (groups # <<>> /\ Tokens(lines, Last(groups).from, slots[n].to) <= MaxTokens)
  <2>1. Pack(lines, groups, slots[n]) = Append(groups, slots[n])
    BY <1>4 DEF Pack
  <2>2. JoinedFrom(Append(groups, slots[n]), slots, n)
    BY JoinedByAppend DEF PackInv
  <2>3. AllFit(lines, Append(groups, slots[n]))
    BY <1>1, <1>2, AppendedFit DEF AllFit
  <2>4. QED
    BY <2>1, <2>2, <2>3 DEF PackInv
<1>5. QED
  BY <1>3, <1>4

LEMMA PackedLoop ==
  ASSUME NEW lines, NEW slots \in Seq(Spans)
  PROVE  /\ Packed(lines, slots)[0] = <<>>
         /\ \A n \in 1 .. Len(slots) :
              Packed(lines, slots)[n] = Pack(lines, Packed(lines, slots)[n - 1], slots[n])
<1> DEFINE Loop(f) == f = [n \in 0 .. Len(slots) |->
                             IF n = 0 THEN <<>> ELSE Pack(lines, f[n - 1], slots[n])]
           G == [p \in (1 .. Len(slots)) \X Seq(Spans) |-> Pack(lines, p[2], slots[p[1]])]
           F == Packed(lines, slots)
<1>1. Len(slots) \in Nat /\ \A n \in 1 .. Len(slots) : slots[n] \in Spans /\ slots[n].to \in Nat
  <2>1. \A n \in 1 .. Len(slots) : slots[n] \in Spans
    OBVIOUS
  <2>2. \A s \in Spans : s.to \in Nat
    BY DEF Spans
  <2>3. QED
    BY <2>1, <2>2
<1>2. <<>> \in Seq(Spans)
  BY EmptySeq
<1>3. G \in [(1 .. Len(slots)) \X Seq(Spans) -> Seq(Spans)]
  <2>1. ASSUME NEW n \in 1 .. Len(slots), NEW groups \in Seq(Spans)
        PROVE  Pack(lines, groups, slots[n]) \in Seq(Spans)
    <3>1. Append(groups, slots[n]) \in Seq(Spans)
      BY <1>1, AppendProperties
    <3>2. groups # <<>> => Extend(groups, slots[n].to) \in Seq(Spans)
      BY <1>1, Extended
    <3>3. QED
      BY <3>1, <3>2 DEF Pack
  <2>2. QED
    BY <2>1
<1>4. PICK g : History(g, Len(slots), Seq(Spans), <<>>, G)
  <2> HIDE DEF G
  <2>1. QED
    BY <1>1, <1>2, <1>3, LoopExists
<1>5. ASSUME NEW n \in 1 .. Len(slots) PROVE g[n] = Pack(lines, g[n - 1], slots[n])
  <2> HIDE DEF G
  <2>1. g[n - 1] \in Seq(Spans)
    BY <1>1, <1>4 DEF History
  <2>2. g[n] = G[<<n, g[n - 1]>>]
    BY <1>4 DEF History
  <2> USE DEF G
  <2>3. QED
    BY <2>1, <2>2
<1>6. Loop(g)
  <2>1. \A n \in 0 .. Len(slots) :
          g[n] = IF n = 0 THEN <<>> ELSE Pack(lines, g[n - 1], slots[n])
    BY <1>1, <1>4, <1>5 DEF History
  <2>2. QED
    BY <1>4, <2>1 DEF History
<1>7. F = CHOOSE f : Loop(f)
  BY DEF Packed
<1>8. Loop(F)
  BY <1>6, <1>7
<1> HIDE DEF F, G
<1>9. QED
  BY <1>1, <1>8 DEF F

LEMMA PackedRight ==
  ASSUME NEW lines, NEW slots, Chain(slots), AllFit(lines, slots)
  PROVE  PackInv(lines, slots, Len(slots), Packed(lines, slots)[Len(slots)])
<1> DEFINE F == Packed(lines, slots)
           T == {n \in 0 .. Len(slots) : PackInv(lines, slots, n, F[n])}
<1>1. slots \in Seq(Spans) /\ Len(slots) \in Nat
  BY DEF Chain
<1>2. F[0] = <<>> /\ \A n \in 1 .. Len(slots) : F[n] = Pack(lines, F[n - 1], slots[n])
  BY <1>1, PackedLoop
<1>3. 0 \in T
  <2>1. PackInv(lines, slots, 0, <<>>)
    BY EmptySeq DEF PackInv, JoinedFrom, AllFit, Ordered
  <2>2. QED
    BY <1>1, <1>2, <2>1
<1>4. \A n \in 0 .. Len(slots) - 1 : n \in T => n + 1 \in T
  <2> TAKE n \in 0 .. Len(slots) - 1
  <2> HAVE n \in T
  <2>1. n + 1 \in 1 .. Len(slots) /\ n + 1 - 1 = n /\ n + 1 \in 0 .. Len(slots)
    BY <1>1
  <2>2. F[n + 1] = Pack(lines, F[n], slots[n + 1])
    BY <1>2, <2>1
  <2>3. PackInv(lines, slots, n + 1, F[n + 1])
    BY <2>1, <2>2, PackStep
  <2>4. QED
    BY <2>1, <2>3
<1>5. \A n \in 0 .. Len(slots) : n \in T
  <2> HIDE DEF T
  <2>1. 0 \in Int /\ Len(slots) \in Int
    BY <1>1
  <2>2. QED
    BY <1>3, <1>4, <2>1, IntervalInduction
<1>6. QED
  BY <1>1, <1>5


LEMMA PartsChain ==
  ASSUME NEW lines, NEW sec \in Spans, NEW n \in Nat, NEW parts, Parts(lines, sec, n, parts)
  PROVE  Chain(parts)
BY DEF Chain, Parts

(* Parts that are joined are parts still.                                  *)
LEMMA PartsJoined ==
  ASSUME NEW lines, NEW sec \in Spans, NEW n \in Nat, NEW parts, Parts(lines, sec, n, parts),
         NEW joined, JoinedFrom(joined, parts, Len(parts))
  PROVE  Parts(lines, sec, n, joined)
<1>1. Chain(parts) /\ Len(parts) \in Nat /\ Len(parts) \in 0 .. Len(parts)
  <2>1. Chain(parts)
    BY PartsChain
  <2>2. QED
    BY <2>1, ChainNumbers
<1>2. /\ joined \in Seq(Spans) /\ Ordered(joined) /\ Len(joined) \in Nat
      /\ \A k \in 1 .. Len(joined) : /\ joined[k].from <= joined[k].to
                                     /\ joined[k].from \in Nat /\ joined[k].to \in Nat
  BY <1>1, JoinedNumbers
<1>3. ASSUME NEW k \in 1 .. Len(joined)
      PROVE  /\ joined[k].path = sec.path /\ sec.from <= joined[k].from /\ joined[k].to <= n
  <2>1. PICK i \in 1 .. Len(parts) : \E j \in i .. Len(parts) :
           /\ joined[k].path = parts[i].path /\ joined[k].from = parts[i].from
           /\ joined[k].to = parts[j].to
    BY DEF JoinedFrom
  <2>2. PICK j \in i .. Len(parts) :
           /\ joined[k].path = parts[i].path /\ joined[k].from = parts[i].from
           /\ joined[k].to = parts[j].to
    BY <2>1
  <2>3. j \in 1 .. Len(parts)
    BY <1>1
  <2>4. QED
    BY <2>2, <2>3 DEF Parts
<1>4. ASSUME NEW m \in sec.from .. n, lines[m] # "blank"
      PROVE  \E k \in 1 .. Len(joined) : m \in joined[k].from .. joined[k].to
  <2>1. PICK i \in 1 .. Len(parts) : m \in parts[i].from .. parts[i].to
    BY <1>4 DEF Parts
  <2>2. PICK k \in 1 .. Len(joined) : joined[k].from <= parts[i].from /\ parts[i].to <= joined[k].to
    BY DEF JoinedFrom
  <2>3. parts[i].from \in Nat /\ parts[i].to \in Nat /\ sec.from \in Nat
    BY <1>1, ChainNumbers DEF Spans
  <2>4. m \in joined[k].from .. joined[k].to
    BY <1>2, <2>1, <2>2, <2>3
  <2>5. QED
    BY <2>4
<1>5. QED
  BY <1>2, <1>3, <1>4 DEF Parts

(* A section is split into parts of it that fit.                           *)
LEMMA SplitRight ==
  ASSUME NEW lines \in Seq(Line), NEW sec \in Spans, Within(lines, sec)
  PROVE  /\ Parts(lines, sec, sec.to, SplitIfTooLong(lines, sec))
         /\ AllFit(lines, SplitIfTooLong(lines, sec))
<1>1. sec.from \in Nat /\ sec.to \in Nat /\ sec.from >= 1 /\ sec.from <= sec.to
  BY DEF Spans, Within
<1>2. CASE Tokens(lines, sec.from, sec.to) <= MaxTokens
  <2>1. SplitIfTooLong(lines, sec) = <<sec>>
    BY <1>2 DEF SplitIfTooLong
  <2>2. <<sec>> \in Seq(Spans) /\ Len(<<sec>>) = 1 /\ <<sec>>[1] = sec
    OBVIOUS
  <2>3. Ordered(<<sec>>)
    BY <2>2 DEF Ordered
  <2>4. AllFit(lines, <<sec>>)
    BY <1>2, <2>2 DEF AllFit, Fits
  <2>5. QED
    BY <1>1, <2>1, <2>2, <2>3, <2>4 DEF Parts
<1>3. CASE ~ (Tokens(lines, sec.from, sec.to) <= MaxTokens)
  <2> DEFINE slots == Slots(lines, sec)
             groups == Packed(lines, slots)[Len(slots)]
  <2>1. SplitIfTooLong(lines, sec) = groups
    BY <1>3 DEF SplitIfTooLong
  <2>2. Parts(lines, sec, sec.to, slots) /\ \A i \in 1 .. Len(slots) : Paragraph(lines, slots[i])
    BY SlotsRight
  <2> HIDE DEF slots
  <2>3. Chain(slots) /\ AllFit(lines, slots)
    BY <1>1, <2>2, PartsChain DEF AllFit, Fits
  <2>4. JoinedFrom(groups, slots, Len(slots)) /\ AllFit(lines, groups)
    BY <2>3, PackedRight DEF PackInv
  <2> HIDE DEF groups
  <2>5. Parts(lines, sec, sec.to, groups)
    BY <1>1, <2>2, <2>4, PartsJoined
  <2>6. QED
    BY <2>1, <2>4, <2>5
<1>4. QED
  BY <1>2, <1>3

----------------------------------------------------------------------------
(* Sequences put one behind the other.                                     *)

(* Element i of flat is element at[i][2] of sequence at[i][1] of the first *)
(* m of seqs, all of them are there, and those of one sequence adjoin.     *)
Placed(at, flat, seqs, m) ==
  /\ at \in [1 .. Len(flat) -> Nat \X Nat]
  /\ \A i \in 1 .. Len(flat) :
       /\ at[i][1] \in 1 .. m /\ at[i][2] \in 1 .. Len(seqs[at[i][1]])
       /\ flat[i] = seqs[at[i][1]][at[i][2]]
  /\ \A i, j \in 1 .. Len(flat) :
       i < j => (at[i][1] < at[j][1] \/ (at[i][1] = at[j][1] /\ at[j][2] - at[i][2] = j - i))
  /\ \A k \in 1 .. m : \A l \in 1 .. Len(seqs[k]) :
       \E i \in 1 .. Len(flat) : at[i][1] = k /\ at[i][2] = l

(* FlattenSeq adds them one at a time.                                     *)
Flattened(f, seqs, S) ==
  /\ f \in [0 .. Len(seqs) -> Seq(S)] /\ f[0] = <<>>
  /\ \A n \in 1 .. Len(seqs) : f[n] = f[n - 1] \o seqs[n]
  /\ FlattenSeq(seqs) = f[Len(seqs)]

LEMMA FlattenLoop ==
  ASSUME NEW S, NEW seqs \in Seq(Seq(S))
  PROVE  \E f : Flattened(f, seqs, S)
<1> DEFINE G == [p \in (1 .. Len(seqs)) \X Seq(S) |-> p[2] \o seqs[p[1]]]
           b == Len(seqs)
           Loop(f) == f = [i \in 1 .. b |-> IF i = 1 THEN seqs[i] ELSE f[i - 1] \o seqs[i]]
<1>1. b \in Nat /\ \A n \in 1 .. b : seqs[n] \in Seq(S)
  OBVIOUS
<1>2. <<>> \in Seq(S)
  BY EmptySeq
<1>3. G \in [(1 .. b) \X Seq(S) -> Seq(S)]
  <2>1. ASSUME NEW n \in 1 .. b, NEW s \in Seq(S) PROVE s \o seqs[n] \in Seq(S)
    BY <1>1, ConcatProperties
  <2>2. QED
    BY <2>1
<1>4. PICK g : History(g, b, Seq(S), <<>>, G)
  <2> HIDE DEF G, b
  <2>1. QED
    BY <1>1, <1>2, <1>3, LoopExists
<1> HIDE DEF b
<1>5. ASSUME NEW n \in 1 .. b PROVE g[n] = g[n - 1] \o seqs[n]
  <2>1. g[n - 1] \in Seq(S)
    BY <1>1, <1>4 DEF History
  <2> HIDE DEF G
  <2>2. g[n] = G[<<n, g[n - 1]>>]
    BY <1>4 DEF History
  <2>3. <<n, g[n - 1]>> \in (1 .. Len(seqs)) \X Seq(S)
    BY <2>1 DEF b
  <2>4. QED
    BY <2>2, <2>3 DEF G
<1> HIDE DEF G
<1>6. g \in [0 .. b -> Seq(S)] /\ g[0] = <<>>
  BY <1>4 DEF History
<1>7. ASSUME FlattenSeq(seqs) = g[b] PROVE \E f : Flattened(f, seqs, S)
  <2>1. Flattened(g, seqs, S)
    BY <1>5, <1>6, <1>7 DEF Flattened, b
  <2>2. QED
    BY <2>1
<1>8. CASE b = 0
  <2>1. FlattenSeq(seqs) = <<>>
    BY <1>8, EmptySeq DEF FlattenSeq, b
  <2>2. QED
    BY <1>6, <1>7, <1>8, <2>1
<1>9. CASE b # 0
  <2> DEFINE h == [i \in 1 .. b |-> g[i]]
             F == CHOOSE f : Loop(f)
  <2>1. g[1] = seqs[1]
    <3>1. 1 \in 1 .. b /\ 1 - 1 = 0
      BY <1>1, <1>9
    <3>2. g[1] = <<>> \o seqs[1]
      BY <1>5, <1>6, <3>1
    <3>3. QED
      BY <1>1, <3>1, <3>2, ConcatEmptySeq
  <2>2. \A i \in 1 .. b : g[i] = IF i = 1 THEN seqs[i] ELSE h[i - 1] \o seqs[i]
    <3> TAKE i \in 1 .. b
    <3>1. CASE i = 1
      BY <2>1, <3>1
    <3>2. CASE i # 1
      <4>1. i - 1 \in 1 .. b
        BY <1>1, <3>2
      <4>2. h[i - 1] = g[i - 1]
        BY <4>1
      <4> HIDE DEF h
      <4>3. QED
        BY <1>5, <3>2, <4>2
    <3>3. QED
      BY <3>1, <3>2
  <2>3. Loop(h)
    BY <2>2
  <2>4. Loop(F)
    <3> HIDE DEF h
    <3>1. QED
      BY <2>3
  <2>5. FlattenSeq(seqs) = F[b]
    BY <1>9 DEF FlattenSeq, b
  <2> HIDE DEF F
  <2>6. F[1] = seqs[1] /\ \A i \in 1 .. b - 1 : F[i + 1] = F[i] \o seqs[i + 1]
    <3>1. 1 \in 1 .. b
      BY <1>1, <1>9
    <3>2. F[1] = seqs[1]
      BY <2>4, <3>1
    <3>3. ASSUME NEW i \in 1 .. b - 1 PROVE F[i + 1] = F[i] \o seqs[i + 1]
      <4>1. PICK n \in 1 .. b : n = i + 1 /\ n - 1 = i /\ n # 1
        BY <1>1
      <4>2. F[n] = F[n - 1] \o seqs[n]
        BY <2>4, <4>1
      <4>3. QED
        BY <4>1, <4>2
    <3>4. QED
      BY <3>2, <3>3
  <2> DEFINE T == {i \in 1 .. b : F[i] = g[i]}
  <2>7. 1 \in T
    BY <1>1, <1>9, <2>1, <2>6
  <2>8. \A i \in 1 .. b - 1 : i \in T => i + 1 \in T
    <3> TAKE i \in 1 .. b - 1
    <3> HAVE i \in T
    <3>1. PICK n \in 1 .. b : n = i + 1 /\ n - 1 = i
      BY <1>1
    <3>2. g[n] = g[n - 1] \o seqs[n]
      BY <1>5
    <3>3. g[i + 1] = g[i] \o seqs[i + 1]
      BY <3>1, <3>2
    <3>4. QED
      BY <2>6, <3>1, <3>3
  <2>9. b \in T
    <3> HIDE DEF T
    <3>1. 1 \in Int /\ b \in Int /\ b \in 1 .. b
      BY <1>1, <1>9
    <3>2. \A i \in 1 .. b : i \in T
      BY <2>7, <2>8, <3>1, IntervalInduction
    <3>3. QED
      BY <3>1, <3>2
  <2>10. QED
    BY <1>7, <2>5, <2>9
<1>10. QED
  BY <1>8, <1>9

LEMMA PlacedStep ==
  ASSUME NEW S, NEW seqs \in Seq(Seq(S)), NEW m \in 1 .. Len(seqs), NEW flat \in Seq(S),
         NEW at, Placed(at, flat, seqs, m - 1)
  PROVE  \E new : Placed(new, flat \o seqs[m], seqs, m)
<1> DEFINE L == Len(flat)
           M == Len(seqs[m])
           all == flat \o seqs[m]
           new == [i \in 1 .. L + M |-> IF i <= L THEN at[i] ELSE <<m, i - L>>]
<1>1. L \in Nat /\ M \in Nat /\ m \in Nat /\ seqs[m] \in Seq(S)
  OBVIOUS
<1>2. /\ Len(all) = L + M
      /\ \A i \in 1 .. L + M : all[i] = IF i <= L THEN flat[i] ELSE seqs[m][i - L]
  BY <1>1, ConcatProperties
<1> HIDE DEF all
<1>3. /\ at \in [1 .. L -> Nat \X Nat]
      /\ \A i \in 1 .. L :
           /\ at[i][1] \in 1 .. m - 1 /\ at[i][2] \in 1 .. Len(seqs[at[i][1]])
           /\ flat[i] = seqs[at[i][1]][at[i][2]]
  BY DEF Placed
<1>4. \A i \in 1 .. L : at[i] \in Nat \X Nat /\ new[i] = at[i] /\ i \in 1 .. L + M
  BY <1>1, <1>3
<1>5. \A i \in 1 .. L + M :
        i > L => /\ i - L \in 1 .. M /\ new[i] = <<m, i - L>>
                 /\ new[i][1] = m /\ new[i][2] = i - L
  BY <1>1
<1>6. new \in [1 .. L + M -> Nat \X Nat]
  BY <1>1, <1>3
<1> HIDE DEF new, L, M
<1>7. ASSUME NEW i \in 1 .. L + M
      PROVE  /\ new[i][1] \in 1 .. m /\ new[i][2] \in 1 .. Len(seqs[new[i][1]])
             /\ all[i] = seqs[new[i][1]][new[i][2]]
  <2>1. CASE i <= L
    <3>1. i \in 1 .. L
      BY <1>1, <2>1
    <3>2. new[i] = at[i] /\ all[i] = flat[i]
      BY <1>2, <1>4, <2>1, <3>1
    <3>3. at[i][1] \in 1 .. m
      BY <1>1, <1>3, <3>1
    <3>4. QED
      BY <1>3, <3>1, <3>2, <3>3
  <2>2. CASE ~ (i <= L)
    <3>1. i - L \in 1 .. M /\ new[i][1] = m /\ new[i][2] = i - L
      BY <1>1, <1>5, <2>2
    <3>2. all[i] = seqs[m][i - L]
      BY <1>2, <2>2
    <3>3. m \in 1 .. m
      BY <1>1
    <3>4. QED
      BY <3>1, <3>2, <3>3 DEF M
  <2>3. QED
    BY <2>1, <2>2
<1>8. ASSUME NEW i \in 1 .. L + M, NEW j \in 1 .. L + M, i < j
      PROVE  \/ new[i][1] < new[j][1]
             \/ new[i][1] = new[j][1] /\ new[j][2] - new[i][2] = j - i
  <2>1. CASE j <= L
    <3>1. i \in 1 .. L /\ j \in 1 .. L
      BY <1>1, <1>8, <2>1
    <3>2. new[i] = at[i] /\ new[j] = at[j]
      BY <1>4, <3>1
    <3>3. QED
      BY <1>8, <3>1, <3>2 DEF Placed, L
  <2>2. CASE i <= L /\ j > L
    <3>1. i \in 1 .. L
      BY <1>1, <2>2
    <3>2. new[i][1] \in 1 .. m - 1 /\ new[j][1] = m
      BY <1>3, <1>4, <1>5, <2>2, <3>1
    <3>3. QED
      BY <1>1, <3>2
  <2>3. CASE i > L
    <3>1. j > L
      BY <1>1, <1>8, <2>3
    <3>2. new[i][1] = m /\ new[i][2] = i - L /\ new[j][1] = m /\ new[j][2] = j - L
      BY <1>5, <2>3, <3>1
    <3>3. QED
      BY <1>1, <3>2
  <2>4. QED
    BY <1>1, <2>1, <2>2, <2>3
<1>9. ASSUME NEW k \in 1 .. m, NEW l \in 1 .. Len(seqs[k])
      PROVE  \E i \in 1 .. L + M : new[i][1] = k /\ new[i][2] = l
  <2>1. CASE k = m
    <3>1. l \in Nat /\ l >= 1 /\ l <= M
      BY <1>1, <2>1 DEF M
    <3>2. PICK i \in 1 .. L + M : i > L /\ i - L = l
      <4> DEFINE i == L + l
      <4>1. i \in 1 .. L + M /\ i > L /\ i - L = l
        BY <1>1, <3>1
      <4> HIDE DEF i
      <4>2. QED
        BY <4>1
    <3>3. new[i][1] = k /\ new[i][2] = l
      BY <1>5, <2>1, <3>2
    <3>4. QED
      BY <3>3
  <2>2. CASE k # m
    <3>1. k \in 1 .. m - 1
      BY <1>1, <2>2
    <3>2. PICK i \in 1 .. L : at[i][1] = k /\ at[i][2] = l
      BY <3>1 DEF Placed, L
    <3>3. QED
      BY <1>4, <3>2
  <2>3. QED
    BY <2>1, <2>2
<1>10. Placed(new, all, seqs, m)
  BY <1>2, <1>6, <1>7, <1>8, <1>9 DEF Placed
<1>11. QED
  BY <1>10 DEF all

LEMMA FlattenRight ==
  ASSUME NEW S, NEW seqs \in Seq(Seq(S))
  PROVE  /\ FlattenSeq(seqs) \in Seq(S)
         /\ \E at : Placed(at, FlattenSeq(seqs), seqs, Len(seqs))
<1>1. PICK f : Flattened(f, seqs, S)
  BY FlattenLoop
<1> DEFINE b == Len(seqs)
           T == {m \in 0 .. b : \E at : Placed(at, f[m], seqs, m)}
<1>2. /\ b \in Nat /\ \A m \in 0 .. b : f[m] \in Seq(S)
      /\ f[0] = <<>> /\ FlattenSeq(seqs) = f[b]
  <2>1. b \in Nat
    OBVIOUS
  <2>2. f \in [0 .. b -> Seq(S)] /\ f[0] = <<>> /\ FlattenSeq(seqs) = f[b]
    BY <1>1 DEF Flattened
  <2>3. QED
    BY <2>1, <2>2
<1>3. 0 \in T
  <2>1. Placed(<<>>, <<>>, seqs, 0)
    <3>1. Len(<<>>) = 0 /\ <<>> \in [1 .. 0 -> Nat \X Nat]
      <4>1. <<>> \in Seq(Nat \X Nat)
        BY EmptySeq
      <4>2. Len(<<>>) = 0
        OBVIOUS
      <4>3. <<>> \in [1 .. Len(<<>>) -> Nat \X Nat]
        BY <4>1, LenProperties
      <4>4. QED
        BY <4>2, <4>3
    <3>2. QED
      BY <3>1 DEF Placed
  <2>2. QED
    BY <1>2, <2>1
<1>4. \A m \in 0 .. b - 1 : m \in T => m + 1 \in T
  <2> TAKE m \in 0 .. b - 1
  <2> HAVE m \in T
  <2>1. PICK n \in 1 .. b : n = m + 1 /\ n - 1 = m /\ n \in 0 .. b
    BY <1>2
  <2>2. PICK at : Placed(at, f[n - 1], seqs, n - 1)
    BY <2>1
  <2>3. f[n - 1] \in Seq(S) /\ f[n] = f[n - 1] \o seqs[n]
    BY <1>1, <1>2, <2>1 DEF Flattened
  <2>4. \E new : Placed(new, f[n], seqs, n)
    BY <2>2, <2>3, PlacedStep
  <2>5. QED
    BY <2>1, <2>4
<1>5. b \in T
  <2> HIDE DEF T
  <2>1. 0 \in Int /\ b \in Int /\ b \in 0 .. b
    BY <1>2
  <2> HIDE DEF b
  <2>2. \A m \in 0 .. b : m \in T
    BY <1>3, <1>4, <2>1, IntervalInduction
  <2>3. QED
    BY <2>1, <2>2
<1>6. b \in 0 .. b
  BY <1>2
<1>7. QED
  BY <1>2, <1>5, <1>6


----------------------------------------------------------------------------
(* Pieces and chunks of a document.                                        *)

(* path ends in the last heading up to the line `from`.                    *)
PathRight(lines, path, from) ==
  IF path = <<>> THEN \A h \in Headings(lines) : from < h
  ELSE /\ Last(path) \in Headings(lines) /\ Last(path) <= from
       /\ \A h \in Headings(lines) : h <= from => h <= Last(path)

(* Spans of the document in order, each under its headings, that leave no  *)
(* line of text out.                                                       *)
Cut(lines, spans) ==
  /\ Chain(spans)
  /\ \A i \in 1 .. Len(spans) :
       Within(lines, spans[i]) /\ PathRight(lines, spans[i].path, spans[i].from)
  /\ \A m \in 1 .. Len(lines) :
       lines[m] # "blank" => \E i \in 1 .. Len(spans) : m \in spans[i].from .. spans[i].to

(* A part of a section is under the section's headings.                    *)
LEMMA PartUnderPath ==
  ASSUME NEW lines \in Seq(Line), NEW sec \in Spans, Within(lines, sec),
         Under(lines, sec.path, sec.from, sec.to), NEW from \in sec.from .. sec.to
  PROVE  PathRight(lines, sec.path, from)
<1>1. sec.from \in Nat /\ sec.to \in Nat /\ \A h \in Headings(lines) : h \in Nat
  BY DEF Spans, Headings
<1>2. CASE sec.path = <<>>
  <2>1. \A h \in Headings(lines) : from < h
    BY <1>1, <1>2 DEF Under
  <2>2. QED
    BY <1>2, <2>1 DEF PathRight
<1>3. CASE sec.path # <<>>
  <2>1. Last(sec.path) = sec.from /\ sec.from \in Headings(lines)
    BY <1>3 DEF Under
  <2>2. \A h \in Headings(lines) : h <= sec.to => h <= sec.from
    BY <1>3 DEF Under
  <2>3. \A h \in Headings(lines) : h <= from => h <= sec.from
    BY <1>1, <2>2
  <2>4. sec.from <= from
    BY <1>1
  <2>5. QED
    BY <1>3, <2>1, <2>3, <2>4 DEF PathRight
<1>4. QED
  BY <1>2, <1>3

Pieces(lines) ==
  FlattenSeq([i \in DOMAIN Parse(lines) |-> SplitIfTooLong(lines, Parse(lines)[i])])

LEMMA PiecesRight ==
  ASSUME NEW lines \in Seq(Line)
  PROVE  Cut(lines, Pieces(lines)) /\ AllFit(lines, Pieces(lines))
<1> DEFINE sections == Parse(lines)
           split == [i \in DOMAIN sections |-> SplitIfTooLong(lines, sections[i])]
           pieces == Pieces(lines)
<1>1. Sectioned(lines, sections, Len(lines)) /\ Len(lines) \in Nat
  BY ParseRight
<1> HIDE DEF sections
<1>2. sections \in Seq(Spans) /\ Len(sections) \in Nat /\ DOMAIN sections = 1 .. Len(sections)
  BY <1>1 DEF Sectioned
<1>3. ASSUME NEW k \in 1 .. Len(sections)
      PROVE  /\ sections[k] \in Spans /\ Within(lines, sections[k])
             /\ sections[k].from \in Nat /\ sections[k].to \in Nat
             /\ Under(lines, sections[k].path, sections[k].from, sections[k].to)
             /\ Parts(lines, sections[k], sections[k].to, split[k]) /\ AllFit(lines, split[k])
  <2>1. sections[k] \in Spans
    BY <1>2
  <2>2. /\ Within(lines, sections[k])
        /\ Under(lines, sections[k].path, sections[k].from, sections[k].to)
    BY <1>1 DEF Sectioned
  <2>3. split[k] = SplitIfTooLong(lines, sections[k])
    BY <1>2
  <2>4. Parts(lines, sections[k], sections[k].to, split[k]) /\ AllFit(lines, split[k])
    BY <2>1, <2>2, <2>3, SplitRight
  <2>5. sections[k].from \in Nat /\ sections[k].to \in Nat
    BY <2>1 DEF Spans
  <2>6. QED
    BY <2>1, <2>2, <2>4, <2>5
<1>4. split \in Seq(Seq(Spans)) /\ Len(split) = Len(sections)
  <2>1. split = [k \in 1 .. Len(sections) |-> split[k]]
    BY <1>2
  <2>2. \A k \in 1 .. Len(sections) : split[k] \in Seq(Spans)
    BY <1>3 DEF Parts
  <2> HIDE DEF split
  <2>3. QED
    BY <1>2, <2>1, <2>2
<1>5. pieces = FlattenSeq(split)
  BY DEF Pieces, sections
<1> HIDE DEF split
<1>6. pieces \in Seq(Spans) /\ \E at : Placed(at, pieces, split, Len(split))
  BY <1>4, <1>5, FlattenRight
<1> HIDE DEF pieces
<1>7. PICK at : Placed(at, pieces, split, Len(split))
  BY <1>6
<1>8. ASSUME NEW i \in 1 .. Len(pieces)
      PROVE  /\ at[i][1] \in 1 .. Len(sections) /\ at[i][2] \in 1 .. Len(split[at[i][1]])
             /\ pieces[i] = split[at[i][1]][at[i][2]]
             /\ pieces[i].from \in Nat /\ pieces[i].to \in Nat
             /\ pieces[i].path = sections[at[i][1]].path
             /\ sections[at[i][1]].from <= pieces[i].from /\ pieces[i].from <= pieces[i].to
             /\ pieces[i].to <= sections[at[i][1]].to
  <2>1. /\ at[i][1] \in 1 .. Len(sections) /\ at[i][2] \in 1 .. Len(split[at[i][1]])
        /\ pieces[i] = split[at[i][1]][at[i][2]]
    BY <1>4, <1>7 DEF Placed
  <2>2. Parts(lines, sections[at[i][1]], sections[at[i][1]].to, split[at[i][1]])
    BY <1>3, <2>1
  <2>3. pieces[i] \in Spans
    BY <1>6
  <2>4. pieces[i].from \in Nat /\ pieces[i].to \in Nat
    BY <2>3 DEF Spans
  <2>5. QED
    BY <2>1, <2>2, <2>4 DEF Parts
<1>9. Ordered(pieces)
  <2>1. ASSUME NEW i \in 1 .. Len(pieces), NEW j \in 1 .. Len(pieces), i < j
        PROVE  pieces[i].to < pieces[j].from
    <3>1. CASE at[i][1] < at[j][1]
      <4>1. sections[at[i][1]].to < sections[at[j][1]].from
        BY <1>1, <1>8, <3>1 DEF Sectioned, Ordered
      <4>2. /\ sections[at[i][1]].to \in Nat /\ sections[at[j][1]].from \in Nat
            /\ pieces[i].to \in Nat /\ pieces[j].from \in Nat
            /\ pieces[i].to <= sections[at[i][1]].to /\ sections[at[j][1]].from <= pieces[j].from
        BY <1>3, <1>8
      <4>3. QED
        BY <4>1, <4>2
    <3>2. CASE at[i][1] = at[j][1] /\ at[j][2] - at[i][2] = j - i
      <4> DEFINE k == at[i][1]
      <4>1. k \in 1 .. Len(sections) /\ at[i][2] \in 1 .. Len(split[k]) /\ at[j][2] \in 1 .. Len(split[k])
        BY <1>8, <3>2
      <4>2. Ordered(split[k])
        BY <1>3, <4>1 DEF Parts
      <4>3. i \in Nat /\ j \in Nat /\ at[i][2] \in Nat /\ at[j][2] \in Nat
        BY <4>1
      <4>4. at[i][2] < at[j][2]
        BY <2>1, <3>2, <4>3
      <4>5. pieces[i] = split[k][at[i][2]] /\ pieces[j] = split[k][at[j][2]]
        BY <1>8, <3>2
      <4> HIDE DEF k
      <4>6. QED
        BY <4>1, <4>2, <4>4, <4>5 DEF Ordered
    <3>3. QED
      BY <1>7, <2>1, <3>1, <3>2 DEF Placed
  <2>2. QED
    BY <2>1 DEF Ordered
<1>10. Chain(pieces)
  BY <1>6, <1>8, <1>9 DEF Chain
<1>11. ASSUME NEW i \in 1 .. Len(pieces)
       PROVE  /\ Within(lines, pieces[i]) /\ PathRight(lines, pieces[i].path, pieces[i].from)
              /\ Fits(lines, pieces[i])
  <2> DEFINE k == at[i][1]
  <2>1. k \in 1 .. Len(sections)
    BY <1>8
  <2>2. /\ sections[k].from <= pieces[i].from /\ pieces[i].from <= pieces[i].to
        /\ pieces[i].to <= sections[k].to /\ pieces[i].path = sections[k].path
        /\ pieces[i].from \in Nat /\ pieces[i].to \in Nat
        /\ at[i][2] \in 1 .. Len(split[k]) /\ pieces[i] = split[k][at[i][2]]
    BY <1>8
  <2> HIDE DEF k
  <2>3. /\ sections[k] \in Spans /\ Within(lines, sections[k])
        /\ sections[k].from \in Nat /\ sections[k].to \in Nat
        /\ Under(lines, sections[k].path, sections[k].from, sections[k].to)
        /\ AllFit(lines, split[k])
    BY <1>3, <2>1
  <2> DEFINE a == sections[k].from
             d == sections[k].to
             f == pieces[i].from
             t == pieces[i].to
  <2>4. Within(lines, pieces[i]) /\ f \in a .. d
    <3>1. a \in 1 .. Len(lines) /\ d \in a .. Len(lines)
      BY <2>3 DEF Within
    <3>2. a <= f /\ f <= t /\ t <= d /\ f \in Nat /\ t \in Nat /\ a \in Nat /\ d \in Nat
      BY <2>2, <2>3
    <3> HIDE DEF a, d, f, t
    <3>3. f \in 1 .. Len(lines) /\ t \in f .. Len(lines) /\ f \in a .. d
      BY <1>1, <3>1, <3>2
    <3>4. QED
      BY <3>3 DEF Within, f, t
  <2>5. pieces[i].from \in sections[k].from .. sections[k].to
    BY <2>4
  <2>6. PathRight(lines, pieces[i].path, pieces[i].from)
    BY <2>2, <2>3, <2>5, PartUnderPath
  <2>7. Fits(lines, pieces[i])
    BY <2>2, <2>3 DEF AllFit
  <2>8. QED
    BY <2>4, <2>6, <2>7
<1>12. ASSUME NEW m \in 1 .. Len(lines), lines[m] # "blank"
       PROVE  \E i \in 1 .. Len(pieces) : m \in pieces[i].from .. pieces[i].to
  <2>1. PICK k \in 1 .. Len(sections) : m \in sections[k].from .. sections[k].to
    BY <1>1 DEF Sectioned
  <2>2. PICK l \in 1 .. Len(split[k]) : m \in split[k][l].from .. split[k][l].to
    BY <1>3, <1>12, <2>1 DEF Parts
  <2>3. PICK i \in 1 .. Len(pieces) : at[i][1] = k /\ at[i][2] = l
    BY <1>4, <1>7 DEF Placed
  <2>4. pieces[i] = split[k][l]
    BY <1>8, <2>3
  <2>5. QED
    BY <2>2, <2>4
<1>13. QED
  BY <1>10, <1>11, <1>12 DEF Cut, AllFit, pieces


(* What is joined of such spans lies within the lines, under the headings  *)
(* of its first.                                                           *)
LEMMA JoinedWithin ==
  ASSUME NEW lines \in Seq(Line), NEW spans, Cut(lines, spans), NEW n \in 0 .. Len(spans),
         NEW joined, JoinedFrom(joined, spans, n)
  PROVE  \A k \in 1 .. Len(joined) :
           /\ Within(lines, joined[k]) /\ PathRight(lines, joined[k].path, joined[k].from)
           /\ joined[k].from \in Nat /\ joined[k].to \in Nat /\ joined[k].from <= joined[k].to
<1>1. Chain(spans) /\ Len(spans) \in Nat /\ Len(lines) \in Nat
  BY ChainNumbers DEF Cut
<1> TAKE k \in 1 .. Len(joined)
<1>2. PICK i \in 1 .. n : \E j \in i .. n :
         /\ joined[k].path = spans[i].path /\ joined[k].from = spans[i].from
         /\ joined[k].to = spans[j].to
  BY DEF JoinedFrom
<1>3. PICK j \in i .. n :
         /\ joined[k].path = spans[i].path /\ joined[k].from = spans[i].from
         /\ joined[k].to = spans[j].to
  BY <1>2
<1>4. i \in 1 .. Len(spans) /\ j \in 1 .. Len(spans)
  BY <1>1
<1>5. /\ Within(lines, spans[i]) /\ Within(lines, spans[j])
      /\ PathRight(lines, spans[i].path, spans[i].from)
  BY <1>4 DEF Cut
<1>6. joined[k].from \in Nat /\ joined[k].to \in Nat /\ joined[k].from <= joined[k].to
  BY <1>1, JoinedNumbers
<1>7. /\ joined[k].from \in 1 .. Len(lines) /\ spans[j].from \in 1 .. Len(lines)
      /\ joined[k].to \in spans[j].from .. Len(lines)
  BY <1>3, <1>5 DEF Within
<1> DEFINE f == joined[k].from
           t == joined[k].to
           g == spans[j].from
<1>8. f \in 1 .. Len(lines) /\ t \in f .. Len(lines)
  <2>1. f \in 1 .. Len(lines) /\ g \in 1 .. Len(lines) /\ t \in g .. Len(lines)
    BY <1>7
  <2>2. f \in Nat /\ t \in Nat /\ f <= t
    BY <1>6
  <2> HIDE DEF f, t, g
  <2>3. QED
    BY <1>1, <2>1, <2>2
<1>9. QED
  BY <1>3, <1>5, <1>6, <1>8 DEF Within

LEMMA JoinedCut ==
  ASSUME NEW lines \in Seq(Line), NEW spans, Cut(lines, spans),
         NEW joined, JoinedFrom(joined, spans, Len(spans))
  PROVE  Cut(lines, joined)
<1>1. Chain(spans) /\ Len(spans) \in 0 .. Len(spans)
  <2>1. Chain(spans)
    BY DEF Cut
  <2>2. QED
    BY <2>1, ChainNumbers
<1>2. \A k \in 1 .. Len(joined) :
        /\ Within(lines, joined[k]) /\ PathRight(lines, joined[k].path, joined[k].from)
        /\ joined[k].from \in Nat /\ joined[k].to \in Nat /\ joined[k].from <= joined[k].to
  BY <1>1, JoinedWithin
<1>3. Chain(joined)
  BY <1>2 DEF Chain, JoinedFrom
<1>4. ASSUME NEW m \in 1 .. Len(lines), lines[m] # "blank"
      PROVE  \E k \in 1 .. Len(joined) : m \in joined[k].from .. joined[k].to
  <2>1. PICK i \in 1 .. Len(spans) : m \in spans[i].from .. spans[i].to
    BY <1>4 DEF Cut
  <2>2. PICK k \in 1 .. Len(joined) : joined[k].from <= spans[i].from /\ spans[i].to <= joined[k].to
    BY DEF JoinedFrom
  <2>3. /\ spans[i].from \in Nat /\ spans[i].to \in Nat
        /\ joined[k].from \in Nat /\ joined[k].to \in Nat
    BY <1>1, <1>2, ChainNumbers
  <2>4. m \in joined[k].from .. joined[k].to
    BY <2>1, <2>2, <2>3
  <2>5. QED
    BY <2>4
<1>5. QED
  BY <1>2, <1>3, <1>4 DEF Cut

(* A chunk under the minimum could not have been merged with the next.     *)
ShortRight(lines, chunks) ==
  \A k \in 1 .. Len(chunks) - 1 :
    Tokens(lines, chunks[k].from, chunks[k].to) < MinTokens =>
      Tokens(lines, chunks[k].from, chunks[k + 1].to) > MaxTokens

(* _merge_short_pieces.                                                    *)
MergeInv(lines, pieces, n, merged) ==
  JoinedFrom(merged, pieces, n) /\ AllFit(lines, merged) /\ ShortRight(lines, merged)

LEMMA MergeStep ==
  ASSUME NEW lines \in Seq(Line), NEW pieces, Cut(lines, pieces), AllFit(lines, pieces),
         NEW n \in 1 .. Len(pieces), NEW merged, MergeInv(lines, pieces, n - 1, merged)
  PROVE  MergeInv(lines, pieces, n, Merge(lines, merged, pieces[n]))
<1> DEFINE L == Len(merged)
<1>1. Chain(pieces)
  BY DEF Cut
<1>2. /\ pieces[n] \in Spans /\ pieces[n].to \in Nat /\ Within(lines, pieces[n])
      /\ pieces[n].from \in Nat /\ pieces[n].from <= pieces[n].to
      /\ n - 1 \in 0 .. Len(pieces) /\ n \in 0 .. Len(pieces)
  BY <1>1, ChainNumbers DEF Cut
<1>3. merged \in Seq(Spans) /\ AllFit(lines, merged) /\ L \in Nat
  BY DEF MergeInv, JoinedFrom
<1>4. \A k \in 1 .. L : /\ Within(lines, merged[k]) /\ merged[k].from \in Nat
                        /\ merged[k].to \in Nat /\ merged[k].from <= merged[k].to
  BY <1>2, JoinedWithin DEF MergeInv
<1> DEFINE fits == /\ merged # <<>>
                   /\ Tokens(lines, Last(merged).from, Last(merged).to) < MinTokens
                   /\ Tokens(lines, Last(merged).from, pieces[n].to) <= MaxTokens
<1>5. CASE fits
  <2> DEFINE all == Extend(merged, pieces[n].to)
  <2>1. Merge(lines, merged, pieces[n]) = all
    BY <1>5 DEF Merge
  <2>2. JoinedFrom(all, pieces, n)
    BY <1>1, <1>5, JoinedByExtend DEF MergeInv
  <2>3. AllFit(lines, all)
    BY <1>2, <1>3, <1>5, ExtendedFit
  <2>4. /\ Len(all) = L /\ L >= 1
        /\ \A k \in 1 .. L : /\ all[k].from = merged[k].from
                             /\ all[k].to = IF k = L THEN pieces[n].to ELSE merged[k].to
    BY <1>2, <1>3, <1>5, Extended
  <2> HIDE DEF all
  <2>5. ASSUME NEW k \in 1 .. L - 1, Tokens(lines, all[k].from, all[k].to) < MinTokens
        PROVE  Tokens(lines, all[k].from, all[k + 1].to) > MaxTokens
    <3>1. k \in 1 .. L /\ k + 1 \in 1 .. L /\ k # L
      BY <1>3
    <3>2. all[k].from = merged[k].from /\ all[k].to = merged[k].to
      BY <2>4, <3>1
    <3>3. Tokens(lines, merged[k].from, merged[k + 1].to) > MaxTokens
      BY <2>5, <3>2 DEF MergeInv, ShortRight
    <3>4. CASE k + 1 # L
      <4>1. all[k + 1].to = merged[k + 1].to
        BY <2>4, <3>1, <3>4
      <4>2. QED
        BY <3>2, <3>3, <4>1
    <3>5. CASE k + 1 = L
      <4> DEFINE from == merged[k].from
                 mid == merged[L].to
                 to == pieces[n].to
      <4>1. from \in 1 .. Len(lines) /\ to \in 1 .. Len(lines)
        <5>1. from \in 1 .. Len(lines)
          BY <1>4, <3>1 DEF Within
        <5>2. pieces[n].from \in 1 .. Len(lines) /\ to \in pieces[n].from .. Len(lines)
          BY <1>2 DEF Within
        <5> HIDE DEF from, to
        <5>3. to \in 1 .. Len(lines)
          BY <1>2, <5>2
        <5>4. QED
          BY <5>1, <5>3
      <4>2. from <= mid /\ mid <= to
        <5>1. merged[k].to < merged[L].from
          <6>1. Ordered(merged)
            BY DEF MergeInv, JoinedFrom
          <6>2. L \in 1 .. L /\ k < L
            BY <1>3, <3>1, <3>5
          <6>3. QED
            BY <3>1, <6>1, <6>2 DEF Ordered
        <5>2. from <= mid
          BY <1>4, <3>1, <3>5, <5>1
        <5>3. L \in 1 .. Len(all) /\ mid < pieces[n].from
          <6>1. Last(merged).to = pieces[n - 1].to /\ n - 1 # 0
            BY <1>5 DEF MergeInv, JoinedFrom
          <6>2. n - 1 \in 1 .. Len(pieces) /\ n - 1 < n
            BY <1>2, <6>1
          <6>3. pieces[n - 1].to < pieces[n].from
            BY <1>1, <6>2 DEF Chain, Ordered
          <6>4. QED
            BY <2>4, <3>1, <3>5, <6>1, <6>3 DEF Last
        <5>4. QED
          BY <1>2, <1>4, <3>1, <3>5, <5>2, <5>3
      <4>3. mid \in Nat /\ from \in Nat /\ to \in Nat
        BY <1>2, <1>4, <3>1, <3>5
      <4>4. all[k + 1].to = to /\ all[k].from = from
        BY <2>4, <3>1, <3>2, <3>5
      <4>5. Tokens(lines, from, mid) > MaxTokens
        BY <3>3, <3>5
      <4> HIDE DEF from, mid, to
      <4>6. mid \in from .. Len(lines) /\ to \in mid .. Len(lines) /\ to \in from .. Len(lines)
            /\ to \in to .. Len(lines)
        BY <4>1, <4>2, <4>3
      <4>7. /\ Tokens(lines, from, mid) \in Nat /\ Tokens(lines, from, to) \in Nat
            /\ Tokens(lines, from, mid) <= Tokens(lines, from, to)
        <5>1. Tokens(lines, from, mid) \in Nat /\ Tokens(lines, from, mid) <= Tokens(lines, from, to)
          BY <4>1, <4>6, TokensGrow
        <5>2. Tokens(lines, from, to) \in Nat
          BY <4>1, <4>6, TokensGrow
        <5>3. QED
          BY <5>1, <5>2
      <4>8. QED
        BY <4>4, <4>5, <4>7, TokenAssumption
    <3>6. QED
      BY <3>4, <3>5
  <2>6. ShortRight(lines, all)
    BY <2>4, <2>5 DEF ShortRight
  <2>7. QED
    BY <2>1, <2>2, <2>3, <2>6 DEF MergeInv
<1>6. CASE ~ fits
  <2> DEFINE all == Append(merged, pieces[n])
  <2>1. Merge(lines, merged, pieces[n]) = all
    BY <1>6 DEF Merge
  <2>2. JoinedFrom(all, pieces, n)
    BY <1>1, JoinedByAppend DEF MergeInv
  <2>3. AllFit(lines, all)
    BY <1>2, <1>3, AppendedFit DEF AllFit
  <2>4. /\ Len(all) = L + 1 /\ all[L + 1] = pieces[n] /\ \A k \in 1 .. L : all[k] = merged[k]
    BY <1>2, <1>3, AppendProperties
  <2> HIDE DEF all
  <2>5. ASSUME NEW k \in 1 .. L, Tokens(lines, all[k].from, all[k].to) < MinTokens
        PROVE  Tokens(lines, all[k].from, all[k + 1].to) > MaxTokens
    <3>1. CASE k # L
      <4>1. k \in 1 .. L - 1 /\ k + 1 \in 1 .. L
        BY <1>3, <3>1
      <4>2. all[k] = merged[k] /\ all[k + 1] = merged[k + 1]
        BY <2>4, <4>1
      <4>3. QED
        BY <2>5, <4>1, <4>2 DEF MergeInv, ShortRight
    <3>2. CASE k = L
      <4>1. merged # <<>> /\ Last(merged) = all[k] /\ all[k + 1] = pieces[n]
        BY <1>3, <2>4, <3>2, EmptySeq DEF Last
      <4>2. ~ (Tokens(lines, all[k].from, pieces[n].to) <= MaxTokens)
        BY <1>6, <2>5, <4>1
      <4> DEFINE from == all[k].from
                 to == pieces[n].to
      <4>3. from \in 1 .. Len(lines) /\ to \in from .. Len(lines)
        <5>1. from \in 1 .. Len(lines)
          BY <1>4, <2>4, <3>2 DEF Within
        <5>2. pieces[n].from \in 1 .. Len(lines) /\ to \in pieces[n].from .. Len(lines)
          BY <1>2 DEF Within
        <5>3. all[k].to < pieces[n].from /\ from <= all[k].to
          <6>1. k \in 1 .. Len(all) /\ L + 1 \in 1 .. Len(all) /\ k < L + 1
            BY <1>3, <2>4, <3>2
          <6>2. Ordered(all)
            BY <2>2 DEF JoinedFrom
          <6>3. QED
            BY <1>4, <2>4, <6>1, <6>2 DEF Ordered
        <5>4. all[k].to \in Nat /\ pieces[n].from \in Nat
          BY <1>2, <1>4, <2>4
        <5> HIDE DEF from, to
        <5>5. QED
          BY <5>1, <5>2, <5>3, <5>4
      <4> HIDE DEF from, to
      <4>4. to \in to .. Len(lines)
        BY <4>3
      <4>5. Tokens(lines, from, to) \in Nat
        BY <4>3, <4>4, TokensGrow
      <4>6. QED
        BY <4>1, <4>2, <4>5, TokenAssumption DEF from, to
    <3>3. QED
      BY <3>1, <3>2
  <2>6. ShortRight(lines, all)
    <3>1. Len(all) - 1 = L
      BY <1>3, <2>4
    <3>2. QED
      BY <2>5, <3>1 DEF ShortRight
  <2>7. QED
    BY <2>1, <2>2, <2>3, <2>6 DEF MergeInv
<1>7. QED
  BY <1>5, <1>6


LEMMA MergedLoop ==
  ASSUME NEW lines, NEW pieces \in Seq(Spans)
  PROVE  /\ Merged(lines, pieces)[0] = <<>>
         /\ \A n \in 1 .. Len(pieces) :
              Merged(lines, pieces)[n] = Merge(lines, Merged(lines, pieces)[n - 1], pieces[n])
<1> DEFINE Loop(f) == f = [n \in 0 .. Len(pieces) |->
                             IF n = 0 THEN <<>> ELSE Merge(lines, f[n - 1], pieces[n])]
           G == [p \in (1 .. Len(pieces)) \X Seq(Spans) |-> Merge(lines, p[2], pieces[p[1]])]
           F == Merged(lines, pieces)
<1>1. /\ Len(pieces) \in Nat
      /\ \A n \in 1 .. Len(pieces) : pieces[n] \in Spans /\ pieces[n].to \in Nat
  <2>1. \A n \in 1 .. Len(pieces) : pieces[n] \in Spans
    OBVIOUS
  <2>2. \A s \in Spans : s.to \in Nat
    BY DEF Spans
  <2>3. QED
    BY <2>1, <2>2
<1>2. <<>> \in Seq(Spans)
  BY EmptySeq
<1>3. G \in [(1 .. Len(pieces)) \X Seq(Spans) -> Seq(Spans)]
  <2>1. ASSUME NEW n \in 1 .. Len(pieces), NEW merged \in Seq(Spans)
        PROVE  Merge(lines, merged, pieces[n]) \in Seq(Spans)
    <3>1. Append(merged, pieces[n]) \in Seq(Spans)
      BY <1>1, AppendProperties
    <3>2. merged # <<>> => Extend(merged, pieces[n].to) \in Seq(Spans)
      BY <1>1, Extended
    <3>3. QED
      BY <3>1, <3>2 DEF Merge
  <2>2. QED
    BY <2>1
<1>4. PICK g : History(g, Len(pieces), Seq(Spans), <<>>, G)
  <2> HIDE DEF G
  <2>1. QED
    BY <1>1, <1>2, <1>3, LoopExists
<1>5. ASSUME NEW n \in 1 .. Len(pieces) PROVE g[n] = Merge(lines, g[n - 1], pieces[n])
  <2> HIDE DEF G
  <2>1. g[n - 1] \in Seq(Spans)
    BY <1>1, <1>4 DEF History
  <2>2. g[n] = G[<<n, g[n - 1]>>]
    BY <1>4 DEF History
  <2> USE DEF G
  <2>3. QED
    BY <2>1, <2>2
<1>6. Loop(g)
  <2>1. \A n \in 0 .. Len(pieces) :
          g[n] = IF n = 0 THEN <<>> ELSE Merge(lines, g[n - 1], pieces[n])
    BY <1>1, <1>4, <1>5 DEF History
  <2>2. QED
    BY <1>4, <2>1 DEF History
<1>7. F = CHOOSE f : Loop(f)
  BY DEF Merged
<1>8. Loop(F)
  BY <1>6, <1>7
<1> HIDE DEF F, G
<1>9. QED
  BY <1>1, <1>8 DEF F

LEMMA MergedRight ==
  ASSUME NEW lines \in Seq(Line), NEW pieces, Cut(lines, pieces), AllFit(lines, pieces)
  PROVE  MergeInv(lines, pieces, Len(pieces), Merged(lines, pieces)[Len(pieces)])
<1> DEFINE F == Merged(lines, pieces)
           T == {n \in 0 .. Len(pieces) : MergeInv(lines, pieces, n, F[n])}
<1>1. pieces \in Seq(Spans) /\ Len(pieces) \in Nat
  BY DEF Cut, Chain
<1>2. F[0] = <<>> /\ \A n \in 1 .. Len(pieces) : F[n] = Merge(lines, F[n - 1], pieces[n])
  BY <1>1, MergedLoop
<1>3. 0 \in T
  <2>1. MergeInv(lines, pieces, 0, <<>>)
    BY EmptySeq DEF MergeInv, JoinedFrom, AllFit, ShortRight, Ordered
  <2>2. QED
    BY <1>1, <1>2, <2>1
<1>4. \A n \in 0 .. Len(pieces) - 1 : n \in T => n + 1 \in T
  <2> TAKE n \in 0 .. Len(pieces) - 1
  <2> HAVE n \in T
  <2>1. n + 1 \in 1 .. Len(pieces) /\ n + 1 - 1 = n /\ n + 1 \in 0 .. Len(pieces)
    BY <1>1
  <2>2. F[n + 1] = Merge(lines, F[n], pieces[n + 1])
    BY <1>2, <2>1
  <2>3. MergeInv(lines, pieces, n + 1, F[n + 1])
    BY <2>1, <2>2, MergeStep
  <2>4. QED
    BY <2>1, <2>3
<1>5. \A n \in 0 .. Len(pieces) : n \in T
  <2> HIDE DEF T
  <2>1. 0 \in Int /\ Len(pieces) \in Int
    BY <1>1
  <2>2. QED
    BY <1>3, <1>4, <2>1, IntervalInduction
<1>6. QED
  BY <1>1, <1>5

(* The chunks of a text are in its order and leave no line of text out,    *)
(* each is under its headings, none is longer or shorter than it has to be. *)
LEMMA ChunksRight ==
  ASSUME NEW lines \in Seq(Line)
  PROVE  /\ Cut(lines, Chunks(lines)) /\ AllFit(lines, Chunks(lines))
         /\ ShortRight(lines, Chunks(lines))
<1> DEFINE pieces == Pieces(lines)
<1>1. Cut(lines, pieces) /\ AllFit(lines, pieces)
  BY PiecesRight
<1>2. Chunks(lines) = Merged(lines, pieces)[Len(pieces)]
  BY DEF Chunks, Pieces
<1> HIDE DEF pieces
<1>3. MergeInv(lines, pieces, Len(pieces), Chunks(lines))
  BY <1>1, <1>2, MergedRight
<1>4. Cut(lines, Chunks(lines))
  BY <1>1, <1>3, JoinedCut DEF MergeInv
<1>5. QED
  BY <1>3, <1>4 DEF MergeInv


----------------------------------------------------------------------------
(* The rows of a document.                                                 *)

Rows == [page : Nat, span : Spans]

Chunked(text) ==
  [p \in DOMAIN text |->
    LET chunks == Chunks(text[p])
    IN  [i \in DOMAIN chunks |-> [page |-> p, span |-> chunks[i]]]]

(* Row i is chunk at[i][2] of page at[i][1].                               *)
RowsAre(text, all, at) ==
  /\ all \in Seq(Rows) /\ Placed(at, all, Chunked(text), Len(text))
  /\ \A i \in 1 .. Len(all) :
       /\ at[i][1] \in 1 .. Len(text) /\ at[i][2] \in 1 .. Len(Chunks(text[at[i][1]]))
       /\ all[i].page = at[i][1] /\ all[i].span = Chunks(text[at[i][1]])[at[i][2]]
       /\ text[at[i][1]] \in Seq(Line)

LEMMA RowsRight ==
  ASSUME NEW text \in Seq(Seq(Line))
  PROVE  \E at : RowsAre(text, RowsOf(text), at)
<1> DEFINE seqs == Chunked(text)
           all == RowsOf(text)
<1>1. Len(text) \in Nat /\ DOMAIN text = 1 .. Len(text)
  OBVIOUS
<1>2. ASSUME NEW p \in 1 .. Len(text)
      PROVE  /\ text[p] \in Seq(Line) /\ Chunks(text[p]) \in Seq(Spans)
             /\ seqs[p] \in Seq(Rows) /\ Len(seqs[p]) = Len(Chunks(text[p]))
             /\ \A i \in 1 .. Len(seqs[p]) : seqs[p][i] = [page |-> p, span |-> Chunks(text[p])[i]]
  <2> DEFINE chunks == Chunks(text[p])
             tagged == [i \in DOMAIN chunks |-> [page |-> p, span |-> chunks[i]]]
  <2>1. text[p] \in Seq(Line)
    OBVIOUS
  <2>2. chunks \in Seq(Spans)
    BY <2>1, ChunksRight DEF Cut, Chain
  <2>3. seqs[p] = tagged
    BY <1>1 DEF Chunked
  <2> HIDE DEF chunks
  <2>4. tagged \in Seq(Rows) /\ Len(tagged) = Len(chunks)
    <3>1. Len(chunks) \in Nat /\ DOMAIN chunks = 1 .. Len(chunks)
      BY <2>2
    <3>2. \A i \in 1 .. Len(chunks) : [page |-> p, span |-> chunks[i]] \in Rows
      BY <1>1, <2>2 DEF Rows
    <3>3. tagged = [i \in 1 .. Len(chunks) |-> [page |-> p, span |-> chunks[i]]]
      BY <3>1
    <3>4. QED
      BY <3>1, <3>2, <3>3
  <2>5. \A i \in 1 .. Len(tagged) : tagged[i] = [page |-> p, span |-> chunks[i]]
    BY <2>2, <2>4
  <2> HIDE DEF tagged, seqs
  <2>6. QED
    BY <2>1, <2>2, <2>3, <2>4, <2>5 DEF chunks
<1>3. seqs \in Seq(Seq(Rows)) /\ Len(seqs) = Len(text)
  <2>1. seqs = [p \in 1 .. Len(text) |-> seqs[p]]
    BY <1>1 DEF Chunked
  <2> HIDE DEF seqs
  <2>2. QED
    BY <1>1, <1>2, <2>1
<1>4. all = FlattenSeq(seqs)
  BY DEF RowsOf, Chunked
<1> HIDE DEF seqs, all
<1>5. all \in Seq(Rows) /\ \E at : Placed(at, all, seqs, Len(seqs))
  BY <1>3, <1>4, FlattenRight
<1>6. PICK at : Placed(at, all, seqs, Len(text))
  BY <1>3, <1>5
<1>7. ASSUME NEW i \in 1 .. Len(all)
      PROVE  /\ at[i][1] \in 1 .. Len(text) /\ at[i][2] \in 1 .. Len(Chunks(text[at[i][1]]))
             /\ all[i].page = at[i][1] /\ all[i].span = Chunks(text[at[i][1]])[at[i][2]]
             /\ text[at[i][1]] \in Seq(Line)
  <2>1. /\ at[i][1] \in 1 .. Len(text) /\ at[i][2] \in 1 .. Len(seqs[at[i][1]])
        /\ all[i] = seqs[at[i][1]][at[i][2]]
    BY <1>6 DEF Placed
  <2>2. all[i] = [page |-> at[i][1], span |-> Chunks(text[at[i][1]])[at[i][2]]]
    BY <1>2, <2>1
  <2>3. QED
    BY <1>2, <2>1, <2>2
<1>8. RowsAre(text, all, at)
  BY <1>5, <1>6, <1>7 DEF RowsAre, seqs
<1>9. QED
  BY <1>8 DEF all

(* What is stored is what is made of the pages, until they change.         *)
DocInv ==
  /\ pages \in Seq(Seq(Line)) /\ dirty \in BOOLEAN
  /\ ~dirty => rows = RowsOf(pages)

(* The path of a chunk is right as LinesKept says it.                      *)
LEMMA PathIsRight ==
  ASSUME NEW lines \in Seq(Line), NEW from \in 1 .. Len(lines), NEW path,
         PathRight(lines, path, from), NEW headings,
         headings = {n \in 1 .. from : IsBoundary(lines[n])
                                       /\ Cardinality(Fences(lines, n - 1)) % 2 = 0}
  PROVE  IF headings = {} THEN path = <<>>
         ELSE path # <<>> /\ \A n \in headings : Last(path) >= n /\ Last(path) \in headings
<1>1. Len(lines) \in Nat /\ from \in Nat
  OBVIOUS
<1>2. \A n : n \in headings <=> n \in Headings(lines) /\ n <= from
  BY <1>1 DEF Headings
<1>3. CASE path = <<>>
  <2>1. \A h \in Headings(lines) : from < h /\ h \in Nat
    BY <1>3 DEF PathRight, Headings
  <2>2. headings = {}
    BY <1>1, <1>2, <2>1
  <2>3. QED
    BY <1>3, <2>2
<1>4. CASE path # <<>>
  <2>1. /\ Last(path) \in Headings(lines) /\ Last(path) <= from
        /\ \A h \in Headings(lines) : h <= from => h <= Last(path)
    BY <1>4 DEF PathRight
  <2>2. Last(path) \in headings /\ Last(path) \in Nat
    BY <1>2, <2>1 DEF Headings
  <2>3. \A n \in headings : n <= Last(path) /\ n \in Nat
    BY <1>2, <2>1
  <2>4. QED
    BY <1>4, <2>2, <2>3
<1>5. QED
  BY <1>3, <1>4

LEMMA DocKeepsLines == DocInv => LinesKept
<1> SUFFICES ASSUME DocInv, ~dirty PROVE LinesKept
  BY DEF LinesKept
<1>1. pages \in Seq(Seq(Line)) /\ rows = RowsOf(pages)
  BY DEF DocInv
<1>2. PICK at : RowsAre(pages, rows, at)
  BY <1>1, RowsRight
<1>3. /\ rows \in Seq(Rows) /\ Len(rows) \in Nat /\ DOMAIN rows = 1 .. Len(rows)
      /\ Len(pages) \in Nat /\ DOMAIN pages = 1 .. Len(pages)
  BY <1>1, <1>2 DEF RowsAre
<1>4. ASSUME NEW i \in 1 .. Len(rows)
      PROVE  /\ at[i][1] \in 1 .. Len(pages) /\ at[i][2] \in 1 .. Len(Chunks(pages[at[i][1]]))
             /\ rows[i].page = at[i][1] /\ rows[i].span = Chunks(pages[at[i][1]])[at[i][2]]
             /\ pages[at[i][1]] \in Seq(Line)
             /\ Cut(pages[at[i][1]], Chunks(pages[at[i][1]]))
  BY <1>2, ChunksRight DEF RowsAre
<1>5. ASSUME NEW p \in DOMAIN pages, NEW n \in DOMAIN pages[p], pages[p][n] # "blank"
      PROVE  \E i \in DOMAIN rows : rows[i].page = p /\ n \in rows[i].span.from .. rows[i].span.to
  <2>1. p \in 1 .. Len(pages) /\ pages[p] \in Seq(Line)
    BY <1>1, <1>3
  <2>2. n \in 1 .. Len(pages[p])
    BY <2>1
  <2>3. PICK k \in 1 .. Len(Chunks(pages[p])) :
          n \in Chunks(pages[p])[k].from .. Chunks(pages[p])[k].to
    BY <1>5, <2>1, <2>2, ChunksRight DEF Cut
  <2>4. Len(Chunked(pages)[p]) = Len(Chunks(pages[p]))
    <3> DEFINE chunks == Chunks(pages[p])
               tagged == [i \in DOMAIN chunks |-> [page |-> p, span |-> chunks[i]]]
    <3>1. Chunked(pages)[p] = tagged
      BY DEF Chunked
    <3>2. chunks \in Seq(Spans)
      BY <2>1, ChunksRight DEF Cut, Chain
    <3> HIDE DEF chunks
    <3>3. Len(tagged) = Len(chunks)
      BY <3>2
    <3>4. QED
      BY <3>1, <3>3 DEF chunks
  <2>5. PICK i \in 1 .. Len(rows) : at[i][1] = p /\ at[i][2] = k
    BY <1>2, <2>1, <2>4 DEF RowsAre, Placed
  <2>6. rows[i].page = p /\ rows[i].span = Chunks(pages[p])[k]
    BY <1>4, <2>5
  <2>7. QED
    BY <1>3, <2>3, <2>6
<1>6. ASSUME NEW i \in DOMAIN rows, NEW j \in DOMAIN rows, i < j
      PROVE  \/ rows[i].page < rows[j].page
             \/ rows[i].page = rows[j].page /\ rows[i].span.to < rows[j].span.from
  <2>1. i \in 1 .. Len(rows) /\ j \in 1 .. Len(rows)
    BY <1>3
  <2>2. \/ at[i][1] < at[j][1]
        \/ at[i][1] = at[j][1] /\ at[j][2] - at[i][2] = j - i
    BY <1>2, <1>6, <2>1 DEF RowsAre, Placed
  <2>3. CASE at[i][1] < at[j][1]
    BY <1>4, <2>1, <2>3
  <2>4. CASE at[i][1] = at[j][1] /\ at[j][2] - at[i][2] = j - i
    <3> DEFINE chunks == Chunks(pages[at[i][1]])
               k == at[i][2]
               l == at[j][2]
    <3>1. /\ k \in 1 .. Len(chunks) /\ l \in 1 .. Len(chunks)
          /\ rows[i].span = chunks[k] /\ rows[j].span = chunks[l]
          /\ Ordered(chunks) /\ rows[i].page = rows[j].page
      BY <1>4, <2>1, <2>4 DEF Cut, Chain
    <3>2. k < l
      <4>1. k \in Nat /\ l \in Nat /\ l - k = j - i /\ i \in Nat /\ j \in Nat
        BY <2>1, <2>4, <3>1
      <4> HIDE DEF k, l
      <4>2. QED
        BY <1>6, <4>1
    <3> HIDE DEF chunks, k, l
    <3>3. QED
      BY <3>1, <3>2 DEF Ordered
  <2>5. QED
    BY <2>2, <2>3, <2>4
<1>7. ASSUME NEW i \in DOMAIN rows, NEW headings,
             headings = {n \in 1 .. rows[i].span.from :
                           IsBoundary(pages[rows[i].page][n])
                           /\ Cardinality(Fences(pages[rows[i].page], n - 1)) % 2 = 0}
      PROVE  LET path == rows[i].span.path
             IN  IF headings = {} THEN path = <<>>
                 ELSE path # <<>> /\ \A n \in headings : Last(path) >= n /\ Last(path) \in headings
  <2> DEFINE lines == pages[rows[i].page]
             from == rows[i].span.from
             path == rows[i].span.path
  <2>1. i \in 1 .. Len(rows)
    BY <1>3
  <2>2. lines \in Seq(Line) /\ PathRight(lines, path, from) /\ from \in 1 .. Len(lines)
    BY <1>4, <2>1 DEF Cut, Within
  <2>3. headings = {n \in 1 .. from : IsBoundary(lines[n])
                                      /\ Cardinality(Fences(lines, n - 1)) % 2 = 0}
    BY <1>7
  <2> HIDE DEF lines, from, path
  <2>4. IF headings = {} THEN path = <<>>
        ELSE path # <<>> /\ \A n \in headings : Last(path) >= n /\ Last(path) \in headings
    BY <2>2, <2>3, PathIsRight
  <2>5. QED
    BY <2>4 DEF path
<1>8. QED
  BY <1>5, <1>6, <1>7 DEF LinesKept, Fences


LEMMA DocKeepsSizes == DocInv => SizesRight
<1> SUFFICES ASSUME DocInv, ~dirty PROVE SizesRight
  BY DEF SizesRight
<1>1. pages \in Seq(Seq(Line)) /\ rows = RowsOf(pages)
  BY DEF DocInv
<1>2. PICK at : RowsAre(pages, rows, at)
  BY <1>1, RowsRight
<1>3. rows \in Seq(Rows) /\ Len(rows) \in Nat /\ DOMAIN rows = 1 .. Len(rows)
  BY <1>2 DEF RowsAre
<1>4. ASSUME NEW i \in 1 .. Len(rows)
      PROVE  /\ at[i][1] \in 1 .. Len(pages) /\ at[i][2] \in 1 .. Len(Chunks(pages[at[i][1]]))
             /\ rows[i].page = at[i][1] /\ rows[i].span = Chunks(pages[at[i][1]])[at[i][2]]
             /\ pages[at[i][1]] \in Seq(Line)
             /\ Cut(pages[at[i][1]], Chunks(pages[at[i][1]]))
             /\ AllFit(pages[at[i][1]], Chunks(pages[at[i][1]]))
             /\ ShortRight(pages[at[i][1]], Chunks(pages[at[i][1]]))
  BY <1>2, ChunksRight DEF RowsAre
<1>5. ASSUME NEW i \in DOMAIN rows,
             Tokens(pages[rows[i].page], rows[i].span.from, rows[i].span.to) > MaxTokens
      PROVE  Paragraph(pages[rows[i].page], rows[i].span)
  <2> DEFINE lines == pages[rows[i].page]
             c == rows[i].span
  <2>1. i \in 1 .. Len(rows)
    BY <1>3
  <2>2. lines \in Seq(Line) /\ Fits(lines, c) /\ Within(lines, c)
    BY <1>4, <2>1 DEF Cut, AllFit
  <2>3. Tokens(lines, c.from, c.to) > MaxTokens
    BY <1>5
  <2> HIDE DEF lines, c
  <2>4. Tokens(lines, c.from, c.to) \in Nat
    <3>1. c.from \in 1 .. Len(lines) /\ c.to \in c.from .. Len(lines) /\ c.to \in c.to .. Len(lines)
      BY <2>2 DEF Within
    <3>2. QED
      BY <2>2, <3>1, TokensGrow
  <2>5. Paragraph(lines, c)
    BY <2>2, <2>3, <2>4, TokenAssumption DEF Fits
  <2>6. QED
    BY <2>5 DEF lines, c
<1>6. ASSUME NEW i \in DOMAIN rows,
             Tokens(pages[rows[i].page], rows[i].span.from, rows[i].span.to) < MinTokens,
             i < Len(rows), rows[i + 1].page = rows[i].page
      PROVE  Tokens(pages[rows[i].page], rows[i].span.from, rows[i + 1].span.to) > MaxTokens
  <2> DEFINE lines == pages[at[i][1]]
             chunks == Chunks(lines)
             k == at[i][2]
             j == i + 1
             l == at[j][2]
  <2>1. i \in 1 .. Len(rows) /\ j \in 1 .. Len(rows) /\ i < j /\ j - i = 1
    BY <1>3, <1>6
  <2>2. rows[j].page = rows[i].page
    BY <1>6
  <2> HIDE DEF j
  <2>3. /\ k \in 1 .. Len(chunks) /\ rows[i].span = chunks[k] /\ rows[i].page = at[i][1]
        /\ ShortRight(lines, chunks) /\ Len(chunks) \in Nat
    BY <1>4, <2>1 DEF Cut, Chain
  <2>4. at[j][1] = at[i][1] /\ at[i][1] \in Nat /\ l \in 1 .. Len(chunks) /\ rows[j].span = chunks[l]
    <3>1. at[j][1] = at[i][1]
      BY <1>4, <2>1, <2>2
    <3>2. /\ at[j][1] \in 1 .. Len(pages) /\ l \in 1 .. Len(Chunks(pages[at[j][1]]))
          /\ rows[j].span = Chunks(pages[at[j][1]])[l]
      BY <1>4, <2>1
    <3>3. at[j][1] \in Nat
      BY <3>2
    <3>4. QED
      BY <3>1, <3>2, <3>3
  <2>5. l - k = 1
    BY <1>2, <2>1, <2>4 DEF RowsAre, Placed
  <2>6. Tokens(lines, chunks[k].from, chunks[k].to) < MinTokens
    BY <1>6, <2>3
  <2> HIDE DEF chunks, k, l, lines
  <2>7. l = k + 1 /\ k \in 1 .. Len(chunks) - 1
    BY <2>3, <2>4, <2>5
  <2>8. Tokens(lines, chunks[k].from, chunks[l].to) > MaxTokens
    BY <2>3, <2>6, <2>7 DEF ShortRight
  <2>9. QED
    BY <2>3, <2>4, <2>8 DEF j, lines
<1>7. QED
  BY <1>5, <1>6 DEF SizesRight, Paragraph

(* The rows are those of the pages as they are.                            *)
LEMMA DocInvHolds == DocSpec => []DocInv
<1>1. DocInit => DocInv
  <2>1. <<>> \in Seq(Seq(Line)) /\ Len(<<>>) = 0
    BY EmptySeq
  <2>2. PICK at : RowsAre(<<>>, RowsOf(<<>>), at)
    BY <2>1, RowsRight
  <2>3. RowsOf(<<>>) \in Seq(Rows)
    BY <2>2 DEF RowsAre
  <2>4. \A i \in 1 .. Len(RowsOf(<<>>)) : at[i][1] \in 1 .. 0
    BY <2>1, <2>2 DEF RowsAre
  <2>5. Len(RowsOf(<<>>)) = 0
    <3> DEFINE L == Len(RowsOf(<<>>))
    <3>1. L \in Nat
      BY <2>3
    <3>2. \A i \in 1 .. L : FALSE
      BY <2>4
    <3> HIDE DEF L
    <3>3. ~ (1 \in 1 .. L)
      BY <3>2
    <3>4. L = 0
      BY <3>1, <3>3
    <3>5. QED
      BY <3>4 DEF L
  <2>6. RowsOf(<<>>) = <<>>
    BY <2>3, <2>5, EmptySeq
  <2>7. QED
    BY <2>1, <2>6 DEF DocInit, DocInv
<1>2. DocInv /\ [DocNext]_docVars => DocInv'
  <2> SUFFICES ASSUME DocInv, [DocNext]_docVars PROVE DocInv'
    OBVIOUS
  <2>1. ASSUME NEW k \in Line, Write(k) PROVE DocInv'
    <3> DEFINE l == Len(pages)
               last == Append(pages[l], k)
    <3>1. pages \in Seq(Seq(Line)) /\ pages # <<>>
      BY <2>1 DEF DocInv, Write
    <3>2. l \in 1 .. Len(pages)
      BY <3>1, EmptySeq
    <3>3. pages[l] \in Seq(Line)
      BY <3>1, <3>2
    <3>4. last \in Seq(Line)
      BY <3>3, AppendProperties
    <3>5. pages' = [pages EXCEPT ![l] = last]
      BY <2>1 DEF Write
    <3> HIDE DEF last, l
    <3>6. pages' \in Seq(Seq(Line))
      BY <3>1, <3>2, <3>4, <3>5, ExceptSeq
    <3>7. QED
      BY <2>1, <3>6 DEF DocInv, Write
  <2>2. CASE AddPage
    <3>1. <<>> \in Seq(Line)
      BY EmptySeq
    <3>2. pages' \in Seq(Seq(Line))
      BY <2>2, <3>1, AppendProperties DEF DocInv, AddPage
    <3>3. QED
      BY <2>2, <3>2 DEF DocInv, AddPage
  <2>3. CASE Process
    <3>1. rows' = RowsOf(pages) /\ pages' = pages /\ dirty' = FALSE
      BY <2>3 DEF Process
    <3>2. RowsOf(pages)' = RowsOf(pages)
      BY <3>1
    <3>3. QED
      BY <3>1, <3>2 DEF DocInv
  <2>4. CASE UNCHANGED docVars
    BY <2>4 DEF DocInv, docVars
  <2>5. QED
    BY <2>1, <2>2, <2>3, <2>4 DEF DocNext
<1>3. QED
  BY <1>1, <1>2, PTL DEF DocSpec

(* However a document is written and whatever its lines weigh, once it is  *)
(* processed every line of text is in exactly one of its chunks, these     *)
(* come in its order, and each is cited under the heading it stands under. *)
THEOREM KeepsLines == DocSpec => []LinesKept
BY DocInvHolds, DocKeepsLines, PTL

(* Then too, a chunk over the maximum is a single paragraph, and one under *)
(* the minimum could not have been merged with the next.                   *)
THEOREM KeepsSizes == DocSpec => []SizesRight
BY DocInvHolds, DocKeepsSizes, PTL


=============================================================================
