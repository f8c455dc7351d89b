--------------------------- MODULE PinyinInputProofs ---------------------------
(***************************************************************************)
(* For every vocabulary, every input and any integer logits: the Viterbi   *)
(* keeps a best route to every position it comes to, strict mode accepts   *)
(* exactly what can be cut into words, invalid ranges are as few and as    *)
(* short as any cut allows, and the segments are the rest of the text,     *)
(* with repair next to the nearest words.                                  *)
(*                                                                         *)
(* The first follows decode_gap_viterbi: TriedEdge says that trying an     *)
(* edge behind the best route to where it begins leaves the best of the    *)
(* routes tried, because the order of routes is a strict one (Better...)   *)
(* that a common last edge does not change, and the counters of a path     *)
(* are those of its edges; TriedNext says that a start position adds the   *)
(* routes through its edges, and TriedAll that none is left when the       *)
(* decoding comes to where they end.  The second also needs that what was  *)
(* normalized consists of whole characters (Written), each of which can be *)
(* left over, so that a route exists when invalid characters are allowed.  *)
(* The others follow the edges of the best route one by one (AddEdges): it *)
(* is a chain through the input (RoutesAreChains), and with each edge the  *)
(* ranges hold what was left over (RangesAnswered) and the segments spell  *)
(* what was not (TextAnswered); the edit distance of one character is that *)
(* of a row of equal letters (DistanceIsEdits), and the loop over the      *)
(* vocabulary keeps the word ahead of all it has passed (NearestIsFound).  *)
(***************************************************************************)
EXTENDS PinyinInput, NaturalsFacts, SequenceTheorems

-----------------------------------------------------------------------------
(* The order of routes *)

Edges == {e \in [begin : Nat, end : Nat, invalid : BOOLEAN] : e.begin < e.end}

\* A route and the fields of its edges.
LEMMA EdgeParts ==
  ASSUME NEW r \in Seq(Edges)
  PROVE  /\ Len(r) \in Nat /\ DOMAIN r = 1 .. Len(r)
         /\ \A i \in 1 .. Len(r) : /\ r[i] \in Edges /\ r[i].invalid \in BOOLEAN
                                   /\ r[i].begin \in Nat /\ r[i].end \in Nat
                                   /\ Length(r[i]) \in Nat
<1>1. \A e \in Edges : /\ e.invalid \in BOOLEAN /\ e.begin \in Nat /\ e.end \in Nat
                       /\ Length(e) \in Nat
  BY DEF Edges, Length
<1>2. Len(r) \in Nat /\ DOMAIN r = 1 .. Len(r) /\ \A i \in 1 .. Len(r) : r[i] \in Edges
  OBVIOUS
<1> QED BY <1>1, <1>2

\* Longer-tokens-first never prefers each of two routes to the other.
LEMMA LongerFirstAsymmetric ==
  ASSUME NEW p \in Seq(Edges), NEW q \in Seq(Edges), LongerFirst(p, q)
  PROVE  ~LongerFirst(q, p)
<1>1. /\ Len(p) \in Nat /\ DOMAIN p = 1 .. Len(p) /\ \A i \in 1 .. Len(p) : Length(p[i]) \in Nat
      /\ Len(q) \in Nat /\ DOMAIN q = 1 .. Len(q) /\ \A i \in 1 .. Len(q) : Length(q[i]) \in Nat
  BY EdgeParts
<1>2. PICK i \in DOMAIN p : /\ i \in DOMAIN q /\ Length(p[i]) > Length(q[i])
                            /\ \A j \in 1 .. i - 1 : Length(p[j]) = Length(q[j])
  BY DEF LongerFirst
<1> SUFFICES ASSUME NEW k \in DOMAIN q, k \in DOMAIN p, Length(q[k]) > Length(p[k]),
                    \A j \in 1 .. k - 1 : Length(q[j]) = Length(p[j])
             PROVE FALSE
  BY DEF LongerFirst
<1>3. CASE k < i
  <2>1. k \in 1 .. i - 1
    BY <1>1, <1>3
  <2> QED BY <1>1, <1>2, <2>1
<1>4. CASE i < k
  <2>1. i \in 1 .. k - 1
    BY <1>1, <1>4
  <2> QED BY <1>1, <1>2, <2>1
<1>5. CASE i = k
  BY <1>1, <1>2, <1>5
<1>6. i \in Nat /\ k \in Nat
  BY <1>1
<1> QED BY <1>3, <1>4, <1>5, <1>6

\* A third sequence as long is behind the first or in front of the second.
LEMMA LongerFirstWeak ==
  ASSUME NEW p \in Seq(Edges), NEW q \in Seq(Edges), NEW t \in Seq(Edges),
         Len(p) = Len(q), Len(t) = Len(q), LongerFirst(p, q)
  PROVE  LongerFirst(p, t) \/ LongerFirst(t, q)
<1> DEFINE n == Len(q)
<1>1. /\ n \in Nat /\ DOMAIN p = 1 .. n /\ DOMAIN q = 1 .. n /\ DOMAIN t = 1 .. n
      /\ \A i \in 1 .. n : Length(p[i]) \in Nat /\ Length(q[i]) \in Nat /\ Length(t[i]) \in Nat
  BY EdgeParts
<1>2. PICK i \in 1 .. n : /\ Length(p[i]) > Length(q[i])
                          /\ \A j \in 1 .. i - 1 : Length(p[j]) = Length(q[j])
  BY <1>1 DEF LongerFirst
<1> DEFINE T == {k \in 1 .. i : Length(t[k]) # Length(q[k]) \/ Length(t[k]) # Length(p[k])}
<1>3. i \in T
  BY <1>1, <1>2
<1>4. PICK j \in T : \A k \in T : j <= k
  <2>1. T \in SUBSET Nat /\ T # {}
    BY <1>3
  <2> HIDE DEF T
  <2> QED BY <2>1, LeastNat
<1>5. /\ j \in 1 .. n /\ j <= i
      /\ \A k \in 1 .. j - 1 : Length(t[k]) = Length(q[k]) /\ Length(t[k]) = Length(p[k])
  BY <1>1, <1>4
<1>6. Length(p[j]) >= Length(q[j])
  <2>1. CASE j = i
    BY <1>1, <1>2, <2>1
  <2>2. CASE j # i
    <3>1. j \in 1 .. i - 1
      BY <1>5, <2>2
    <3> QED BY <1>1, <1>2, <1>5, <3>1
  <2> QED BY <2>1, <2>2
<1>7. Length(p[j]) > Length(t[j]) \/ Length(t[j]) > Length(q[j])
  <2>1. Length(t[j]) # Length(q[j]) \/ Length(t[j]) # Length(p[j])
    BY <1>4
  <2>2. j < i => Length(p[j]) = Length(q[j])
    <3>1. j < i => j \in 1 .. i - 1
      BY <1>5
    <3> QED BY <1>2, <3>1
  <2>3. j = i => Length(p[j]) > Length(q[j])
    BY <1>2
  <2>4. Length(p[j]) \in Nat /\ Length(q[j]) \in Nat /\ Length(t[j]) \in Nat /\ (j < i \/ j = i)
    BY <1>1, <1>5
  <2> QED BY <2>1, <2>2, <2>3, <2>4
<1>8. CASE Length(p[j]) > Length(t[j])
  <2>1. \A k \in 1 .. j - 1 : Length(p[k]) = Length(t[k])
    BY <1>5
  <2> QED BY <1>1, <1>5, <1>8, <2>1 DEF LongerFirst
<1>9. CASE Length(t[j]) > Length(q[j])
  BY <1>1, <1>5, <1>9 DEF LongerFirst
<1> QED BY <1>7, <1>8, <1>9

\* A common last edge does not tell two routes apart.
LEMMA LongerFirstAppend ==
  ASSUME NEW p \in Seq(Edges), NEW q \in Seq(Edges), NEW e \in Edges, Len(p) = Len(q),
         LongerFirst(Append(p, e), Append(q, e))
  PROVE  LongerFirst(p, q)
<1> DEFINE n == Len(q)
           P == Append(p, e)
           Q == Append(q, e)
<1>1. /\ n \in Nat /\ DOMAIN p = 1 .. n /\ DOMAIN q = 1 .. n
      /\ DOMAIN P = 1 .. n + 1 /\ DOMAIN Q = 1 .. n + 1 /\ P[n + 1] = e /\ Q[n + 1] = e
      /\ \A i \in 1 .. n : P[i] = p[i] /\ Q[i] = q[i]
      /\ Length(e) \in Nat
  BY DEF Edges, Length
<1> HIDE DEF P, Q
<1>2. PICK i \in 1 .. n + 1 : /\ Length(P[i]) > Length(Q[i])
                              /\ \A j \in 1 .. i - 1 : Length(P[j]) = Length(Q[j])
  BY <1>1 DEF LongerFirst, P, Q
<1>3. i \in 1 .. n
  BY <1>1, <1>2
<1>4. \A j \in 1 .. i - 1 : j \in 1 .. n
  BY <1>1, <1>3
<1> QED BY <1>1, <1>2, <1>3, <1>4 DEF LongerFirst

-----------------------------------------------------------------------------
(* What a route is measured by *)

IntLogits(logits) == \A gap \in DOMAIN logits : logits[gap] \in Int

\* The score of a route is its last partial sum.
IsSum(sum, logits, route) ==
  /\ sum \in [0 .. Len(route) -> Int] /\ sum[0] = 0
  /\ \A i \in 1 .. Len(route) : sum[i] = sum[i - 1] + GapLogit(logits, route[i])

\* The gap behind any edge has an integer logit.
LEMMA GapIsInt ==
  ASSUME NEW logits, IntLogits(logits), NEW e
  PROVE  GapLogit(logits, e) \in Int
BY DEF IntLogits, GapLogit

\* The score of a route is a running sum of the logits of its gaps.
LEMMA ScoreIsSum ==
  ASSUME NEW logits, IntLogits(logits), NEW route \in Seq(Edges)
  PROVE  \E sum : IsSum(sum, logits, route) /\ Score(logits, route) = sum[Len(route)]
<1> DEFINE n == Len(route)
           next(f, i) == IF i = 0 THEN 0 ELSE f[i - 1] + GapLogit(logits, route[i])
           sum == CHOOSE f : f = [i \in 0 .. n |-> next(f, i)]
           step == [i \in 1 .. n |-> [v \in Int |-> v + GapLogit(logits, route[i])]]
<1>0. n \in Nat
  OBVIOUS
<1> HIDE DEF n
<1>1. step \in [1 .. n -> [Int -> Int]]
  BY GapIsInt
<1>2. PICK f \in [0 .. n -> Int] : f[0] = 0 /\ \A i \in 1 .. n : f[i] = step[i][f[i - 1]]
  <2> HIDE DEF step
  <2> DEFINE base == 0
             V == Int
  <2>1. base \in V /\ step \in Steps(n, V)
    BY <1>1 DEF Steps
  <2> HIDE DEF base, V
  <2>2. \E f \in [0 .. n -> V] : Follows(f, base, step, n)
    BY <1>0, <2>1, StepwiseFunction
  <2> QED BY <2>2 DEF base, V, Follows
<1>3. \A i \in 0 .. n : f[i] = next(f, i)
  <2>1. \A i \in 1 .. n : i - 1 \in 0 .. n /\ f[i - 1] \in Int
    BY <1>0
  <2>2. ASSUME NEW i \in 1 .. n PROVE f[i] = f[i - 1] + GapLogit(logits, route[i])
    BY <1>2, <2>1
  <2> HIDE DEF step
  <2> QED BY <1>0, <1>2, <2>2
<1>4. sum = [i \in 0 .. n |-> next(sum, i)]
  <2>1. f = [i \in 0 .. n |-> next(f, i)]
    BY <1>3
  <2> HIDE DEF next
  <2> QED BY <2>1
<1> HIDE DEF sum
<1>5. sum[0] = 0 /\ \A i \in 1 .. n : sum[i] = sum[i - 1] + GapLogit(logits, route[i])
  BY <1>0, <1>4
<1>6. \A i \in 0 .. n : sum[i] \in Int
  <2>1. \A i \in 1 .. n : sum[i - 1] \in Int => sum[i] \in Int
    BY <1>5, GapIsInt
  <2>2. sum[0] \in Int
    BY <1>5
  <2> QED BY <1>0, <2>1, <2>2, StepsStayIn
<1>7. IsSum(sum, logits, route)
  BY <1>4, <1>5, <1>6 DEF IsSum, n
<1>8. Score(logits, route) = sum[Len(route)]
  BY DEF Score, sum, n
<1> QED BY <1>7, <1>8

\* The empty route scores nothing.
LEMMA ScoreOfNothing ==
  ASSUME NEW logits, IntLogits(logits)
  PROVE  Score(logits, <<>>) = 0
<1>1. <<>> \in Seq(Edges) /\ Len(<<>>) = 0
  OBVIOUS
<1> QED BY <1>1, ScoreIsSum DEF IsSum

\* One more edge adds the logit of its gap.
LEMMA ScoreAppend ==
  ASSUME NEW logits, IntLogits(logits), NEW r \in Seq(Edges), NEW e \in Edges
  PROVE  Score(logits, r) \in Int
         /\ Score(logits, Append(r, e)) = Score(logits, r) + GapLogit(logits, e)
<1> DEFINE n == Len(r)
           R == Append(r, e)
<1>1. n \in Nat /\ R \in Seq(Edges) /\ Len(R) = n + 1 /\ R[n + 1] = e /\ \A i \in 1 .. n : R[i] = r[i]
  OBVIOUS
<1> HIDE DEF R
<1>2. PICK f : IsSum(f, logits, r) /\ Score(logits, r) = f[n]
  BY ScoreIsSum
<1>3. PICK g : IsSum(g, logits, R) /\ Score(logits, R) = g[n + 1]
  BY <1>1, ScoreIsSum
<1>4. \A i \in 1 .. n : f[i - 1] = g[i - 1] => f[i] = g[i]
  <2>1. \A i \in 1 .. n : i \in 1 .. n + 1
    BY <1>1
  <2> QED BY <1>1, <1>2, <1>3, <2>1 DEF IsSum
<1>5. f[n] = g[n]
  <2>1. n \in Nat /\ f[0] = g[0]
    BY <1>1, <1>2, <1>3 DEF IsSum
  <2> HIDE DEF n
  <2> QED BY ONLY <1>4, <2>1, SameSteps
<1>6. g[n + 1] = g[n] + GapLogit(logits, e) /\ f[n] \in Int
  <2>1. n + 1 \in 1 .. n + 1 /\ n \in 0 .. n /\ n + 1 - 1 = n
    BY <1>1
  <2>2. R[n + 1] = e /\ Len(R) = n + 1
    BY <1>1
  <2>3. g[n + 1] = g[n + 1 - 1] + GapLogit(logits, e)
    BY ONLY <1>3, <2>1, <2>2 DEF IsSum
  <2>4. f[n] \in Int
    BY <1>2, <2>1 DEF IsSum
  <2> QED BY ONLY <2>1, <2>3, <2>4
<1> QED BY <1>2, <1>3, <1>5, <1>6 DEF R

\* The empty route leaves nothing over.
LEMMA InvalidsOfNothing == Invalids(<<>>) = 0
BY FS_EmptySet DEF Invalids

\* One more edge counts if it is an invalid character.
LEMMA InvalidsAppend ==
  ASSUME NEW r \in Seq(Edges), NEW e \in Edges
  PROVE  /\ Invalids(r) \in Nat
         /\ Invalids(Append(r, e)) = Invalids(r) + IF e.invalid THEN 1 ELSE 0
<1> DEFINE n == Len(r)
           R == Append(r, e)
           S == {i \in DOMAIN r : r[i].invalid}
           T == {i \in DOMAIN R : R[i].invalid}
<1>1. /\ n \in Nat /\ DOMAIN r = 1 .. n /\ DOMAIN R = 1 .. n + 1
      /\ R[n + 1] = e /\ \A i \in 1 .. n : R[i] = r[i]
  OBVIOUS
<1>2. IsFiniteSet(S) /\ n + 1 \notin S
  <2>1. IsFiniteSet(1 .. n) /\ S \subseteq 1 .. n
    BY <1>1, FS_Interval
  <2> QED BY <1>1, <2>1, FS_Subset
<1>3. Cardinality(S) \in Nat
  <2> HIDE DEF S
  <2> QED BY <1>2, FS_CardinalityType
<1>4. T = IF e.invalid THEN S \cup {n + 1} ELSE S
  <2> HIDE DEF R
  <2>1. \A i : i \in 1 .. n + 1 <=> i \in 1 .. n \/ i = n + 1
    BY <1>1
  <2> QED BY <1>1, <2>1
<1>5. Cardinality(T) = Cardinality(S) + IF e.invalid THEN 1 ELSE 0
  <2> HIDE DEF S, T
  <2>1. Cardinality(S \cup {n + 1}) = Cardinality(S) + 1
    BY <1>2, FS_AddElement
  <2>2. CASE e.invalid
    BY <1>4, <2>1, <2>2
  <2>3. CASE ~e.invalid
    BY <1>3, <1>4, <2>3
  <2> QED BY <2>2, <2>3
<1> QED BY <1>3, <1>5 DEF Invalids

\* What the order compares.
LEMMA Measures ==
  ASSUME NEW logits, IntLogits(logits), NEW r \in Seq(Edges)
  PROVE  Invalids(r) \in Nat /\ Score(logits, r) \in Int /\ Len(r) \in Nat
<1>1. PICK e : e = [begin |-> 0, end |-> 1, invalid |-> FALSE]
  OBVIOUS
<1>2. e \in Edges
  BY <1>1 DEF Edges
<1> QED BY <1>2, InvalidsAppend, ScoreAppend

\* No two routes are each better than the other.
LEMMA BetterAsymmetric ==
  ASSUME NEW logits, IntLogits(logits), NEW r \in Seq(Edges), NEW q \in Seq(Edges),
         Better(logits, r, q)
  PROVE  ~Better(logits, q, r)
<1>1. /\ Invalids(r) \in Nat /\ Score(logits, r) \in Int /\ Len(r) \in Nat
      /\ Invalids(q) \in Nat /\ Score(logits, q) \in Int /\ Len(q) \in Nat
  BY Measures
<1>2. LongerFirst(r, q) => ~LongerFirst(q, r)
  BY LongerFirstAsymmetric
<1> QED BY <1>1, <1>2 DEF Better

\* Of a better and a worse route, any third is worse than one or better than the
\* other.
LEMMA BetterWeak ==
  ASSUME NEW logits, IntLogits(logits), NEW r \in Seq(Edges), NEW q \in Seq(Edges),
         NEW t \in Seq(Edges), Better(logits, r, q)
  PROVE  Better(logits, r, t) \/ Better(logits, t, q)
<1>1. /\ Invalids(r) \in Nat /\ Score(logits, r) \in Int /\ Len(r) \in Nat
      /\ Invalids(q) \in Nat /\ Score(logits, q) \in Int /\ Len(q) \in Nat
      /\ Invalids(t) \in Nat /\ Score(logits, t) \in Int /\ Len(t) \in Nat
  BY Measures
<1>2. Len(r) = Len(q) /\ Len(t) = Len(q) /\ LongerFirst(r, q) => LongerFirst(r, t) \/ LongerFirst(t, q)
  BY LongerFirstWeak
<1> QED BY <1>1, <1>2 DEF Better

\* A common last edge does not make a route better: what precedes it was.
LEMMA BetterAppend ==
  ASSUME NEW logits, IntLogits(logits), NEW r \in Seq(Edges), NEW q \in Seq(Edges),
         NEW e \in Edges, Better(logits, Append(r, e), Append(q, e))
  PROVE  Better(logits, r, q)
<1>1. /\ Invalids(r) \in Nat /\ Score(logits, r) \in Int /\ Len(r) \in Nat
      /\ Invalids(q) \in Nat /\ Score(logits, q) \in Int /\ Len(q) \in Nat
  BY Measures
<1> DEFINE c == IF e.invalid THEN 1 ELSE 0
<1>2. /\ Invalids(Append(r, e)) = Invalids(r) + c /\ Invalids(Append(q, e)) = Invalids(q) + c
      /\ c \in Nat /\ GapLogit(logits, e) \in Int
      /\ Score(logits, Append(r, e)) = Score(logits, r) + GapLogit(logits, e)
      /\ Score(logits, Append(q, e)) = Score(logits, q) + GapLogit(logits, e)
      /\ Len(Append(r, e)) = Len(r) + 1 /\ Len(Append(q, e)) = Len(q) + 1
  BY InvalidsAppend, ScoreAppend, GapIsInt
<1>3. Len(r) = Len(q) /\ LongerFirst(Append(r, e), Append(q, e)) => LongerFirst(r, q)
  BY LongerFirstAppend
<1> HIDE DEF c
<1> QED BY <1>1, <1>2, <1>3 DEF Better

-----------------------------------------------------------------------------
(* Routes *)

Norm == [char : Nat, byte : 1 .. 4, from : Nat, forced : BOOLEAN]

\* No character ends behind the input.
WellCut(chars) ==
  /\ chars \in Seq(Norm)
  /\ \A b \in 0 .. Len(chars) - 1 : CharEnds(chars, b) \subseteq b + 1 .. Len(chars)

EdgesIn(n) == {e \in Edges : e.end <= n}

\* The fields of an edge.
LEMMA EdgeInEdges ==
  ASSUME NEW b \in Nat, NEW e \in Nat, b < e, NEW invalid \in BOOLEAN
  PROVE  /\ Edge(b, e, invalid) \in Edges /\ Edge(b, e, invalid).begin = b
         /\ Edge(b, e, invalid).end = e /\ Edge(b, e, invalid).invalid = invalid
BY DEF Edge, Edges

\* The legal edges lie within the text.
LEMMA LegalEdgesIn ==
  ASSUME NEW chars, WellCut(chars), NEW allow
  PROVE  /\ Len(chars) \in Nat
         /\ LegalEdges(chars, allow) \subseteq EdgesIn(Len(chars))
<1> DEFINE n == Len(chars)
<1>1. n \in Nat
  BY DEF WellCut
<1>2. ASSUME NEW d \in LegalEdges(chars, allow) PROVE d \in EdgesIn(n)
  <2>1. PICK b \in 0 .. n - 1 :
          \/ \E f \in b + 1 .. n : d = Edge(b, f, FALSE)
          \/ \E f \in CharEnds(chars, b) : d = Edge(b, f, TRUE)
    BY <1>2 DEF LegalEdges
  <2>2. PICK f \in b + 1 .. n, invalid \in BOOLEAN : d = Edge(b, f, invalid)
    BY <2>1 DEF WellCut
  <2>3. b \in Nat /\ f \in Nat /\ b < f /\ f <= n
    BY <1>1
  <2> QED BY <2>2, <2>3, EdgeInEdges DEF EdgesIn
<1> QED BY <1>1, <1>2

\* The routes to p, from those to the positions in front of it.
Reached(edges, to, p) ==
  IF p = 0 THEN {<<>>}
  ELSE UNION {{Append(r, e) : r \in to[e.begin]} : e \in {d \in edges : d.end = p}}

\* The routes to a position depend on those to the positions before it only.
LEMMA ReachedFrom ==
  ASSUME NEW n \in Nat, NEW edges \in SUBSET EdgesIn(n), NEW p \in 0 .. n, NEW f, NEW g,
         \A q \in 0 .. p - 1 : f[q] = g[q]
  PROVE  Reached(edges, f, p) = Reached(edges, g, p)
<1>1. \A e \in {d \in edges : d.end = p} : f[e.begin] = g[e.begin]
  <2>1. \A e \in edges : e.begin \in Nat /\ e.end \in Nat /\ e.begin < e.end
    BY DEF EdgesIn, Edges
  <2> QED BY <2>1
<1> DEFINE E == {d \in edges : d.end = p}
           F(e) == {Append(r, e) : r \in f[e.begin]}
           G(e) == {Append(r, e) : r \in g[e.begin]}
<1>2. \A e \in E : F(e) = G(e)
  BY <1>1
<1>3. {F(e) : e \in E} = {G(e) : e \in E}
  <2> HIDE DEF E, F, G
  <2> QED BY <1>2
<1>4. /\ Reached(edges, f, p) = IF p = 0 THEN {<<>>} ELSE UNION {F(e) : e \in E}
      /\ Reached(edges, g, p) = IF p = 0 THEN {<<>>} ELSE UNION {G(e) : e \in E}
  BY DEF Reached
<1> HIDE DEF E, F, G
<1> QED BY <1>3, <1>4

\* Routes is what its definition step by step says.
LEMMA RoutesReached ==
  ASSUME NEW chars, WellCut(chars), NEW allow
  PROVE  \A p \in 0 .. Len(chars) :
           Routes(chars, allow)[p] = Reached(LegalEdges(chars, allow), Routes(chars, allow), p)
<1> DEFINE n == Len(chars)
           edges == LegalEdges(chars, allow)
           to == CHOOSE f : f = [p \in 0 .. n |-> Reached(edges, f, p)]
           D == {k \in 0 .. n : \E f : \A p \in 0 .. k : f[p] = Reached(edges, f, p)}
<1>1. n \in Nat /\ edges \in SUBSET EdgesIn(n)
  BY LegalEdgesIn
<1>2. Routes(chars, allow) = to
  BY DEF Routes, Reached
<1> HIDE DEF n, edges
<1>3. 0 \in D
  <2> DEFINE f == [p \in 0 .. 0 |-> {<<>>}]
  <2>1. \A p \in 0 .. 0 : f[p] = Reached(edges, f, p)
    BY DEF Reached
  <2> HIDE DEF f
  <2> QED BY <1>1, <2>1
<1>4. ASSUME NEW k \in D, k < n PROVE k + 1 \in D
  <2>1. PICK f : \A p \in 0 .. k : f[p] = Reached(edges, f, p)
    OBVIOUS
  <2>2. k \in 0 .. n /\ k \in Nat /\ k + 1 \in 0 .. n
    BY <1>1, <1>4
  <2> DEFINE g == [p \in 0 .. k + 1 |-> IF p = k + 1 THEN Reached(edges, f, p) ELSE f[p]]
  <2>3. \A q \in 0 .. k : g[q] = f[q]
    BY <2>2
  <2>4. ASSUME NEW p \in 0 .. k + 1 PROVE g[p] = Reached(edges, f, p)
    BY <2>1, <2>2
  <2>5. ASSUME NEW p \in 0 .. k + 1 PROVE Reached(edges, f, p) = Reached(edges, g, p)
    <3>1. p \in 0 .. n /\ \A q \in 0 .. p - 1 : f[q] = g[q]
      BY <1>1, <2>2, <2>3
    <3> HIDE DEF g
    <3> QED BY <1>1, <3>1, ReachedFrom
  <2> HIDE DEF g
  <2>6. \A p \in 0 .. k + 1 : g[p] = Reached(edges, g, p)
    BY <2>4, <2>5
  <2> QED BY <2>2, <2>6
<1>5. n \in D
  <2>1. D \in SUBSET (0 .. n)
    OBVIOUS
  <2> HIDE DEF D
  <2> QED BY <1>1, <1>3, <1>4, <2>1, Climb
<1>6. PICK f : \A p \in 0 .. n : f[p] = Reached(edges, f, p)
  BY <1>5
<1> DEFINE h == [p \in 0 .. n |-> Reached(edges, f, p)]
<1>7. h = [p \in 0 .. n |-> Reached(edges, h, p)]
  <2>1. ASSUME NEW p \in 0 .. n PROVE Reached(edges, f, p) = Reached(edges, h, p)
    <3>1. \A q \in 0 .. p - 1 : f[q] = h[q]
      BY <1>1, <1>6
    <3> HIDE DEF h
    <3> QED BY <1>1, <3>1, ReachedFrom
  <2> DEFINE H(p) == Reached(edges, h, p)
             F(p) == Reached(edges, f, p)
  <2>2. [p \in 0 .. n |-> F(p)] = [p \in 0 .. n |-> H(p)]
    <3>1. \A p \in 0 .. n : F(p) = H(p)
      BY <2>1
    <3> HIDE DEF F, H
    <3> QED BY <3>1
  <2> QED BY <2>2
<1>8. to = [p \in 0 .. n |-> Reached(edges, to, p)]
  <2> HIDE DEF h
  <2> QED BY <1>7
<1> HIDE DEF to
<1>9. \A p \in 0 .. n : to[p] = Reached(edges, to, p)
  BY <1>8
<1> QED BY <1>2, <1>9 DEF n, edges

\* A route to a position behind the first is one to where its last edge begins.
LEMMA RouteSteps ==
  ASSUME NEW chars, WellCut(chars), NEW allow, NEW p \in 1 .. Len(chars), NEW r
  PROVE  r \in Routes(chars, allow)[p] <=>
           \E e \in LegalEdges(chars, allow) :
             e.end = p /\ \E q \in Routes(chars, allow)[e.begin] : r = Append(q, e)
<1>1. Len(chars) \in Nat /\ p \in 0 .. Len(chars) /\ p # 0
  BY LegalEdgesIn
<1>2. Routes(chars, allow)[p] = Reached(LegalEdges(chars, allow), Routes(chars, allow), p)
  BY <1>1, RoutesReached
<1> DEFINE R == Routes(chars, allow)
           E == LegalEdges(chars, allow)
<1>3. r \in Reached(E, R, p) <=>
           \E e \in E : e.end = p /\ \E q \in R[e.begin] : r = Append(q, e)
  <2> HIDE DEF R, E
  <2> QED BY <1>1 DEF Reached
<1> QED BY <1>2, <1>3

\* Only the empty route ends at 0.
LEMMA FirstRoute ==
  ASSUME NEW chars, WellCut(chars), NEW allow
  PROVE  Routes(chars, allow)[0] = {<<>>}
<1>1. 0 \in 0 .. Len(chars)
  BY LegalEdgesIn
<1> QED BY <1>1, RoutesReached DEF Reached

\* Routes are sequences of edges.
LEMMA RoutesTyped ==
  ASSUME NEW chars, WellCut(chars), NEW allow
  PROVE  \A p \in 0 .. Len(chars) : Routes(chars, allow)[p] \subseteq Seq(Edges)
<1> DEFINE n == Len(chars)
           R == Routes(chars, allow)
           D == {k \in 0 .. n : \A p \in 0 .. k : R[p] \subseteq Seq(Edges)}
<1>1. n \in Nat /\ \A e \in LegalEdges(chars, allow) :
                     e \in Edges /\ e.begin \in Nat /\ e.end \in Nat /\ e.begin < e.end
  BY LegalEdgesIn DEF EdgesIn, Edges
<1>2. 0 \in D
  <2>1. R[0] \subseteq Seq(Edges)
    <3>1. <<>> \in Seq(Edges)
      OBVIOUS
    <3> QED BY <3>1, FirstRoute
  <2> HIDE DEF R
  <2>2. \A p \in 0 .. 0 : R[p] \subseteq Seq(Edges)
    BY <2>1
  <2> QED BY <1>1, <2>2
<1>3. ASSUME NEW k \in D, k < n PROVE k + 1 \in D
  <2>1. k \in Nat /\ k + 1 \in 1 .. n /\ k + 1 \in 0 .. n /\ \A p \in 0 .. k : R[p] \subseteq Seq(Edges)
    BY <1>1, <1>3
  <2>2. ASSUME NEW r \in R[k + 1] PROVE r \in Seq(Edges)
    <3>1. PICK e \in LegalEdges(chars, allow) : e.end = k + 1 /\ \E q \in R[e.begin] : r = Append(q, e)
      BY <2>1, <2>2, RouteSteps
    <3>2. PICK q \in R[e.begin] : r = Append(q, e)
      BY <3>1
    <3>3. e.begin \in 0 .. k /\ e \in Edges
      BY <1>1, <2>1, <3>1
    <3>4. q \in Seq(Edges)
      BY <2>1, <3>2, <3>3
    <3> QED BY <3>2, <3>3, <3>4
  <2>3. \A p \in 0 .. k + 1 : p \in 0 .. k \/ p = k + 1
    BY <2>1
  <2> HIDE DEF R
  <2> QED BY <2>1, <2>2, <2>3
<1>4. D = 0 .. n
  <2>1. D \in SUBSET (0 .. n)
    OBVIOUS
  <2> HIDE DEF D
  <2> QED BY <1>1, <1>2, <1>3, <2>1, ClimbAll
<1>5. ASSUME NEW p \in 0 .. n PROVE R[p] \subseteq Seq(Edges)
  BY <1>1, <1>4, <1>5
<1> QED BY <1>5

-----------------------------------------------------------------------------
(* Kept paths *)

\* The path kept is one of the routes and no route of them is better; its counters are
\* those of its edges.
Keeps(path, routes, logits) ==
  IF routes = {} THEN ~path.reachable
  ELSE /\ path.reachable /\ path.edges \in routes
       /\ path.invalid_char_count = Invalids(path.edges)
       /\ path.gap_score = Score(logits, path.edges)
       /\ \A r \in routes : ~Better(logits, r, path.edges)

\* prefer compares what the order compares.
LEMMA PreferIsBetter ==
  ASSUME NEW logits, IntLogits(logits), NEW path, NEW current,
         path.edges \in Seq(Edges), path.invalid_char_count = Invalids(path.edges),
         path.gap_score = Score(logits, path.edges), current.reachable,
         current.edges \in Seq(Edges), current.invalid_char_count = Invalids(current.edges),
         current.gap_score = Score(logits, current.edges)
  PROVE  prefer(path, current) <=> Better(logits, path.edges, current.edges)
<1> DEFINE r == path.edges
           q == current.edges
<1>1. /\ Invalids(r) \in Nat /\ Score(logits, r) \in Int /\ Len(r) \in Nat
      /\ Invalids(q) \in Nat /\ Score(logits, q) \in Int /\ Len(q) \in Nat
  BY Measures
<1> QED BY <1>1 DEF prefer, Better

\* One edge tried behind the best route to where it begins.
LEMMA TriedEdge ==
  ASSUME NEW logits, IntLogits(logits), decoding.gap_logits = logits,
         NEW e \in Edges, NEW old, NEW current,
         NEW from \in SUBSET Seq(Edges), NEW routes \in SUBSET Seq(Edges),
         Keeps(old, from, logits), Keeps(current, routes, logits)
  PROVE  Keeps(append_candidate(old, e, current), routes \cup {Append(r, e) : r \in from}, logits)
<1> DEFINE behind == {Append(r, e) : r \in from}
           path == [reachable |-> TRUE,
                    invalid_char_count |-> old.invalid_char_count + IF e.invalid THEN 1 ELSE 0,
                    gap_score |-> old.gap_score + GapLogit(logits, e),
                    edges |-> Append(old.edges, e)]
           kept == IF old.reachable /\ prefer(path, current) THEN path ELSE current
<1>1. append_candidate(old, e, current) = kept
  BY DEF append_candidate
<1>2. CASE from = {}
  <2>1. behind = {} /\ ~old.reachable
    BY <1>2 DEF Keeps
  <2> HIDE DEF path
  <2> QED BY <1>1, <2>1
<1>3. CASE from # {}
  <2>1. /\ old.reachable /\ old.edges \in from /\ old.edges \in Seq(Edges)
        /\ old.invalid_char_count = Invalids(old.edges)
        /\ old.gap_score = Score(logits, old.edges)
        /\ \A r \in from : ~Better(logits, r, old.edges)
    BY <1>3 DEF Keeps
  <2>2. /\ path.reachable /\ path.edges = Append(old.edges, e) /\ path.edges \in behind
        /\ path.edges \in Seq(Edges)
        /\ path.invalid_char_count = Invalids(path.edges)
        /\ path.gap_score = Score(logits, path.edges)
    BY <2>1, InvalidsAppend, ScoreAppend
  <2>3. \A q \in behind : q \in Seq(Edges) /\ ~Better(logits, q, path.edges)
    <3>1. ASSUME NEW r \in from
          PROVE Append(r, e) \in Seq(Edges) /\ ~Better(logits, Append(r, e), path.edges)
      BY <2>1, <2>2, BetterAppend
    <3> HIDE DEF path
    <3> QED BY <3>1
  <2>4. routes \cup behind # {}
    BY <2>2
  <2> HIDE DEF path, behind
  <2>5. kept = IF prefer(path, current) THEN path ELSE current
    BY <2>1
  <2> HIDE DEF kept
  <2>6. CASE routes = {}
    <3>1. kept = path
      BY <2>5, <2>6 DEF Keeps, prefer
    <3> QED BY <1>1, <2>2, <2>3, <2>4, <2>6, <3>1 DEF Keeps, behind
  <2>7. CASE routes # {}
    <3>1. /\ current.reachable /\ current.edges \in routes /\ current.edges \in Seq(Edges)
          /\ current.invalid_char_count = Invalids(current.edges)
          /\ current.gap_score = Score(logits, current.edges)
          /\ \A r \in routes : ~Better(logits, r, current.edges)
      BY <2>7 DEF Keeps
    <3>2. prefer(path, current) <=> Better(logits, path.edges, current.edges)
      BY <2>2, <3>1, PreferIsBetter
    <3>3. CASE Better(logits, path.edges, current.edges)
      <4>1. kept = path
        BY <2>5, <3>2, <3>3
      <4>2. ASSUME NEW r \in routes PROVE ~Better(logits, r, path.edges)
        <5>1. SUFFICES ASSUME Better(logits, r, path.edges) PROVE FALSE
          OBVIOUS
        <5>2. r \in Seq(Edges)
          OBVIOUS
        <5>3. Better(logits, r, current.edges) \/ Better(logits, current.edges, path.edges)
          BY <2>2, <3>1, <5>1, <5>2, BetterWeak
        <5>4. ~Better(logits, current.edges, path.edges)
          BY <2>2, <3>1, <3>3, BetterAsymmetric
        <5> QED BY <3>1, <5>3, <5>4
      <4> QED BY <1>1, <2>2, <2>3, <2>4, <4>1, <4>2 DEF Keeps, behind
    <3>4. CASE ~Better(logits, path.edges, current.edges)
      <4>1. kept = current
        BY <2>5, <3>2, <3>4
      <4>2. ASSUME NEW q \in behind PROVE ~Better(logits, q, current.edges)
        <5>1. q \in Seq(Edges) /\ ~Better(logits, q, path.edges)
          BY <2>3
        <5> QED BY <2>2, <3>1, <3>4, <5>1, BetterWeak
      <4> QED BY <1>1, <2>4, <3>1, <4>1, <4>2 DEF Keeps, behind
    <3> QED BY <3>3, <3>4
  <2> QED BY <2>6, <2>7
<1> QED BY <1>2, <1>3

-----------------------------------------------------------------------------
(* Normalized characters *)

\* The j-th byte of a character, typed at an offset; only its first can be forced.
IsByte(c, char, j, from) ==
  c.char = char /\ c.byte = j /\ c.from = from /\ (c.forced => j = 1)

\* Every byte belongs to a whole character, written in one piece.
Whole(chars, i) ==
  /\ chars[i].byte <= Width(chars[i].char)
  /\ \A j \in 1 .. Width(chars[i].char) :
       /\ i - chars[i].byte + j \in 1 .. Len(chars)
       /\ IsByte(chars[i - chars[i].byte + j], chars[i].char, j, chars[i].from - chars[i].byte + j)

Written(chars) == \A i \in 1 .. Len(chars) : Whole(chars, i)

\* Offsets point at the input in its order.
Ordered(chars) == \A i, j \in 1 .. Len(chars) : i < j => chars[i].from < chars[j].from

Before(chars, at) == \A i \in 1 .. Len(chars) : chars[i].from < at

Read == {acc \in [at : Nat, forced : BOOLEAN, out : Seq(Norm)] :
           Written(acc.out) /\ Ordered(acc.out) /\ Before(acc.out, acc.at)}

\* The fields of normalized bytes.
LEMMA NormParts ==
  ASSUME NEW chars \in Seq(Norm)
  PROVE  /\ Len(chars) \in Nat
         /\ \A i \in 1 .. Len(chars) :
              /\ chars[i] \in Norm /\ chars[i].char \in Nat /\ chars[i].byte \in 1 .. 4
              /\ chars[i].from \in Nat /\ chars[i].forced \in BOOLEAN
<1>1. \A c \in Norm : /\ c.char \in Nat /\ c.byte \in 1 .. 4
                      /\ c.from \in Nat /\ c.forced \in BOOLEAN
  BY DEF Norm
<1>2. Len(chars) \in Nat /\ \A i \in 1 .. Len(chars) : chars[i] \in Norm
  OBVIOUS
<1> QED BY <1>1, <1>2

\* The fields of what was normalized so far.
LEMMA ReadParts ==
  ASSUME NEW acc \in Read
  PROVE  /\ acc.at \in Nat /\ acc.forced \in BOOLEAN /\ acc.out \in Seq(Norm)
         /\ Written(acc.out) /\ Ordered(acc.out) /\ Before(acc.out, acc.at)
         /\ acc = [at |-> acc.at, forced |-> acc.forced, out |-> acc.out]
BY DEF Read

\* Lowering a code point does not change its length, and v is as long as u.
LEMMA Widths ==
  ASSUME NEW c \in Nat
  PROVE  /\ Width(c) \in 1 .. 4 /\ Lowered(c) \in Nat /\ Width(Lowered(c)) = Width(c)
         /\ Lowered(c) = 118 => Width(c) = 1
         /\ Width(117) = 1
BY DEF Width, Lowered

\* A character written behind others.
LEMMA WrittenBehind ==
  ASSUME NEW chars \in Seq(Norm), Written(chars), Ordered(chars), NEW at \in Nat,
         Before(chars, at), NEW out \in Seq(Norm), NEW norm \in Nat,
         Len(out) = Len(chars) + Width(norm),
         \A i \in 1 .. Len(chars) : out[i] = chars[i],
         \A i \in 1 .. Width(norm) : IsByte(out[Len(chars) + i], norm, i, at + i - 1)
  PROVE  Written(out) /\ Ordered(out) /\ Before(out, at + Width(norm))
<1> DEFINE n == Len(chars)
           w == Width(norm)
<1>1. n \in Nat /\ w \in 1 .. 4 /\ Len(out) = n + w
  BY Widths
<1>2. \A i \in 1 .. n : /\ out[i] = chars[i] /\ chars[i].char \in Nat /\ chars[i].byte \in 1 .. 4
                        /\ chars[i].from \in Nat /\ chars[i].from < at
  BY NormParts DEF Before
<1>3. \A m \in 1 .. w : IsByte(out[n + m], norm, m, at + m - 1)
  OBVIOUS
<1> HIDE DEF n, w
<1>4. ASSUME NEW i \in 1 .. n + w, i \notin 1 .. n PROVE \E m \in 1 .. w : i = n + m
  <2>1. i - n \in 1 .. w /\ i = n + (i - n)
    BY <1>1, <1>4
  <2> QED BY <2>1
<1>5. ASSUME NEW i \in 1 .. n PROVE Whole(out, i)
  <2>1. Whole(chars, i)
    BY DEF Written, n
  <2>2. \A k \in 1 .. n : k \in 1 .. n + w
    BY <1>1
  <2> QED BY <1>1, <1>2, <2>1, <2>2 DEF Whole, n
<1>6. ASSUME NEW m \in 1 .. w PROVE Whole(out, n + m)
  <2>1. out[n + m].char = norm /\ out[n + m].byte = m /\ out[n + m].from = at + m - 1
    BY <1>3 DEF IsByte
  <2>2. \A j \in 1 .. w : /\ n + m - m + j = n + j /\ n + j \in 1 .. n + w
                          /\ at + m - 1 - m + j = at + j - 1
    BY <1>1
  <2>3. m <= w /\ Width(out[n + m].char) = w
    BY <1>1, <2>1 DEF w
  <2> QED BY <1>1, <1>3, <2>1, <2>2, <2>3 DEF Whole
<1>7. Written(out)
  <2>1. \A i \in 1 .. n + w : Whole(out, i)
    BY <1>4, <1>5, <1>6
  <2> QED BY <1>1, <2>1 DEF Written
<1>8. ASSUME NEW i \in 1 .. n + w, i \notin 1 .. n PROVE out[i].from = at + (i - n) - 1 /\ i - n \in 1 .. w
  <2>1. PICK m \in 1 .. w : i = n + m
    BY <1>4, <1>8
  <2>2. out[n + m].from = at + m - 1
    BY <1>3 DEF IsByte
  <2> QED BY <1>1, <2>1, <2>2
<1>9. ASSUME NEW i \in 1 .. n + w PROVE out[i].from < at + w
  <2>1. CASE i \in 1 .. n
    BY <1>1, <1>2, <2>1
  <2>2. CASE i \notin 1 .. n
    <3>1. out[i].from = at + (i - n) - 1 /\ i - n \in 1 .. w
      BY <1>8, <2>2
    <3> QED BY <1>1, <3>1
  <2> QED BY <2>1, <2>2
<1>10. ASSUME NEW i \in 1 .. n + w, NEW j \in 1 .. n + w, i < j PROVE out[i].from < out[j].from
  <2>1. CASE j \in 1 .. n
    <3>1. i \in 1 .. n /\ i \in 1 .. Len(chars) /\ j \in 1 .. Len(chars)
      BY <1>1, <1>10, <2>1 DEF n
    <3> QED BY <1>2, <1>10, <2>1, <3>1 DEF Ordered
  <2>2. CASE j \notin 1 .. n /\ i \in 1 .. n
    <3>1. out[j].from = at + (j - n) - 1 /\ j - n \in 1 .. w
      BY <1>8, <2>2
    <3>2. out[i].from < at /\ out[i].from \in Nat
      BY <1>1, <1>2, <2>2
    <3> QED BY <1>1, <3>1, <3>2
  <2>3. CASE j \notin 1 .. n /\ i \notin 1 .. n
    BY <1>1, <1>8, <1>10, <2>3
  <2> QED BY <2>1, <2>2, <2>3
<1> QED BY <1>1, <1>7, <1>9, <1>10 DEF Ordered, Before, w

\* One more code point leaves whole characters in the order they were typed.
LEMMA ReadStep ==
  ASSUME NEW acc \in Read, NEW c \in Nat
  PROVE  NormalizeNext(acc, c) \in Read
<1> DEFINE norm == IF /\ VToU /\ Lowered(c) = 118 /\ ~acc.forced
                      /\ acc.out # <<>> /\ Last(acc.out).char \in JQXY
                   THEN 117 ELSE Lowered(c)
           letter(i) == [char |-> norm, byte |-> i, from |-> acc.at + i - 1,
                         forced |-> i = 1 /\ acc.forced]
           letters == [i \in 1 .. Width(c) |-> letter(i)]
           out == acc.out \o letters
<1>1. norm \in Nat /\ Width(norm) = Width(c) /\ Width(c) \in 1 .. 4
  <2>1. norm = Lowered(c) \/ (norm = 117 /\ Lowered(c) = 118)
    OBVIOUS
  <2> HIDE DEF norm
  <2>2. CASE norm = Lowered(c)
    BY Widths, <2>2
  <2>3. CASE norm = 117 /\ Lowered(c) = 118
    BY Widths, <2>3
  <2> QED BY <2>1, <2>2, <2>3
<1>2. CASE c \in Separators
  <2>1. NormalizeNext(acc, c) = [at |-> acc.at + Width(c), forced |-> acc.forced \/ acc.out # <<>>,
                                 out |-> acc.out]
    <3>1. acc = [at |-> acc.at, forced |-> acc.forced, out |-> acc.out]
      BY ReadParts
    <3>2. NormalizeNext(acc, c) = [acc EXCEPT !.at = @ + Width(c), !.forced = @ \/ acc.out # <<>>]
      BY <1>2 DEF NormalizeNext
    <3> HIDE DEF norm
    <3> QED BY <3>1, <3>2
  <2>2. Before(acc.out, acc.at + Width(c)) /\ acc.at + Width(c) \in Nat
    <3>1. acc.out \in Seq(Norm) /\ Before(acc.out, acc.at) /\ acc.at \in Nat
      BY ReadParts
    <3>2. \A i \in 1 .. Len(acc.out) : acc.out[i].from \in Nat
      BY <3>1, NormParts
    <3>3. Width(c) \in Nat
      BY <1>1
    <3> HIDE DEF norm
    <3> QED BY <3>1, <3>2, <3>3 DEF Before
  <2>3. (acc.forced \/ acc.out # <<>>) \in BOOLEAN
    OBVIOUS
  <2> DEFINE f == acc.forced \/ acc.out # <<>>
  <2> HIDE DEF norm, f
  <2> QED BY <2>1, <2>2, ReadParts DEF Read, f
<1>3. CASE c \notin Separators
  <2>1. NormalizeNext(acc, c) = [at |-> acc.at + Width(c), forced |-> FALSE, out |-> out]
    BY <1>3 DEF NormalizeNext
  <2> HIDE DEF norm
  <2>2. acc.at \in Nat /\ acc.forced \in BOOLEAN /\ acc.out \in Seq(Norm)
    BY ReadParts
  <2>3. ASSUME NEW i \in 1 .. Width(c)
        PROVE  letter(i) \in Norm /\ IsByte(letter(i), norm, i, acc.at + i - 1)
    <3>1. i \in 1 .. 4 /\ acc.at + i - 1 \in Nat /\ (i = 1 /\ acc.forced) \in BOOLEAN
      BY <1>1, <2>2
    <3>2. letter(i) \in Norm
      BY <1>1, <3>1 DEF Norm
    <3>3. IsByte(letter(i), norm, i, acc.at + i - 1)
      BY DEF IsByte
    <3> QED BY <3>2, <3>3
  <2> HIDE DEF letter
  <2>4. letters \in Seq(Norm) /\ Len(letters) = Width(c) /\ \A i \in 1 .. Width(c) : letters[i] = letter(i)
    BY <1>1, <2>3
  <2> HIDE DEF letters
  <2>5. /\ out \in Seq(Norm) /\ Len(out) = Len(acc.out) + Width(c)
        /\ \A i \in 1 .. Len(acc.out) : out[i] = acc.out[i]
        /\ \A i \in 1 .. Width(c) : out[Len(acc.out) + i] = letters[i]
    BY <1>1, <2>2, <2>4
  <2> HIDE DEF out
  <2>6. \A i \in 1 .. Width(norm) : IsByte(out[Len(acc.out) + i], norm, i, acc.at + i - 1)
    BY <1>1, <2>3, <2>4, <2>5
  <2>7. Written(out) /\ Ordered(out) /\ Before(out, acc.at + Width(c))
    <3>1. Len(out) = Len(acc.out) + Width(norm)
      BY <1>1, <2>5
    <3>2. Written(acc.out) /\ Ordered(acc.out) /\ Before(acc.out, acc.at)
      BY ReadParts
    <3> QED BY <1>1, <2>2, <2>5, <2>6, <3>1, <3>2, WrittenBehind
  <2>8. acc.at + Width(c) \in Nat
    BY <1>1, <2>2
  <2> QED BY <2>1, <2>5, <2>7, <2>8 DEF Read
<1> QED BY <1>2, <1>3

\* Normalization writes whole characters, in the order they were typed.
LEMMA NormalizedIsWritten ==
  ASSUME NEW input \in Seq(Nat)
  PROVE  /\ normalize_pinyin(input) \in Seq(Norm)
         /\ Written(normalize_pinyin(input)) /\ Ordered(normalize_pinyin(input))
<1> DEFINE n == Len(input)
           next(f, i) == IF i = 0 THEN NothingRead ELSE NormalizeNext(f[i - 1], input[i])
           read == CHOOSE f : f = [i \in 0 .. n |-> next(f, i)]
           step == [i \in 1 .. n |-> [acc \in Read |-> NormalizeNext(acc, input[i])]]
<1>0. n \in Nat /\ \A i \in 1 .. n : input[i] \in Nat
  OBVIOUS
<1>1. NothingRead \in Read
  <2>1. <<>> \in Seq(Norm) /\ Len(<<>>) = 0
    OBVIOUS
  <2> QED BY <2>1 DEF Read, NothingRead, Written, Ordered, Before
<1> HIDE DEF n
<1>2. step \in Steps(n, Read)
  BY <1>0, ReadStep DEF Steps
<1>3. PICK f \in [0 .. n -> Read] : Follows(f, NothingRead, step, n)
  BY <1>0, <1>1, <1>2, StepwiseFunction
<1>4. f = [i \in 0 .. n |-> next(f, i)]
  <2>1. ASSUME NEW i \in 1 .. n PROVE f[i] = NormalizeNext(f[i - 1], input[i])
    <3>1. i - 1 \in 0 .. n /\ f[i - 1] \in Read
      BY <1>0
    <3>2. f[i] = step[i][f[i - 1]]
      BY <1>3 DEF Follows
    <3> QED BY <3>1, <3>2
  <2>2. f[0] = NothingRead
    BY <1>3 DEF Follows
  <2>3. \A i \in 0 .. n : f[i] = next(f, i)
    <3> HIDE DEF step
    <3> QED BY <1>0, <2>1, <2>2
  <2> HIDE DEF next
  <2> QED BY <2>3
<1>5. read = [i \in 0 .. n |-> next(read, i)]
  <2> HIDE DEF next
  <2> QED BY <1>4
<1> HIDE DEF read
<1>6. read[0] \in Read /\ \A i \in 1 .. n : read[i - 1] \in Read => read[i] \in Read
  <2>1. read[0] = NothingRead /\ \A i \in 1 .. n : read[i] = NormalizeNext(read[i - 1], input[i])
    BY <1>0, <1>5
  <2> QED BY <1>0, <1>1, <2>1, ReadStep
<1>7. read[n] \in Read
  <2>1. \A i \in 0 .. n : read[i] \in Read
    BY <1>0, <1>6, StepsStayIn
  <2> QED BY <1>0, <2>1
<1>8. normalize_pinyin(input) = read[n].out
  BY DEF normalize_pinyin, read, n
<1> QED BY <1>7, <1>8, ReadParts

\* A whole character ends in the input.
LEMMA WrittenIsCut ==
  ASSUME NEW chars \in Seq(Norm), Written(chars)
  PROVE  WellCut(chars)
<1> SUFFICES ASSUME NEW b \in 0 .. Len(chars) - 1, NEW e \in CharEnds(chars, b)
             PROVE  e \in b + 1 .. Len(chars)
  BY DEF WellCut
<1> DEFINE w == Width(chars[b + 1].char)
<1>1. Len(chars) \in Nat /\ b + 1 \in 1 .. Len(chars)
  BY NormParts
<1>2. chars[b + 1].byte = 1 /\ e = b + w
  BY DEF CharEnds
<1>3. w \in 1 .. 4
  BY <1>1, NormParts, Widths
<1>4. \A j \in 1 .. w : b + 1 - 1 + j \in 1 .. Len(chars)
  BY <1>1, <1>2 DEF Written, Whole
<1> HIDE DEF w
<1>5. b + 1 - 1 + w \in 1 .. Len(chars)
  BY <1>3, <1>4
<1> QED BY <1>1, <1>2, <1>3, <1>5

-----------------------------------------------------------------------------
(* What one start position adds *)

\* The routes to p whose last edge starts in front of b: those the Viterbi has tried
\* when it comes to b.
Tried(chars, allow, p, b) == {r \in Routes(chars, allow)[p] : r = <<>> \/ Last(r).begin < b}

\* The last edge of a route that was extended.
LEMMA LastOfAppend ==
  ASSUME NEW S, NEW r \in Seq(S), NEW e \in S
  PROVE  Append(r, e) # <<>> /\ Last(Append(r, e)) = e
BY DEF Last

\* The routes to p through an edge that ends there.
LEMMA RouteEnds ==
  ASSUME NEW chars, WellCut(chars), NEW allow, NEW p \in 1 .. Len(chars),
         NEW r \in Routes(chars, allow)[p]
  PROVE  /\ r # <<>> /\ Last(r) \in LegalEdges(chars, allow) /\ Last(r) \in Edges
         /\ Last(r).end = p /\ Last(r).begin \in 0 .. p - 1
         /\ \E q \in Routes(chars, allow)[Last(r).begin] : r = Append(q, Last(r))
<1>1. PICK e \in LegalEdges(chars, allow) :
         e.end = p /\ \E q \in Routes(chars, allow)[e.begin] : r = Append(q, e)
  BY RouteSteps
<1>2. e \in Edges /\ e.begin \in 0 .. p - 1 /\ Len(chars) \in Nat
  BY <1>1, LegalEdgesIn DEF EdgesIn, Edges
<1>3. PICK q \in Routes(chars, allow)[e.begin] : r = Append(q, e)
  BY <1>1
<1>4. q \in Seq(Edges)
  <2>1. e.begin \in 0 .. Len(chars)
    BY <1>2
  <2> QED BY <2>1, RoutesTyped
<1>5. r # <<>> /\ Last(r) = e
  BY <1>2, <1>3, <1>4, LastOfAppend
<1> QED BY <1>1, <1>2, <1>5

\* When the Viterbi comes to a position, every route to it was tried.
LEMMA TriedAll ==
  ASSUME NEW chars, WellCut(chars), NEW allow, NEW b \in 0 .. Len(chars), NEW p \in 0 .. b
  PROVE  Tried(chars, allow, p, b) = Routes(chars, allow)[p]
<1>1. Len(chars) \in Nat
  BY LegalEdgesIn
<1>2. ASSUME NEW r \in Routes(chars, allow)[p] PROVE r = <<>> \/ Last(r).begin < b
  <2>1. CASE p = 0
    BY <2>1, FirstRoute
  <2>2. CASE p # 0
    <3>1. p \in 1 .. Len(chars)
      BY <1>1, <2>2
    <3>2. Last(r).begin \in 0 .. p - 1
      BY <3>1, RouteEnds
    <3> QED BY <1>1, <3>2
  <2> QED BY <2>1, <2>2
<1> QED BY <1>2 DEF Tried

\* At first only the empty route to the start was.
LEMMA TriedFirst ==
  ASSUME NEW chars, WellCut(chars), NEW allow, NEW p \in 0 .. Len(chars)
  PROVE  Tried(chars, allow, p, 0) = IF p = 0 THEN {<<>>} ELSE {}
<1>1. CASE p = 0
  BY <1>1, FirstRoute DEF Tried
<1>2. CASE p # 0
  <2>1. p \in 1 .. Len(chars)
    BY <1>2, LegalEdgesIn
  <2>2. \A r \in Routes(chars, allow)[p] : r # <<>> /\ ~(Last(r).begin < 0)
    BY <2>1, RouteEnds
  <2> QED BY <1>2, <2>2 DEF Tried
<1> QED BY <1>1, <1>2

\* A word that crosses no boundary.
WordBetween(chars, b, p) ==
  p \in b + 1 .. Len(chars) /\ Word(chars, b, p) \in Vocab /\ ~CrossesBoundary(chars, b, p)

\* An edge is a word or a single character.
LEMMA EdgesAre ==
  ASSUME NEW chars, WellCut(chars), NEW allow, NEW e
  PROVE  e \in LegalEdges(chars, allow) <=>
           /\ e.begin \in 0 .. Len(chars) - 1
           /\ \/ WordBetween(chars, e.begin, e.end) /\ e = Edge(e.begin, e.end, FALSE)
              \/ allow /\ e.end \in CharEnds(chars, e.begin) /\ e = Edge(e.begin, e.end, TRUE)
<1> DEFINE n == Len(chars)
           Ends(a) == {g \in a + 1 .. n : Word(chars, a, g) \in Vocab /\ ~CrossesBoundary(chars, a, g)}
           Matches(a) == {Edge(a, f, FALSE) : f \in Ends(a)}
           Singles(a) == {Edge(a, f, TRUE) : f \in IF allow THEN CharEnds(chars, a) ELSE {}}
           E == UNION {Matches(a) \cup Singles(a) : a \in 0 .. n - 1}
<1>1. \A a, f : /\ Edge(a, f, TRUE).begin = a /\ Edge(a, f, TRUE).end = f
                /\ Edge(a, f, FALSE).begin = a /\ Edge(a, f, FALSE).end = f
  BY DEF Edge
<1>2. \A a : e \in Matches(a) <=>
               a = e.begin /\ WordBetween(chars, e.begin, e.end) /\ e = Edge(e.begin, e.end, FALSE)
  <2>1. \A a, f : f \in Ends(a) <=> WordBetween(chars, a, f)
    BY DEF WordBetween
  <2> HIDE DEF Ends
  <2>2. ASSUME NEW a, e \in Matches(a)
        PROVE  a = e.begin /\ WordBetween(chars, e.begin, e.end) /\ e = Edge(e.begin, e.end, FALSE)
    <3>1. PICK f \in Ends(a) : e = Edge(a, f, FALSE)
      BY <2>2
    <3>2. e.begin = a /\ e.end = f
      BY <1>1, <3>1
    <3> QED BY <2>1, <3>1, <3>2
  <2>3. ASSUME WordBetween(chars, e.begin, e.end), e = Edge(e.begin, e.end, FALSE)
        PROVE  e \in Matches(e.begin)
    BY <2>1, <2>3
  <2> HIDE DEF Matches
  <2> QED BY <2>2, <2>3
<1>3. \A a : e \in Singles(a) <=>
               /\ a = e.begin /\ allow /\ e.end \in CharEnds(chars, e.begin)
               /\ e = Edge(e.begin, e.end, TRUE)
  <2>1. ASSUME NEW a, e \in Singles(a)
        PROVE  /\ a = e.begin /\ allow /\ e.end \in CharEnds(chars, e.begin)
               /\ e = Edge(e.begin, e.end, TRUE)
    <3>1. PICK f \in CharEnds(chars, a) : allow /\ e = Edge(a, f, TRUE)
      BY <2>1
    <3>2. e.begin = a /\ e.end = f
      BY <1>1, <3>1
    <3> QED BY <3>1, <3>2
  <2>2. ASSUME allow, e.end \in CharEnds(chars, e.begin), e = Edge(e.begin, e.end, TRUE)
        PROVE  e \in Singles(e.begin)
    BY <2>2
  <2> HIDE DEF Singles
  <2> QED BY <2>1, <2>2
<1>4. e \in E <=> \E a \in 0 .. n - 1 : e \in Matches(a) \/ e \in Singles(a)
  <2> HIDE DEF Matches, Singles
  <2> QED OBVIOUS
<1>5. LegalEdges(chars, allow) = E
  BY DEF LegalEdges
<1> HIDE DEF E, Matches, Singles
<1> QED BY <1>2, <1>3, <1>4, <1>5

\* The routes to b, longer by an edge from there to p.
Added(chars, allow, p, b) ==
  {r \in Seq(Edges) : \E e \in LegalEdges(chars, allow) :
     e.begin = b /\ e.end = p /\ \E q \in Routes(chars, allow)[b] : r = Append(q, e)}

\* One start position tries the routes to it, longer by the edges from it.
LEMMA TriedNext ==
  ASSUME NEW chars, WellCut(chars), NEW allow, NEW b \in 0 .. Len(chars) - 1,
         NEW p \in 0 .. Len(chars)
  PROVE  Tried(chars, allow, p, b + 1) = Tried(chars, allow, p, b) \cup Added(chars, allow, p, b)
<1> SUFFICES ASSUME NEW r
             PROVE  r \in Tried(chars, allow, p, b + 1) <=>
                      \/ r \in Tried(chars, allow, p, b)
                      \/ \E e \in LegalEdges(chars, allow) :
                           e.begin = b /\ e.end = p /\ \E q \in Routes(chars, allow)[b] : r = Append(q, e)
  <2>1. ASSUME NEW r, NEW e \in LegalEdges(chars, allow), NEW q \in Routes(chars, allow)[b],
               r = Append(q, e)
        PROVE  r \in Seq(Edges)
    <3>1. e \in Edges /\ b \in 0 .. Len(chars)
      BY LegalEdgesIn DEF EdgesIn
    <3>2. q \in Seq(Edges)
      BY <3>1, RoutesTyped
    <3> QED BY <2>1, <3>1, <3>2
  <2> QED BY <2>1 DEF Added
<1> DEFINE R == Routes(chars, allow)
           E == LegalEdges(chars, allow)
<1>1. Len(chars) \in Nat /\ \A e \in E : e \in Edges /\ e.begin \in Nat /\ e.end \in Nat /\ e.begin < e.end
  BY LegalEdgesIn DEF EdgesIn, Edges
<1>2. CASE p = 0
  <2>1. R[p] = {<<>>} /\ ~\E e \in E : e.end = p
    BY <1>1, <1>2, FirstRoute
  <2> HIDE DEF R, E
  <2> QED BY <2>1 DEF Tried, R, E
<1>3. CASE p # 0
  <2>0. p \in 1 .. Len(chars)
    BY <1>1, <1>3
  <2>1. ASSUME r \in R[p]
        PROVE  /\ r # <<>> /\ Last(r) \in E /\ Last(r).end = p /\ Last(r).begin \in Nat
               /\ \E q \in R[Last(r).begin] : r = Append(q, Last(r))
    BY <2>0, <2>1, RouteEnds
  <2>2. ASSUME NEW e \in E, e.begin = b, e.end = p, NEW q \in R[b], r = Append(q, e)
        PROVE  r \in R[p] /\ Last(r) = e
    <3>1. q \in Seq(Edges)
      <4>1. b \in 0 .. Len(chars)
        BY <1>1
      <4> QED BY <4>1, RoutesTyped
    <3>2. r \in R[p]
      BY <2>0, <2>2, RouteSteps
    <3>3. e \in Edges
      BY <1>1
    <3>4. Last(r) = e
      BY <2>2, <3>1, <3>3, LastOfAppend
    <3> QED BY <3>2, <3>4
  <2> HIDE DEF R, E
  <2>3. b \in Nat
    BY <1>1
  <2>4. ASSUME r \in Tried(chars, allow, p, b + 1), r \notin Tried(chars, allow, p, b)
        PROVE  \E e \in E : e.begin = b /\ e.end = p /\ \E q \in R[b] : r = Append(q, e)
    <3>1. r \in R[p] /\ Last(r).begin < b + 1 /\ ~(Last(r).begin < b)
      BY <2>1, <2>4 DEF Tried, R
    <3>2. Last(r).begin = b
      BY <2>1, <2>3, <3>1
    <3> QED BY <2>1, <3>1, <3>2
  <2>5. ASSUME NEW e \in E, e.begin = b, e.end = p, NEW q \in R[b], r = Append(q, e)
        PROVE  r \in Tried(chars, allow, p, b + 1)
    BY <2>2, <2>3, <2>5 DEF Tried, R
  <2>6. ASSUME r \in Tried(chars, allow, p, b) PROVE r \in Tried(chars, allow, p, b + 1)
    BY <2>1, <2>3, <2>6 DEF Tried, R
  <2> QED BY <2>4, <2>5, <2>6 DEF R, E
<1> QED BY <1>2, <1>3

\* The trie stops in front of the next forced boundary: it finds the words that cross none.
LEMMA MatchesAreLegal ==
  ASSUME WellCut(canonical), NEW b \in 0 .. Size - 1, NEW p
  PROVE  p \in match_lengths(b) <=> WordBetween(canonical, b, p)
<1> DEFINE forced == {gap \in b + 1 .. Size - 1 : canonical[gap + 1].forced}
           next == next_forced_end(b)
<1>1. Size \in Nat /\ b \in Nat
  BY LegalEdgesIn DEF Size
<1>2. next \in b + 1 .. Size /\ \A f \in b + 1 .. Size : f <= next <=> ~CrossesBoundary(canonical, b, f)
  <2>1. ASSUME NEW f \in b + 1 .. Size
        PROVE  CrossesBoundary(canonical, b, f) <=> \E g \in forced : g < f
    <3>1. ASSUME NEW i \in b + 2 .. f, canonical[i].forced PROVE i - 1 \in forced /\ i - 1 < f
      BY <1>1, <3>1
    <3>2. ASSUME NEW g \in forced, g < f PROVE g + 1 \in b + 2 .. f /\ canonical[g + 1].forced
      BY <1>1, <3>2
    <3> HIDE DEF forced
    <3> QED BY <3>1, <3>2 DEF CrossesBoundary
  <2>2. forced \in SUBSET Nat /\ \A g \in forced : g \in b + 1 .. Size - 1
    BY <1>1
  <2>3. next = IF forced = {} THEN Size ELSE CHOOSE g \in forced : \A h \in forced : g <= h
    BY DEF next_forced_end
  <2> HIDE DEF forced, next
  <2>4. CASE forced = {}
    BY <1>1, <2>1, <2>3, <2>4
  <2>5. CASE forced # {}
    <3>1. next \in forced /\ \A h \in forced : next <= h
      BY <2>2, <2>3, <2>5, LeastNat
    <3>2. \A f \in b + 1 .. Size : f <= next <=> ~\E g \in forced : g < f
      BY <1>1, <2>2, <3>1
    <3> QED BY <1>1, <2>1, <2>2, <3>1, <3>2
  <2> QED BY <2>4, <2>5
<1>3. p \in match_lengths(b) <=> p \in b + 1 .. next /\ Word(canonical, b, p) \in Vocab
  BY DEF match_lengths
<1> HIDE DEF next
<1>4. p \in b + 1 .. next <=> p \in b + 1 .. Size /\ ~CrossesBoundary(canonical, b, p)
  <2>1. p \in b + 1 .. next <=> p \in b + 1 .. Size /\ p <= next
    BY <1>1, <1>2
  <2> QED BY <1>2, <2>1
<1> QED BY <1>3, <1>4 DEF WordBetween, Size

-----------------------------------------------------------------------------
(* The invariant *)

Decoding == stage \in {"validate", "diagnose", "decode"}

\* The path kept at each position is the best of the routes tried.
PathsInv ==
  /\ canonical \in Seq(Norm) /\ Written(canonical)
  /\ Decoding =>
       /\ decoding = [gap_logits |-> decoding.gap_logits, allow_invalid |-> decoding.allow_invalid,
                      begin |-> decoding.begin]
       /\ IntLogits(decoding.gap_logits) /\ decoding.allow_invalid \in BOOLEAN
       /\ decoding.begin \in 0 .. Size /\ DOMAIN best = 0 .. Size
       /\ \A p \in 0 .. Size :
            Keeps(best[p], Tried(canonical, decoding.allow_invalid, p, decoding.begin),
                  decoding.gap_logits)

\* The invariant says what PathsAreBest says, and more.
LEMMA PathsInvShows == PathsInv => PathsAreBest
<1> SUFFICES ASSUME PathsInv, Decoding,
                    NEW p \in 0 .. decoding.begin
             PROVE  LET routes == Routes(canonical, decoding.allow_invalid)
                    IN  IF routes[p] = {} THEN ~best[p].reachable
                        ELSE /\ best[p].reachable /\ best[p].edges \in routes[p]
                             /\ \A r \in routes[p] : ~Better(decoding.gap_logits, r, best[p].edges)
  BY DEF PathsAreBest, Decoding
<1>1. WellCut(canonical) /\ Size \in Nat
  BY WrittenIsCut, LegalEdgesIn DEF PathsInv, Size
<1>2. decoding.begin \in 0 .. Size /\ p \in 0 .. Size
  BY <1>1 DEF PathsInv
<1>3. Keeps(best[p], Tried(canonical, decoding.allow_invalid, p, decoding.begin), decoding.gap_logits)
  BY <1>2 DEF PathsInv
<1>4. Tried(canonical, decoding.allow_invalid, p, decoding.begin)
        = Routes(canonical, decoding.allow_invalid)[p]
  BY <1>1, <1>2, TriedAll DEF Size
<1> QED BY <1>3, <1>4 DEF Keeps

\* A decoding starts with the empty route to the start of the input.
LEMMA DecodeStarts ==
  ASSUME NEW which, NEW chars \in Seq(Norm), Written(chars), NEW logits, IntLogits(logits),
         NEW allow \in BOOLEAN, Decode(which, chars, logits, allow), canonical' = chars
  PROVE  PathsInv'
<1>1. WellCut(chars) /\ Len(chars) \in Nat
  BY WrittenIsCut, LegalEdgesIn
<1>2. /\ decoding' = [gap_logits |-> logits, allow_invalid |-> allow, begin |-> 0]
      /\ best' = [p \in 0 .. Len(chars) |-> IF p = 0 THEN Origin ELSE Unreachable]
  BY DEF Decode
<1>3. Keeps(Origin, {<<>>}, logits)
  <2>1. /\ Origin.reachable /\ Origin.edges = <<>>
        /\ Origin.invalid_char_count = 0 /\ Origin.gap_score = 0
    BY DEF Origin, Unreachable
  <2>2. <<>> \in Seq(Edges)
    OBVIOUS
  <2>3. ~Better(logits, <<>>, <<>>)
    BY <2>2, BetterAsymmetric
  <2> QED BY <2>1, <2>3, ScoreOfNothing, InvalidsOfNothing DEF Keeps
<1>4. Keeps(Unreachable, {}, logits)
  BY DEF Keeps, Unreachable
<1>5. ASSUME NEW p \in 0 .. Len(chars) PROVE Keeps(best'[p], Tried(chars, allow, p, 0), logits)
  <2>1. Tried(chars, allow, p, 0) = IF p = 0 THEN {<<>>} ELSE {}
    BY <1>1, TriedFirst
  <2>2. best'[p] = IF p = 0 THEN Origin ELSE Unreachable
    BY <1>2
  <2> QED BY <1>3, <1>4, <2>1, <2>2
<1>6. /\ decoding'.gap_logits = logits /\ decoding'.allow_invalid = allow /\ decoding'.begin = 0
      /\ DOMAIN best' = 0 .. Len(chars)
  BY <1>2
<1>7. Size' = Len(chars)
  BY DEF Size
<1> QED BY <1>1, <1>2, <1>5, <1>6, <1>7 DEF PathsInv

\* A round of the Viterbi keeps the invariant.
LEMMA PositionTried ==
  ASSUME PathsInv, decode_gap_viterbi
  PROVE  PathsInv'
<1> DEFINE b == decoding.begin
           n == Len(canonical)
           allow == decoding.allow_invalid
           logits == decoding.gap_logits
           old == best[b]
           from == Routes(canonical, allow)[b]
           matched == [p \in DOMAIN best |->
                         IF p \in match_lengths(b)
                         THEN append_candidate(old, Edge(b, p, FALSE), best[p]) ELSE best[p]]
<1>1. /\ WellCut(canonical) /\ n \in Nat /\ b \in 0 .. n - 1 /\ Decoding
      /\ IntLogits(logits) /\ allow \in BOOLEAN /\ DOMAIN best = 0 .. n
      /\ \A p \in 0 .. n : Keeps(best[p], Tried(canonical, allow, p, b), logits)
  <2>1. WellCut(canonical) /\ n \in Nat
    BY WrittenIsCut, LegalEdgesIn DEF PathsInv
  <2> QED BY <2>1 DEF PathsInv, decode_gap_viterbi, Decoding, Size
<1>2. /\ DOMAIN best' = 0 .. n
      /\ \A p \in 0 .. n :
           best'[p] = IF allow /\ p \in CharEnds(canonical, b)
                      THEN append_candidate(old, Edge(b, p, TRUE), matched[p]) ELSE matched[p]
      /\ decoding' = [decoding EXCEPT !.begin = b + 1]
      /\ canonical' = canonical /\ stage' = stage
  BY <1>1 DEF decode_gap_viterbi
<1>3. \A p \in 0 .. n : matched[p] = IF p \in match_lengths(b)
                                     THEN append_candidate(old, Edge(b, p, FALSE), best[p])
                                     ELSE best[p]
  BY <1>1
<1>4. decoding' = [gap_logits |-> logits, allow_invalid |-> allow, begin |-> b + 1]
  BY <1>1, <1>2 DEF PathsInv
<1>5. from \in SUBSET Seq(Edges) /\ Keeps(old, from, logits)
  <2>1. b \in 0 .. n
    BY <1>1
  <2>2. Tried(canonical, allow, b, b) = from
    BY <1>1, <2>1, TriedAll
  <2>3. Keeps(old, Tried(canonical, allow, b, b), logits)
    BY <1>1, <2>1
  <2> QED BY <1>1, <2>1, <2>2, <2>3, RoutesTyped
<1> HIDE DEF matched
<1>6. ASSUME NEW p \in 0 .. n PROVE Keeps(best'[p], Tried(canonical, allow, p, b + 1), logits)
  <2> DEFINE tried == Tried(canonical, allow, p, b)
             word == Edge(b, p, FALSE)
             char == Edge(b, p, TRUE)
             words == IF p \in match_lengths(b) THEN {Append(r, word) : r \in from} ELSE {}
             chars == IF allow /\ p \in CharEnds(canonical, b)
                      THEN {Append(r, char) : r \in from} ELSE {}
  <2>1. tried \in SUBSET Seq(Edges) /\ Keeps(best[p], tried, logits)
    BY <1>1, RoutesTyped DEF Tried
  <2>2. Keeps(matched[p], tried \cup words, logits)
    <3>1. CASE p \in match_lengths(b)
      <4>1. p \in b + 1 .. n
        BY <1>1, <3>1, MatchesAreLegal DEF Size, WordBetween
      <4>2. b \in Nat /\ p \in Nat /\ b < p
        BY <1>1, <4>1
      <4>3. word \in Edges
        BY <4>2, EdgeInEdges
      <4> HIDE DEF word, tried, old, from, logits
      <4>4. Keeps(append_candidate(old, word, best[p]), tried \cup {Append(r, word) : r \in from}, logits)
        <5>1. decoding.gap_logits = logits
          BY DEF logits
        <5> QED BY <1>1, <1>5, <2>1, <4>3, <5>1, TriedEdge
      <4>5. matched[p] = append_candidate(old, word, best[p])
        BY <1>3, <3>1 DEF word
      <4> QED BY <3>1, <4>4, <4>5
    <3>2. CASE p \notin match_lengths(b)
      <4>1. words = {} /\ matched[p] = best[p]
        BY <1>3, <3>2
      <4> HIDE DEF words, tried
      <4> QED BY <2>1, <4>1
    <3> QED BY <3>1, <3>2
  <2>3. words \in SUBSET Seq(Edges)
    <3>1. CASE p \in match_lengths(b)
      <4>1. p \in b + 1 .. n
        BY <1>1, <3>1, MatchesAreLegal DEF Size, WordBetween
      <4>2. b \in Nat /\ p \in Nat /\ b < p
        BY <1>1, <4>1
      <4>3. word \in Edges
        BY <4>2, EdgeInEdges
      <4> HIDE DEF word, from
      <4> QED BY <1>5, <3>1, <4>3
    <3> QED BY <3>1
  <2>4. Keeps(best'[p], (tried \cup words) \cup chars, logits)
    <3>1. CASE allow /\ p \in CharEnds(canonical, b)
      <4>1. p \in b + 1 .. n
        BY <1>1, <3>1 DEF WellCut
      <4>2. b \in Nat /\ p \in Nat /\ b < p
        BY <1>1, <4>1
      <4>3. char \in Edges
        BY <4>2, EdgeInEdges
      <4> HIDE DEF char, words, tried, old, from, logits
      <4>4. Keeps(append_candidate(old, char, matched[p]),
                  (tried \cup words) \cup {Append(r, char) : r \in from}, logits)
        <5>1. decoding.gap_logits = logits /\ tried \cup words \in SUBSET Seq(Edges)
          BY <2>1, <2>3 DEF logits
        <5> QED BY <1>1, <1>5, <2>2, <4>3, <5>1, TriedEdge
      <4>5. best'[p] = append_candidate(old, char, matched[p])
        BY <1>2, <3>1 DEF char
      <4> QED BY <3>1, <4>4, <4>5
    <3>2. CASE ~(allow /\ p \in CharEnds(canonical, b))
      <4>1. chars = {} /\ best'[p] = matched[p]
        BY <1>2, <3>2
      <4> HIDE DEF chars, words, tried
      <4> QED BY <2>2, <4>1
    <3> QED BY <3>1, <3>2
  <2>5. chars \in SUBSET Seq(Edges)
    <3>1. CASE allow /\ p \in CharEnds(canonical, b)
      <4>1. p \in b + 1 .. n
        BY <1>1, <3>1 DEF WellCut
      <4>2. b \in Nat /\ p \in Nat /\ b < p
        BY <1>1, <4>1
      <4>3. char \in Edges
        BY <4>2, EdgeInEdges
      <4> HIDE DEF char, from
      <4> QED BY <1>5, <3>1, <4>3
    <3> QED BY <3>1
  <2>6. (tried \cup words) \cup chars = Tried(canonical, allow, p, b + 1)
    <3>1. ASSUME NEW e
          PROVE  (e \in LegalEdges(canonical, allow) /\ e.begin = b /\ e.end = p) <=>
                   \/ p \in match_lengths(b) /\ e = word
                   \/ allow /\ p \in CharEnds(canonical, b) /\ e = char
      <4>1. p \in match_lengths(b) <=> WordBetween(canonical, b, p)
        <5>1. b \in 0 .. Size - 1
          BY <1>1 DEF Size
        <5> HIDE DEF b, n, allow
        <5> QED BY <1>1, <5>1, MatchesAreLegal
      <4>2. e \in LegalEdges(canonical, allow) <=>
              /\ e.begin \in 0 .. n - 1
              /\ \/ WordBetween(canonical, e.begin, e.end) /\ e = Edge(e.begin, e.end, FALSE)
                 \/ allow /\ e.end \in CharEnds(canonical, e.begin) /\ e = Edge(e.begin, e.end, TRUE)
        <5> HIDE DEF allow
        <5> QED BY <1>1, EdgesAre
      <4>3. word.begin = b /\ word.end = p /\ char.begin = b /\ char.end = p
        BY DEF Edge
      <4>4. b \in 0 .. n - 1
        BY <1>1
      <4>5. ASSUME e.begin = b, e.end = p
            PROVE  e \in LegalEdges(canonical, allow) <=>
                     \/ p \in match_lengths(b) /\ e = word
                     \/ allow /\ p \in CharEnds(canonical, b) /\ e = char
        <5> HIDE DEF b, allow, n
        <5> QED BY <4>1, <4>2, <4>4, <4>5
      <4> HIDE DEF word, char, b, allow, n
      <4> QED BY <4>3, <4>5
    <3>2. words \cup chars = Added(canonical, allow, p, b)
      <4>1. \A r : r \in words <=> p \in match_lengths(b) /\ \E q \in from : r = Append(q, word)
        OBVIOUS
      <4>2. \A r : r \in chars <=> /\ allow /\ p \in CharEnds(canonical, b)
                                   /\ \E q \in from : r = Append(q, char)
        OBVIOUS
      <4>3. words \cup chars \subseteq Seq(Edges)
        BY <2>3, <2>5
      <4>4. \A r : r \in Added(canonical, allow, p, b) <=>
                     /\ r \in Seq(Edges)
                     /\ \E e \in LegalEdges(canonical, allow) :
                          e.begin = b /\ e.end = p /\ \E q \in from : r = Append(q, e)
        BY DEF Added
      <4> HIDE DEF words, chars, word, char, from
      <4>5. ASSUME NEW r \in words \cup chars PROVE r \in Added(canonical, allow, p, b)
        BY <3>1, <4>1, <4>2, <4>3, <4>4, <4>5
      <4>6. ASSUME NEW r \in Added(canonical, allow, p, b) PROVE r \in words \cup chars
        BY <3>1, <4>1, <4>2, <4>4, <4>6
      <4> QED BY <4>5, <4>6
    <3>3. Tried(canonical, allow, p, b + 1) = tried \cup Added(canonical, allow, p, b)
      <4> HIDE DEF b, allow
      <4> QED BY <1>1, TriedNext
    <3> HIDE DEF words, chars, tried
    <3> QED BY <3>2, <3>3
  <2> HIDE DEF words, chars, tried
  <2> QED BY <2>4, <2>6
<1>7. /\ decoding'.gap_logits = logits /\ decoding'.allow_invalid = allow
      /\ decoding'.begin = b + 1 /\ b + 1 \in 0 .. n
  BY <1>1, <1>4
<1>8. Size' = n
  BY <1>2 DEF Size
<1>9. canonical' \in Seq(Norm) /\ Written(canonical')
  BY <1>2 DEF PathsInv
<1> HIDE DEF b, n, logits, allow, old, from
<1> QED BY <1>1, <1>2, <1>4, <1>6, <1>7, <1>8, <1>9 DEF PathsInv

\* Without logits every gap scores 0.
LEMMA ZerosAreInts ==
  ASSUME NEW chars
  PROVE  IntLogits(Zeros(chars))
BY DEF IntLogits, Zeros

\* A decoding that starts has the invariant.
LEMMA ScoredStarts ==
  ASSUME NEW chars \in Seq(Norm), Written(chars), NEW allow \in BOOLEAN,
         ScoredDecode(chars, allow), canonical' = chars
  PROVE  PathsInv'
<1>1. CASE \E logits \in [1 .. Len(chars) - 1 -> Logits] : Decode("decode", chars, logits, allow)
  <2>1. PICK logits \in [1 .. Len(chars) - 1 -> Logits] : Decode("decode", chars, logits, allow)
    BY <1>1
  <2>2. IntLogits(logits)
    BY InputConfig DEF IntLogits
  <2> QED BY <2>1, <2>2, DecodeStarts
<1>2. CASE Answer("ModelError", NoAnswer)
  BY <1>2 DEF Answer, PathsInv, Decoding
<1> QED BY <1>1, <1>2 DEF ScoredDecode

\* No decoding is in progress at first.
LEMMA PathsInvInit == Init => PathsInv
<1>1. <<>> \in Seq(Norm) /\ Len(<<>>) = 0
  OBVIOUS
<1> QED BY <1>1 DEF Init, PathsInv, Decoding, Written

\* Every step keeps the invariant.
LEMMA PathsInvNext == PathsInv /\ [Next]_vars => PathsInv'
<1> SUFFICES ASSUME PathsInv, [Next]_vars PROVE PathsInv'
  OBVIOUS
<1>1. CASE segment_pinyin
  <2>1. PICK input \in Inputs, mode \in {"strict", "safe"} :
          LET chars == normalize_pinyin(input)
          IN  /\ canonical' = chars
              /\ IF chars = <<>> THEN Answer("InvalidPinyin", NoAnswer)
                 ELSE IF Len(chars) > MaxChars THEN Answer("PinyinLimitExceeded", NoAnswer)
                 ELSE IF mode = "strict"
                 THEN Decode("validate", chars, Zeros(chars), FALSE)
                 ELSE IF CanScore(chars) THEN ScoredDecode(chars, TRUE)
                 ELSE Decode("decode", chars, Zeros(chars), TRUE)
    BY <1>1 DEF segment_pinyin
  <2> DEFINE chars == normalize_pinyin(input)
  <2>2. chars \in Seq(Norm) /\ Written(chars)
    BY InputConfig, NormalizedIsWritten
  <2>3. \/ Answer("InvalidPinyin", NoAnswer) \/ Answer("PinyinLimitExceeded", NoAnswer)
        \/ Decode("validate", chars, Zeros(chars), FALSE)
        \/ Decode("decode", chars, Zeros(chars), TRUE)
        \/ ScoredDecode(chars, TRUE)
    BY <2>1
  <2>4. canonical' = chars
    BY <2>1
  <2> HIDE DEF chars
  <2>5. CASE Answer("InvalidPinyin", NoAnswer) \/ Answer("PinyinLimitExceeded", NoAnswer)
    BY <2>2, <2>4, <2>5 DEF Answer, PathsInv, Decoding
  <2>6. CASE Decode("validate", chars, Zeros(chars), FALSE)
    BY <2>2, <2>4, <2>6, DecodeStarts, ZerosAreInts
  <2>7. CASE Decode("decode", chars, Zeros(chars), TRUE)
    BY <2>2, <2>4, <2>7, DecodeStarts, ZerosAreInts
  <2>8. CASE ScoredDecode(chars, TRUE)
    BY <2>2, <2>4, <2>8, ScoredStarts
  <2> QED BY <2>3, <2>5, <2>6, <2>7, <2>8
<1>2. CASE decode_gap_viterbi
  BY <1>2, PositionTried
<1>3. CASE strict_validated
  <2>1. canonical \in Seq(Norm) /\ Written(canonical) /\ canonical' = canonical
    BY <1>3 DEF PathsInv, strict_validated
  <2>2. \/ Decode("diagnose", canonical, Zeros(canonical), TRUE)
        \/ ScoredDecode(canonical, FALSE)
        \/ AnswerPath(best[Size], FALSE)
    BY <1>3 DEF strict_validated
  <2>3. CASE Decode("diagnose", canonical, Zeros(canonical), TRUE)
    BY <2>1, <2>3, DecodeStarts, ZerosAreInts
  <2>4. CASE ScoredDecode(canonical, FALSE)
    BY <2>1, <2>4, ScoredStarts
  <2>5. CASE AnswerPath(best[Size], FALSE)
    BY <2>1, <2>5 DEF AnswerPath, Answer, PathsInv, Decoding
  <2> QED BY <2>2, <2>3, <2>4, <2>5
<1>4. CASE decoded
  BY <1>4 DEF decoded, AnswerPath, Answer, PathsInv, Decoding
<1>5. CASE call_returns
  <2>1. <<>> \in Seq(Norm) /\ Len(<<>>) = 0
    OBVIOUS
  <2> QED BY <1>5, <2>1 DEF call_returns, PathsInv, Decoding, Written
<1>6. CASE UNCHANGED vars
  <2>1. Size' = Size /\ Decoding' = Decoding
    BY <1>6 DEF vars, Size, Decoding
  <2> QED BY <1>6, <2>1 DEF vars, PathsInv
<1> QED BY <1>1, <1>2, <1>3, <1>4, <1>5, <1>6 DEF Next

\* The invariant holds in every state.
LEMMA PathsInvHolds == Spec => []PathsInv
<1>1. Init => PathsInv
  BY PathsInvInit
<1>2. PathsInv /\ [Next]_vars => PathsInv'
  BY PathsInvNext
<1> QED BY <1>1, <1>2, PTL DEF Spec

\* The Viterbi of decode_gap_viterbi is exact for every vocabulary, every input and any
\* integer logits: the path kept at a position is a route to it and no route is better by
\* the order pinyin_segment.hpp states, and a position without a path has no route.
THEOREM PathsAreAlwaysBest == Spec => []PathsAreBest
<1>1. PathsInv => PathsAreBest
  BY PathsInvShows
<1> QED BY <1>1, PathsInvHolds, PTL

-----------------------------------------------------------------------------
(* Legal routes and routes that leave characters over *)

\* The routes of an input are made of its edges.
LEMMA RouteOfEdges ==
  ASSUME NEW chars, WellCut(chars), NEW allow
  PROVE  \A p \in 0 .. Len(chars) : Routes(chars, allow)[p] \subseteq Seq(LegalEdges(chars, allow))
<1> DEFINE n == Len(chars)
           R == Routes(chars, allow)
           E == LegalEdges(chars, allow)
           D == {k \in 0 .. n : \A p \in 0 .. k : R[p] \subseteq Seq(E)}
<1>1. n \in Nat /\ \A e \in E : e.begin \in Nat /\ e.end \in Nat /\ e.begin < e.end
  BY LegalEdgesIn DEF EdgesIn, Edges
<1>2. 0 \in D
  <2>1. R[0] \subseteq Seq(E)
    <3>1. <<>> \in Seq(E)
      OBVIOUS
    <3> HIDE DEF E
    <3> QED BY <3>1, FirstRoute
  <2> HIDE DEF R, E
  <2>2. \A p \in 0 .. 0 : R[p] \subseteq Seq(E)
    BY <2>1
  <2> QED BY <1>1, <2>2
<1>3. ASSUME NEW k \in D, k < n PROVE k + 1 \in D
  <2>1. k \in Nat /\ k + 1 \in 1 .. n /\ k + 1 \in 0 .. n /\ \A p \in 0 .. k : R[p] \subseteq Seq(E)
    BY <1>1, <1>3
  <2>2. ASSUME NEW r \in R[k + 1] PROVE r \in Seq(E)
    <3>1. PICK e \in E : e.end = k + 1 /\ \E q \in R[e.begin] : r = Append(q, e)
      BY <2>1, <2>2, RouteSteps
    <3>2. PICK q \in R[e.begin] : r = Append(q, e)
      BY <3>1
    <3>3. e.begin \in 0 .. k
      BY <1>1, <2>1, <3>1
    <3>4. q \in Seq(E)
      BY <2>1, <3>2, <3>3
    <3> HIDE DEF E
    <3> QED BY <3>2, <3>4
  <2>3. \A p \in 0 .. k + 1 : p \in 0 .. k \/ p = k + 1
    BY <2>1
  <2> HIDE DEF R, E
  <2> QED BY <2>1, <2>2, <2>3
<1>4. D = 0 .. n
  <2>1. D \in SUBSET (0 .. n)
    OBVIOUS
  <2> HIDE DEF D
  <2> QED BY <1>1, <1>2, <1>3, <2>1, ClimbAll
<1>5. ASSUME NEW p \in 0 .. n PROVE R[p] \subseteq Seq(E)
  BY <1>1, <1>4, <1>5
<1> QED BY <1>5

\* Without invalid characters the words are left.
LEMMA FreeEdges ==
  ASSUME NEW chars, WellCut(chars), NEW e
  PROVE  e \in LegalEdges(chars, FALSE) <=> e \in LegalEdges(chars, TRUE) /\ ~e.invalid
<1> DEFINE no == FALSE
           yes == TRUE
<1>0. no \in BOOLEAN /\ ~no /\ yes \in BOOLEAN /\ yes
  OBVIOUS
<1> HIDE DEF no, yes
<1>1. \A b, p : Edge(b, p, TRUE).invalid = TRUE /\ Edge(b, p, FALSE).invalid = FALSE
  BY DEF Edge
<1> DEFINE begins == e.begin \in 0 .. Len(chars) - 1
           word   == WordBetween(chars, e.begin, e.end) /\ e = Edge(e.begin, e.end, FALSE)
           char   == e.end \in CharEnds(chars, e.begin) /\ e = Edge(e.begin, e.end, TRUE)
<1>2. ASSUME NEW allow
      PROVE  e \in LegalEdges(chars, allow) <=> begins /\ (word \/ (allow /\ char))
  BY EdgesAre
<1>3. (word => ~e.invalid) /\ (char => e.invalid)
  BY <1>1
<1> HIDE DEF begins, word, char
<1>4. e \in LegalEdges(chars, no) <=> begins /\ word
  BY <1>0, <1>2
<1>5. e \in LegalEdges(chars, yes) <=> begins /\ (word \/ char)
  BY <1>0, <1>2
<1>6. e \in LegalEdges(chars, no) <=> e \in LegalEdges(chars, yes) /\ ~e.invalid
  BY <1>3, <1>4, <1>5
<1> QED BY <1>6 DEF no, yes

\* The routes without invalid characters are those that leave nothing over.
LEMMA FreeRoutes ==
  ASSUME NEW chars, WellCut(chars)
  PROVE  \A p \in 0 .. Len(chars) : \A r :
           r \in Routes(chars, FALSE)[p] <=> r \in Routes(chars, TRUE)[p] /\ Invalids(r) = 0
<1> DEFINE n == Len(chars)
           no == FALSE
           yes == TRUE
           F == Routes(chars, no)
           R == Routes(chars, yes)
           Same(p) == \A r : r \in F[p] <=> r \in R[p] /\ Invalids(r) = 0
           D == {k \in 0 .. n : \A p \in 0 .. k : Same(p)}
<1>0. \A e : e \in LegalEdges(chars, no) <=> e \in LegalEdges(chars, yes) /\ ~e.invalid
  BY FreeEdges DEF no, yes
<1> HIDE DEF no, yes
<1>1. n \in Nat /\ \A e \in LegalEdges(chars, yes) :
                     e \in Edges /\ e.begin \in Nat /\ e.end \in Nat /\ e.begin < e.end /\ e.invalid \in BOOLEAN
  BY LegalEdgesIn DEF EdgesIn, Edges
<1>2. 0 \in D
  <2>1. F[0] = {<<>>} /\ R[0] = {<<>>}
    BY FirstRoute
  <2> HIDE DEF F, R
  <2>2. Same(0)
    BY <2>1, InvalidsOfNothing
  <2> HIDE DEF Same
  <2>3. \A p \in 0 .. 0 : Same(p)
    BY <2>2
  <2> QED BY <1>1, <2>3
<1>3. ASSUME NEW k \in D, k < n PROVE k + 1 \in D
  <2>1. k \in Nat /\ k + 1 \in 1 .. n /\ k + 1 \in 0 .. n /\ \A p \in 0 .. k : Same(p)
    <3> HIDE DEF Same
    <3> QED BY <1>1, <1>3
  <2>2. ASSUME NEW r \in F[k + 1] PROVE r \in R[k + 1] /\ Invalids(r) = 0
    <3>1. PICK e \in LegalEdges(chars, no) : e.end = k + 1 /\ \E q \in F[e.begin] : r = Append(q, e)
      BY <2>1, <2>2, RouteSteps
    <3>2. PICK q \in F[e.begin] : r = Append(q, e)
      BY <3>1
    <3>3. e \in LegalEdges(chars, yes) /\ ~e.invalid
      BY <1>0
    <3>4. e.begin \in 0 .. k /\ e \in Edges
      BY <1>1, <2>1, <3>1, <3>3
    <3>5. q \in R[e.begin] /\ Invalids(q) = 0
      BY <2>1, <3>2, <3>4
    <3>6. q \in Seq(Edges)
      <4>1. e.begin \in 0 .. n
        BY <1>1, <2>1, <3>4
      <4> QED BY <3>5, <4>1, RoutesTyped
    <3>7. Invalids(r) = 0
      BY <3>2, <3>3, <3>4, <3>5, <3>6, InvalidsAppend
    <3>8. r \in R[k + 1]
      BY <2>1, <3>1, <3>2, <3>3, <3>5, RouteSteps
    <3> QED BY <3>7, <3>8
  <2>3. ASSUME NEW r \in R[k + 1], Invalids(r) = 0 PROVE r \in F[k + 1]
    <3>1. PICK e \in LegalEdges(chars, yes) : e.end = k + 1 /\ \E q \in R[e.begin] : r = Append(q, e)
      <4>1. k + 1 \in 1 .. n /\ r \in R[k + 1]
        BY <2>1
      <4> QED BY ONLY WellCut(chars), <4>1, RouteSteps
    <3>2. PICK q \in R[e.begin] : r = Append(q, e)
      BY <3>1
    <3>4. e.begin \in 0 .. k /\ e \in Edges /\ e.invalid \in BOOLEAN
      BY <1>1, <2>1, <3>1
    <3>6. q \in Seq(Edges)
      <4>1. e.begin \in 0 .. n
        BY <1>1, <2>1, <3>4
      <4> QED BY <3>2, <4>1, RoutesTyped
    <3>7. Invalids(q) = 0 /\ ~e.invalid
      <4>1. Invalids(q) \in Nat /\ Invalids(r) = Invalids(q) + IF e.invalid THEN 1 ELSE 0
        BY <3>2, <3>4, <3>6, InvalidsAppend
      <4> QED BY <2>3, <3>4, <4>1
    <3>8. e \in LegalEdges(chars, no)
      BY <1>0, <3>7
    <3>9. q \in F[e.begin]
      BY <2>1, <3>2, <3>4, <3>7
    <3> QED BY <2>1, <3>1, <3>2, <3>8, <3>9, RouteSteps
  <2>4. \A p \in 0 .. k + 1 : p \in 0 .. k \/ p = k + 1
    BY <2>1
  <2> HIDE DEF R, F
  <2>5. Same(k + 1)
    BY <2>2, <2>3
  <2> HIDE DEF Same
  <2> QED BY <2>1, <2>4, <2>5
<1>4. D = 0 .. n
  <2>1. D \in SUBSET (0 .. n)
    OBVIOUS
  <2> HIDE DEF D
  <2> QED BY <1>1, <1>2, <1>3, <2>1, ClimbAll
<1>5. ASSUME NEW p \in 0 .. n PROVE Same(p)
  <2> HIDE DEF Same
  <2> QED BY <1>1, <1>4, <1>5
<1> QED BY <1>5 DEF no, yes

\* The bytes of one character stand next to each other.
LEMMA WholeBytes ==
  ASSUME NEW chars \in Seq(Norm), Written(chars), NEW i \in 1 .. Len(chars)
  PROVE  /\ chars[i].byte <= Width(chars[i].char)
         /\ \A j \in 1 .. Width(chars[i].char) :
              /\ i - chars[i].byte + j \in 1 .. Len(chars)
              /\ chars[i - chars[i].byte + j].char = chars[i].char
              /\ chars[i - chars[i].byte + j].byte = j
              /\ chars[i - chars[i].byte + j].from = chars[i].from - chars[i].byte + j
BY DEF Written, Whole, IsByte

\* Where a character starts, or the input ends.
Cut(chars, p) == p = Len(chars) \/ chars[p + 1].byte = 1

\* Every character can be left over: there is a route to wherever one starts.
LEMMA CutsAreReached ==
  ASSUME NEW chars \in Seq(Norm), Written(chars), NEW allow, allow
  PROVE  \A p \in 0 .. Len(chars) : Cut(chars, p) => Routes(chars, allow)[p] # {}
<1> DEFINE n == Len(chars)
           R == Routes(chars, allow)
           Good(p) == Cut(chars, p) => R[p] # {}
           D == {k \in 0 .. n : \A p \in 0 .. k : Good(p)}
<1>1. WellCut(chars) /\ n \in Nat
  BY WrittenIsCut, NormParts
<1>2. 0 \in D
  <2>1. Good(0)
    BY <1>1, FirstRoute
  <2> HIDE DEF Good
  <2>2. \A p \in 0 .. 0 : Good(p)
    BY <2>1
  <2> QED BY <1>1, <2>2
<1>3. ASSUME NEW k \in D, k < n PROVE k + 1 \in D
  <2>1. k \in Nat /\ k + 1 \in 1 .. n /\ \A p \in 0 .. k : Good(p)
    <3> HIDE DEF Good
    <3> QED BY <1>1, <1>3
  <2>2. ASSUME Cut(chars, k + 1) PROVE R[k + 1] # {}
    <3> DEFINE i == k + 1
               c == chars[i]
               w == Width(c.char)
               b == i - c.byte
               e == Edge(b, k + 1, TRUE)
    <3>1. /\ c.char \in Nat /\ c.byte \in 1 .. 4 /\ w \in 1 .. 4 /\ c.byte <= w
          /\ \A j \in 1 .. w : /\ b + j \in 1 .. n
                               /\ chars[b + j].char = c.char /\ chars[b + j].byte = j
      <4>1. i \in 1 .. Len(chars)
        BY <2>1
      <4> HIDE DEF i
      <4>2. c.char \in Nat /\ c.byte \in 1 .. 4
        BY <4>1, NormParts
      <4>3. w \in 1 .. 4
        BY <4>2, Widths
      <4> QED BY <4>1, <4>2, <4>3, WholeBytes
    <3> HIDE DEF c, w, b
    <3>2. b \in Int /\ b + c.byte = k + 1
      <4>1. c.byte \in Int /\ k \in Int
        BY <2>1, <3>1
      <4> QED BY <4>1 DEF b
    <3>3. b \in 0 .. k /\ b + 1 \in 1 .. n /\ chars[b + 1].byte = 1 /\ chars[b + 1].char = c.char
      <4>1. 1 \in 1 .. w
        BY <3>1
      <4>2. b + 1 \in 1 .. n /\ chars[b + 1].char = c.char /\ chars[b + 1].byte = 1
        BY <3>1, <4>1
      <4> QED BY <2>1, <3>1, <3>2, <4>2
    <3>4. c.byte = w
      <4>1. SUFFICES ASSUME c.byte < w PROVE FALSE
        BY <3>1
      <4>2. c.byte + 1 \in 1 .. w
        <5>1. c.byte \in Nat /\ w \in Nat
          BY ONLY <3>1
        <5> QED BY ONLY <4>1, <5>1
      <4>3. b + (c.byte + 1) \in 1 .. n /\ chars[b + (c.byte + 1)].byte = c.byte + 1
        <5> DEFINE j == c.byte + 1
        <5> HIDE DEF j
        <5>1. j \in 1 .. w
          BY ONLY <4>2 DEF j
        <5>2. b + j \in 1 .. n /\ chars[b + j].byte = j
          BY ONLY <3>1, <5>1
        <5> QED BY ONLY <5>2 DEF j
      <4>4. b + (c.byte + 1) = k + 2
        <5>1. c.byte \in Int /\ k \in Int
          BY <2>1, <3>1
        <5> QED BY ONLY <3>2, <5>1
      <4>5. k + 1 # n /\ chars[k + 1 + 1].byte # 1
        BY <2>1, <3>1, <4>3, <4>4
      <4> QED BY <2>2, <4>5 DEF Cut
    <3>5. k + 1 \in CharEnds(chars, b)
      <4>1. b + w = k + 1
        BY <3>2, <3>4
      <4> QED BY <3>3, <4>1 DEF CharEnds, w
    <3>6. e.begin = b /\ e.end = k + 1 /\ e = Edge(e.begin, e.end, TRUE)
      BY DEF Edge
    <3>7. e \in LegalEdges(chars, allow)
      <4>1. b \in 0 .. n - 1
        BY <2>1, <3>3
      <4> HIDE DEF e
      <4> QED BY <1>1, <3>5, <3>6, <4>1, EdgesAre
    <3>8. PICK q : q \in R[b]
      <4>1. Cut(chars, b)
        BY <3>3 DEF Cut
      <4> HIDE DEF R
      <4> QED BY <2>1, <3>3, <4>1
    <3> HIDE DEF e
    <3>9. Append(q, e) \in R[k + 1]
      <4>1. \E d \in LegalEdges(chars, allow) :
              d.end = k + 1 /\ \E s \in R[d.begin] : Append(q, e) = Append(s, d)
        BY <3>6, <3>7, <3>8
      <4> QED BY <1>1, <2>1, <4>1, RouteSteps
    <3> QED BY <3>9
  <2>3. \A p \in 0 .. k + 1 : p \in 0 .. k \/ p = k + 1
    BY <2>1
  <2> HIDE DEF R
  <2>4. Good(k + 1)
    BY <2>2
  <2> HIDE DEF Good
  <2> QED BY <2>1, <2>3, <2>4
<1>4. D = 0 .. n
  <2>1. D \in SUBSET (0 .. n)
    OBVIOUS
  <2> HIDE DEF D
  <2> QED BY <1>1, <1>2, <1>3, <2>1, ClimbAll
<1>5. ASSUME NEW p \in 0 .. n PROVE Good(p)
  <2> HIDE DEF Good
  <2> QED BY <1>1, <1>4, <1>5
<1> QED BY <1>5

\* A route without invalid characters has none at any place.
LEMMA NoInvalids ==
  ASSUME NEW r \in Seq(Edges)
  PROVE  Invalids(r) = 0 <=> \A i \in 1 .. Len(r) : ~r[i].invalid
<1> DEFINE S == {i \in DOMAIN r : r[i].invalid}
<1>1. IsFiniteSet(S) /\ DOMAIN r = 1 .. Len(r)
  <2>1. DOMAIN r = 1 .. Len(r) /\ Len(r) \in Nat
    OBVIOUS
  <2>2. IsFiniteSet(1 .. Len(r)) /\ S \subseteq 1 .. Len(r)
    BY <2>1, FS_Interval
  <2> QED BY <2>1, <2>2, FS_Subset
<1>2. Cardinality(S) = 0 <=> S = {}
  <2> HIDE DEF S
  <2> QED BY <1>1, FS_EmptySet
<1>3. S = {} <=> \A i \in 1 .. Len(r) : ~r[i].invalid
  BY <1>1
<1> HIDE DEF S
<1>4. Invalids(r) = Cardinality(S)
  BY DEF Invalids, S
<1> QED BY <1>2, <1>3, <1>4

-----------------------------------------------------------------------------
(* The answer of a path *)

Tokens == {Word(canonical, e.begin, e.end) : e \in Edges}

Answers == [segments       : Seq(Tokens \cup {find_pinyin_id_nearest(t) : t \in Tokens}),
            invalid_ranges : Seq([begin : Nat, end : Nat])]

\* An invalid edge answers a range.
LEMMA RangesGrow ==
  ASSUME canonical \in Seq(Norm), NEW ranges \in Seq([begin : Nat, end : Nat]),
         NEW e \in EdgesIn(Size)
  PROVE  /\ append_invalid(ranges, e) \in Seq([begin : Nat, end : Nat])
         /\ append_invalid(ranges, e) # <<>>
<1> DEFINE Span == [begin : Nat, end : Nat]
<1>1. SourceBegin(e) \in Nat /\ SourceEnd(e) \in Nat
  <2>1. e.begin + 1 \in 1 .. Size /\ e.end \in 1 .. Size
    <3>1. e.begin \in Nat /\ e.end \in Nat /\ e.begin < e.end /\ e.end <= Size /\ Size \in Nat
      BY NormParts DEF EdgesIn, Edges, Size
    <3> QED BY <3>1
  <2>2. canonical[e.begin + 1].from \in Nat /\ canonical[e.end].from \in Nat
    BY <2>1, NormParts DEF Size
  <2> QED BY <2>2 DEF SourceBegin, SourceEnd
<1>2. /\ Len(ranges) \in Nat /\ DOMAIN ranges = 1 .. Len(ranges)
      /\ ranges # <<>> => Len(ranges) \in 1 .. Len(ranges)
      /\ \A i \in 1 .. Len(ranges) : ranges[i] \in Span
  <2> HIDE DEF Span
  <2>1. Len(ranges) \in Nat /\ DOMAIN ranges = 1 .. Len(ranges) /\ ranges \in Seq(Span)
    BY DEF Span
  <2>2. \A i \in 1 .. Len(ranges) : ranges[i] \in Span
    BY <2>1
  <2>3. ranges # <<>> => Len(ranges) # 0
    BY <2>1
  <2> QED BY <2>1, <2>2, <2>3
<1>3. CASE ranges # <<>> /\ Last(ranges).end = SourceBegin(e)
  <2> DEFINE n == Len(ranges)
             last == [ranges[n] EXCEPT !.end = SourceEnd(e)]
             joined == [ranges EXCEPT ![n] = last]
  <2>1. append_invalid(ranges, e) = joined
    BY <1>3 DEF append_invalid
  <2>2. ranges[n] \in Span /\ n \in 1 .. n /\ n \in Nat
    BY <1>2, <1>3
  <2>3. last \in Span
    BY <1>1, <2>2
  <2> HIDE DEF last
  <2>4. joined \in Seq(Span) /\ Len(joined) = n
    BY <2>2, <2>3
  <2>5. joined # <<>>
    BY <2>2, <2>4
  <2> QED BY <2>1, <2>4, <2>5
<1>4. CASE ~(ranges # <<>> /\ Last(ranges).end = SourceBegin(e))
  <2> DEFINE span == [begin |-> SourceBegin(e), end |-> SourceEnd(e)]
  <2>1. append_invalid(ranges, e) = Append(ranges, span)
    BY <1>4 DEF append_invalid
  <2>2. span \in Span
    BY <1>1
  <2> HIDE DEF span
  <2> QED BY <2>1, <2>2
<1> QED BY <1>3, <1>4

\* An invalid edge answers a range, any other a segment and no range.
LEMMA EdgeAnswered ==
  ASSUME canonical \in Seq(Norm), NEW acc \in Answers, NEW e \in EdgesIn(Size)
  PROVE  /\ AddEdge(acc, e) \in Answers
         /\ e.invalid => AddEdge(acc, e).invalid_ranges # <<>>
         /\ ~e.invalid => /\ AddEdge(acc, e).invalid_ranges = acc.invalid_ranges
                          /\ Len(AddEdge(acc, e).segments) = Len(acc.segments) + 1
<1> DEFINE token == Word(canonical, e.begin, e.end)
           near == find_pinyin_id_nearest(token)
           All == Tokens \cup {find_pinyin_id_nearest(t) : t \in Tokens}
<1>1. token \in All /\ near \in All
  <2>1. e \in Edges
    BY DEF EdgesIn
  <2> QED BY <2>1 DEF Tokens
<1>2. /\ acc = [segments |-> acc.segments, invalid_ranges |-> acc.invalid_ranges]
      /\ acc.segments \in Seq(All) /\ acc.invalid_ranges \in Seq([begin : Nat, end : Nat])
  BY DEF Answers
<1> HIDE DEF All, token, near
<1>3. CASE ~e.invalid
  <2>1. AddEdge(acc, e) = [segments |-> Append(acc.segments, token), invalid_ranges |-> acc.invalid_ranges]
    BY <1>2, <1>3 DEF AddEdge, token
  <2>2. Append(acc.segments, token) \in Seq(All) /\ Len(Append(acc.segments, token)) = Len(acc.segments) + 1
    BY <1>1, <1>2
  <2> QED BY <1>2, <1>3, <2>1, <2>2 DEF Answers, All
<1>4. CASE e.invalid
  <2> DEFINE segments == IF Repairs THEN Append(acc.segments, near) ELSE acc.segments
             ranges == append_invalid(acc.invalid_ranges, e)
  <2>1. AddEdge(acc, e) = [segments |-> segments, invalid_ranges |-> ranges]
    BY <1>4 DEF AddEdge, token, near
  <2>2. segments \in Seq(All)
    BY <1>1, <1>2
  <2>3. ranges \in Seq([begin : Nat, end : Nat]) /\ ranges # <<>>
    BY <1>2, RangesGrow
  <2> HIDE DEF segments, ranges
  <2> QED BY <1>4, <2>1, <2>2, <2>3 DEF Answers, All
<1> QED BY <1>3, <1>4

\* The answer to a path is that of its edges, one after another.
LEMMA PathAnswered ==
  ASSUME canonical \in Seq(Norm), NEW edges \in Seq(EdgesIn(Size))
  PROVE  \E f : /\ f[0] = NoAnswer /\ AddEdges(edges) = f[Len(edges)]
                /\ \A i \in 1 .. Len(edges) : f[i] = AddEdge(f[i - 1], edges[i])
                /\ \A i \in 0 .. Len(edges) : f[i] \in Answers
<1> DEFINE n == Len(edges)
           next(f, i) == IF i = 0 THEN NoAnswer ELSE AddEdge(f[i - 1], edges[i])
           after == CHOOSE f : f = [i \in 0 .. n |-> next(f, i)]
           step == [i \in 1 .. n |-> [acc \in Answers |-> AddEdge(acc, edges[i])]]
<1>0. n \in Nat /\ \A i \in 1 .. n : edges[i] \in EdgesIn(Size)
  OBVIOUS
<1>1. NoAnswer \in Answers
  BY DEF NoAnswer, Answers
<1> HIDE DEF n
<1>2. step \in Steps(n, Answers)
  BY <1>0, EdgeAnswered DEF Steps
<1>3. PICK f \in [0 .. n -> Answers] : Follows(f, NoAnswer, step, n)
  BY <1>0, <1>1, <1>2, StepwiseFunction
<1>4. f = [i \in 0 .. n |-> next(f, i)]
  <2>1. ASSUME NEW i \in 1 .. n PROVE f[i] = AddEdge(f[i - 1], edges[i])
    <3>1. i - 1 \in 0 .. n /\ f[i - 1] \in Answers
      BY <1>0
    <3>2. f[i] = step[i][f[i - 1]]
      BY <1>3 DEF Follows
    <3> QED BY <3>1, <3>2
  <2>2. f[0] = NoAnswer
    BY <1>3 DEF Follows
  <2>3. \A i \in 0 .. n : f[i] = next(f, i)
    <3> HIDE DEF step
    <3> QED BY <1>0, <2>1, <2>2
  <2> HIDE DEF next
  <2> QED BY <2>3
<1>5. after = [i \in 0 .. n |-> next(after, i)]
  <2> HIDE DEF next
  <2> QED BY <1>4
<1>6. AddEdges(edges) = after[n]
  BY DEF AddEdges, after, n
<1> HIDE DEF after
<1>7. after[0] = NoAnswer /\ \A i \in 1 .. n : after[i] = AddEdge(after[i - 1], edges[i])
  BY <1>0, <1>5
<1>8. \A i \in 1 .. n : after[i - 1] \in Answers => after[i] \in Answers
  BY <1>0, <1>7, EdgeAnswered
<1>9. \A i \in 0 .. n : after[i] \in Answers
  BY <1>0, <1>1, <1>7, <1>8, StepsStayIn
<1> QED BY <1>6, <1>7, <1>9 DEF n

\* A path without invalid characters answers a segment for each edge, and one with some
\* says where they are.
LEMMA AnswerShows ==
  ASSUME canonical \in Seq(Norm), NEW edges \in Seq(EdgesIn(Size))
  PROVE  /\ AddEdges(edges).invalid_ranges = <<>> <=> Invalids(edges) = 0
         /\ Invalids(edges) = 0 => Len(AddEdges(edges).segments) = Len(edges)
         /\ AddEdges(edges) \in Answers
<1> DEFINE n == Len(edges)
<1>1. PICK f : /\ f[0] = NoAnswer /\ AddEdges(edges) = f[n]
               /\ \A i \in 1 .. n : f[i] = AddEdge(f[i - 1], edges[i])
               /\ \A i \in 0 .. n : f[i] \in Answers
  BY PathAnswered
<1>2. n \in Nat /\ (\A i \in 1 .. n : edges[i] \in EdgesIn(Size)) /\ edges \in Seq(Edges)
  BY DEF EdgesIn
<1> HIDE DEF n
<1>3. ASSUME NEW i \in 1 .. n
      PROVE  /\ edges[i].invalid => f[i].invalid_ranges # <<>>
             /\ ~edges[i].invalid => /\ f[i].invalid_ranges = f[i - 1].invalid_ranges
                                     /\ Len(f[i].segments) = Len(f[i - 1].segments) + 1
  <2>1. i - 1 \in 0 .. n /\ edges[i] \in EdgesIn(Size)
    BY <1>2
  <2>2. f[i - 1] \in Answers /\ f[i] = AddEdge(f[i - 1], edges[i])
    BY <1>1, <2>1
  <2> QED BY <2>1, <2>2, EdgeAnswered
<1>4. f[0].invalid_ranges = <<>> /\ Len(f[0].segments) = 0
  BY <1>1 DEF NoAnswer
<1>5. CASE \A i \in 1 .. n : ~edges[i].invalid
  <2> DEFINE D == {k \in 0 .. n : f[k].invalid_ranges = <<>> /\ Len(f[k].segments) = k}
  <2>1. 0 \in D /\ D \in SUBSET (0 .. n)
    BY <1>2, <1>4
  <2>2. ASSUME NEW k \in D, k < n PROVE k + 1 \in D
    <3>1. k + 1 \in 1 .. n /\ k + 1 - 1 = k /\ k \in Nat
      BY <1>2, <2>2
    <3>2. f[k + 1].invalid_ranges = f[k].invalid_ranges /\ Len(f[k + 1].segments) = Len(f[k].segments) + 1
      <4> DEFINE j == k + 1
      <4>1. j \in 1 .. n /\ ~edges[j].invalid /\ j - 1 = k
        BY <1>5, <3>1
      <4> HIDE DEF j
      <4>2. f[j].invalid_ranges = f[j - 1].invalid_ranges
            /\ Len(f[j].segments) = Len(f[j - 1].segments) + 1
        BY ONLY <1>3, <4>1
      <4> QED BY ONLY <4>1, <4>2 DEF j
    <3>3. k + 1 \in 0 .. n
      BY <1>2, <3>1
    <3> QED BY <3>2, <3>3
  <2>3. n \in D
    <3> HIDE DEF D
    <3> QED BY <1>2, <2>1, <2>2, Climb
  <2>4. Invalids(edges) = 0
    BY <1>2, <1>5, NoInvalids DEF n
  <2>5. n \in 0 .. n
    BY <1>2
  <2> QED BY <1>1, <2>3, <2>4, <2>5 DEF n
<1>6. CASE \E i \in 1 .. n : edges[i].invalid
  <2>1. PICK i \in 1 .. n : edges[i].invalid
    BY <1>6
  <2> DEFINE D == {k \in 0 .. n : k >= i => f[k].invalid_ranges # <<>>}
  <2>2. 0 \in D /\ D \in SUBSET (0 .. n) /\ i \in Nat
    BY <1>2
  <2>3. ASSUME NEW k \in D, k < n PROVE k + 1 \in D
    <3>1. k + 1 \in 1 .. n /\ k + 1 - 1 = k /\ k \in Nat
      BY <1>2, <2>3
    <3>2. CASE k + 1 = i
      BY <1>3, <2>1, <3>1, <3>2
    <3>3. CASE k + 1 # i
      <4>1. k + 1 >= i => k >= i
        BY <2>2, <3>1, <3>3
      <4>2. edges[k + 1].invalid \in BOOLEAN
        BY <1>2, <3>1 DEF EdgesIn, Edges
      <4> QED BY <1>3, <3>1, <4>1, <4>2
    <3> QED BY <3>2, <3>3
  <2>4. n \in D
    <3> HIDE DEF D
    <3> QED BY <1>2, <2>2, <2>3, Climb
  <2>5. Invalids(edges) # 0
    BY <1>2, <2>1, NoInvalids DEF n
  <2>6. n \in 0 .. n /\ n >= i
    BY <1>2
  <2> QED BY <1>1, <2>4, <2>5, <2>6
<1> QED BY <1>5, <1>6

-----------------------------------------------------------------------------
(* Legal inputs and answers *)

\* What is known of the input while it is decoded.
StagesInv ==
  /\ Decoding => canonical # <<>> /\ request.mode \in {"strict", "safe"}
  /\ stage = "validate" => request.mode = "strict" /\ ~decoding.allow_invalid
  /\ stage = "diagnose" => /\ request.mode = "strict" /\ decoding.allow_invalid
                           /\ Routes(canonical, FALSE)[Size] = {}
  /\ stage = "decode" => IF request.mode = "strict"
                         THEN ~decoding.allow_invalid /\ Routes(canonical, FALSE)[Size] # {}
                         ELSE decoding.allow_invalid
  /\ StrictAcceptsExactlyLegal

\* The path to the end of the input, when every position was tried.
LEMMA LastPath ==
  ASSUME PathsInv, Decoding, decoding.begin = Size, canonical # <<>>
  PROVE  LET path == best[Size]
             answer == AddEdges(path.edges)
             legal == Routes(canonical, FALSE)[Size] # {}
         IN  /\ ~decoding.allow_invalid => (path.reachable <=> legal)
             /\ decoding.allow_invalid => path.reachable
             /\ path.reachable => /\ answer \in Answers
                                  /\ answer.invalid_ranges = <<>> <=> legal
                                  /\ answer.invalid_ranges = <<>> => answer.segments # <<>>
<1> DEFINE no == FALSE
           yes == TRUE
           path == best[Size]
           edges == path.edges
           logits == decoding.gap_logits
           answer == AddEdges(edges)
           legal == Routes(canonical, no)[Size] # {}
           routes == Routes(canonical, decoding.allow_invalid)[Size]
<1>1. /\ WellCut(canonical) /\ Size \in Nat /\ Size \in 1 .. Size /\ Size \in 0 .. Size
      /\ canonical \in Seq(Norm) /\ Written(canonical) /\ Size = Len(canonical)
      /\ decoding.allow_invalid \in BOOLEAN /\ IntLogits(logits)
  <2>1. canonical \in Seq(Norm) /\ Written(canonical)
    BY DEF PathsInv
  <2>2. Size \in Nat /\ Size # 0
    BY <2>1 DEF Size
  <2>3. decoding.allow_invalid \in BOOLEAN /\ IntLogits(logits)
    BY DEF PathsInv
  <2> QED BY <2>1, <2>2, <2>3, WrittenIsCut DEF Size
<1>2. IF routes = {} THEN ~path.reachable
      ELSE /\ path.reachable /\ edges \in routes
           /\ \A r \in routes : ~Better(logits, r, edges)
  BY <1>1, PathsInvShows DEF PathsAreBest, Decoding
<1>3. \A r : r \in Routes(canonical, no)[Size] <=> r \in Routes(canonical, yes)[Size] /\ Invalids(r) = 0
  BY <1>1, FreeRoutes
<1>4. Routes(canonical, yes)[Size] # {}
  <2>1. yes /\ Cut(canonical, Size)
    BY <1>1 DEF Cut
  <2> HIDE DEF yes
  <2> QED BY <1>1, <2>1, CutsAreReached
<1>5. decoding.allow_invalid = yes \/ decoding.allow_invalid = no
  BY <1>1
<1>6. ~decoding.allow_invalid <=> decoding.allow_invalid = no
  BY <1>1
<1> HIDE DEF no, yes
<1>7. ASSUME path.reachable
      PROVE  /\ edges \in routes /\ answer \in Answers
             /\ answer.invalid_ranges = <<>> <=> Invalids(edges) = 0
             /\ answer.invalid_ranges = <<>> => answer.segments # <<>>
  <2>1. edges \in routes
    BY <1>2, <1>7
  <2>2. edges \in Seq(EdgesIn(Size))
    <3>1. LegalEdges(canonical, decoding.allow_invalid) \subseteq EdgesIn(Size)
      BY <1>1, LegalEdgesIn DEF Size
    <3>2. edges \in Seq(LegalEdges(canonical, decoding.allow_invalid))
      BY <1>1, <2>1, RouteOfEdges
    <3> HIDE DEF edges
    <3> QED BY <3>1, <3>2
  <2>3. edges # <<>>
    BY <1>1, <2>1, RouteEnds
  <2> HIDE DEF edges, answer
  <2>4. /\ answer.invalid_ranges = <<>> <=> Invalids(edges) = 0
        /\ Invalids(edges) = 0 => Len(answer.segments) = Len(edges)
        /\ answer \in Answers
    BY <1>1, <2>2, AnswerShows DEF answer
  <2>5. Len(edges) # 0
    BY <2>2, <2>3
  <2>6. Len(answer.segments) # 0 => answer.segments # <<>>
    BY <2>4 DEF Answers
  <2> QED BY <2>1, <2>4, <2>5, <2>6
<1> HIDE DEF answer, edges, path, logits
<1>8. CASE decoding.allow_invalid = yes
  <2>1. path.reachable
    BY <1>2, <1>4, <1>8
  <2>2. edges \in Routes(canonical, yes)[Size] /\ edges \in Seq(Edges)
    BY <1>1, <1>7, <1>8, <2>1, RoutesTyped
  <2>3. ASSUME legal PROVE Invalids(edges) = 0
    <3>1. PICK r : r \in Routes(canonical, yes)[Size] /\ Invalids(r) = 0
      BY <1>3, <2>3
    <3>2. ~Better(logits, r, edges)
      BY <1>2, <1>8, <3>1
    <3>3. Invalids(edges) \in Nat
      BY <1>1, <2>2, Measures
    <3> QED BY <3>1, <3>2, <3>3 DEF Better
  <2>4. ASSUME Invalids(edges) = 0 PROVE legal
    BY <1>3, <2>2, <2>4
  <2>5. decoding.allow_invalid
    BY <1>8 DEF yes
  <2> HIDE DEF legal
  <2>6. legal <=> Routes(canonical, FALSE)[Size] # {}
    BY DEF legal, no
  <2> QED BY <1>7, <2>1, <2>3, <2>4, <2>5, <2>6 DEF answer, edges, path
<1>9. CASE decoding.allow_invalid = no
  <2>1. path.reachable <=> legal
    BY <1>2, <1>9
  <2>2. path.reachable => Invalids(edges) = 0
    BY <1>3, <1>7, <1>9
  <2>3. ~decoding.allow_invalid
    BY <1>9 DEF no
  <2> HIDE DEF legal
  <2>6. legal <=> Routes(canonical, FALSE)[Size] # {}
    BY DEF legal, no
  <2> QED BY <1>7, <2>1, <2>2, <2>3, <2>6 DEF answer, edges, path
<1> QED BY <1>5, <1>8, <1>9

\* Without an answer that went through a decoding there is nothing to show.
LEMMA NotDecodedShows ==
  ASSUME stage # "answered" \/ canonical = <<>> \/ result.error \notin {"Ok", "InvalidPinyin"}
  PROVE  StrictAcceptsExactlyLegal
BY DEF StrictAcceptsExactlyLegal, WasDecoded

\* Whatever a decoding ends with agrees with whether the input is legal.
LEMMA PathAnswerShows ==
  ASSUME PathsInv, StagesInv, Decoding, decoding.begin = Size, NEW rejected,
         rejected <=> stage = "diagnose", stage = "validate" => best[Size].reachable,
         AnswerPath(best[Size], rejected), UNCHANGED <<request, canonical>>
  PROVE  StagesInv'
<1> DEFINE path == best[Size]
           answer == AddEdges(path.edges)
           legal == Routes(canonical, FALSE)[Size] # {}
           strict == request.mode = "strict"
           error == IF rejected \/ ~path.reachable \/ answer.segments = <<>>
                    THEN "InvalidPinyin" ELSE "Ok"
           given == IF error = "Ok" THEN answer ELSE [answer EXCEPT !.segments = <<>>]
<1>1. /\ stage' = "answered" /\ request' = request /\ canonical' = canonical
      /\ result' = [error |-> error, segments |-> given.segments,
                    invalid_ranges |-> given.invalid_ranges]
  BY DEF AnswerPath, Answer
<1>2. /\ canonical # <<>> /\ request.mode \in {"strict", "safe"}
      /\ stage = "validate" => strict /\ ~decoding.allow_invalid
      /\ stage = "diagnose" => strict /\ decoding.allow_invalid /\ ~legal
      /\ stage = "decode" => IF strict THEN ~decoding.allow_invalid /\ legal ELSE decoding.allow_invalid
  BY DEF StagesInv
<1>3. /\ ~decoding.allow_invalid => (path.reachable <=> legal)
      /\ decoding.allow_invalid => path.reachable
      /\ path.reachable => /\ answer \in Answers
                           /\ answer.invalid_ranges = <<>> <=> legal
                           /\ answer.invalid_ranges = <<>> => answer.segments # <<>>
  BY <1>2, LastPath
<1>4. stage \in {"validate", "diagnose", "decode"} /\ (stage = "validate" => path.reachable)
  BY DEF Decoding
<1>5. (Routes(canonical, FALSE)[Size] # {})' <=> legal
  BY <1>1 DEF Size
<1> HIDE DEF path, answer, legal
<1>6. path.reachable
  BY <1>2, <1>3, <1>4
<1>7. answer.segments \in Seq(Tokens \cup {find_pinyin_id_nearest(t) : t \in Tokens}) /\ answer \in Answers
  BY <1>3, <1>6 DEF Answers
<1>8. /\ given.invalid_ranges = answer.invalid_ranges
      /\ given.segments = IF error = "Ok" THEN answer.segments ELSE <<>>
  <2>1. answer = [segments |-> answer.segments, invalid_ranges |-> answer.invalid_ranges]
    BY <1>7 DEF Answers
  <2> QED BY <2>1
<1>9. error \in {"Ok", "InvalidPinyin"}
      /\ (error = "Ok" <=> ~rejected /\ answer.segments # <<>>)
  BY <1>6
<1> HIDE DEF error, given
<1>10. strict => (error = "Ok" <=> legal)
  BY <1>2, <1>3, <1>4, <1>6, <1>9
<1>11. ~strict => (error = "Ok" <=> given.segments # <<>>)
  BY <1>2, <1>4, <1>8, <1>9
<1>12. given.invalid_ranges = <<>> <=> legal
  BY <1>3, <1>6, <1>8
<1>13. StrictAcceptsExactlyLegal'
  <2>1. (request.mode = "strict")' <=> strict
    BY <1>1
  <2>2. (request.mode = "safe")' <=> ~strict
    BY <1>1, <1>2
  <2>3. /\ result'.error = error /\ result'.segments = given.segments
        /\ result'.invalid_ranges = given.invalid_ranges
    BY <1>1
  <2> HIDE DEF strict
  <2> QED BY <1>5, <1>10, <1>11, <1>12, <2>1, <2>2, <2>3 DEF StrictAcceptsExactlyLegal
<1> QED BY <1>1, <1>13 DEF StagesInv, Decoding

\* An answer without a decoding: the input is empty or too long, or the scorer failed.
LEMMA PlainAnswerShows ==
  ASSUME NEW error, Answer(error, NoAnswer),
         canonical' = <<>> \/ error \notin {"Ok", "InvalidPinyin"}
  PROVE  StagesInv'
<1>1. stage' = "answered" /\ result'.error = error
  BY DEF Answer
<1>2. StrictAcceptsExactlyLegal'
  BY <1>1 DEF StrictAcceptsExactlyLegal, WasDecoded
<1> QED BY <1>1, <1>2 DEF StagesInv, Decoding

\* A decoding that starts in a stage that suits it.
LEMMA DecodeSuits ==
  ASSUME NEW which \in {"validate", "diagnose", "decode"}, NEW chars, chars # <<>>, NEW logits,
         NEW allow, Decode(which, chars, logits, allow), canonical' = chars,
         request'.mode \in {"strict", "safe"},
         which = "validate" => request'.mode = "strict" /\ ~allow,
         which = "diagnose" => /\ request'.mode = "strict" /\ allow
                               /\ Routes(chars, FALSE)[Len(chars)] = {},
         which = "decode" => IF request'.mode = "strict"
                             THEN ~allow /\ Routes(chars, FALSE)[Len(chars)] # {} ELSE allow
  PROVE  StagesInv'
<1>1. stage' = which /\ decoding'.allow_invalid = allow /\ Size' = Len(chars)
  BY DEF Decode, Size
<1>2. StrictAcceptsExactlyLegal'
  BY <1>1 DEF StrictAcceptsExactlyLegal, WasDecoded
<1> QED BY <1>1, <1>2 DEF StagesInv, Decoding

\* A decoding that is scored allows what its mode allows.
LEMMA ScoredSuits ==
  ASSUME NEW chars, chars # <<>>, NEW allow, ScoredDecode(chars, allow), canonical' = chars,
         request'.mode \in {"strict", "safe"},
         IF request'.mode = "strict"
         THEN ~allow /\ Routes(chars, FALSE)[Len(chars)] # {} ELSE allow
  PROVE  StagesInv'
<1>1. CASE \E logits \in [1 .. Len(chars) - 1 -> Logits] : Decode("decode", chars, logits, allow)
  BY <1>1, DecodeSuits
<1>2. CASE Answer("ModelError", NoAnswer)
  BY <1>2, PlainAnswerShows
<1> QED BY <1>1, <1>2 DEF ScoredDecode

\* Nothing has been answered at first.
LEMMA StagesInvInit == Init => StagesInv
<1> SUFFICES ASSUME Init PROVE StagesInv
  OBVIOUS
<1>1. stage = "idle"
  BY DEF Init
<1>2. StrictAcceptsExactlyLegal
  BY <1>1, NotDecodedShows
<1> QED BY <1>1, <1>2 DEF StagesInv, Decoding

\* Every step keeps the stages of a call in order.
LEMMA StagesInvNext == PathsInv /\ StagesInv /\ [Next]_vars => StagesInv'
<1> DEFINE no == FALSE
           yes == TRUE
<1> SUFFICES ASSUME PathsInv, StagesInv, [Next]_vars PROVE StagesInv'
  OBVIOUS
<1>0. ~no /\ yes
  OBVIOUS
<1>1. CASE segment_pinyin
  <2>1. PICK input \in Inputs, mode \in {"strict", "safe"}, repair \in BOOLEAN :
          LET chars == normalize_pinyin(input)
          IN  /\ request' = [input |-> input, mode |-> mode, repair |-> repair]
              /\ canonical' = chars
              /\ IF chars = <<>> THEN Answer("InvalidPinyin", NoAnswer)
                 ELSE IF Len(chars) > MaxChars THEN Answer("PinyinLimitExceeded", NoAnswer)
                 ELSE IF mode = "strict"
                 THEN Decode("validate", chars, Zeros(chars), no)
                 ELSE IF CanScore(chars) THEN ScoredDecode(chars, yes)
                 ELSE Decode("decode", chars, Zeros(chars), yes)
    BY <1>1 DEF segment_pinyin
  <2> DEFINE chars == normalize_pinyin(input)
  <2> HIDE DEF no, yes
  <2>2. request'.mode = mode /\ canonical' = chars
    BY <2>1
  <2>3. \/ chars = <<>> /\ Answer("InvalidPinyin", NoAnswer)
        \/ Answer("PinyinLimitExceeded", NoAnswer)
        \/ chars # <<>> /\ mode = "strict" /\ Decode("validate", chars, Zeros(chars), no)
        \/ chars # <<>> /\ mode # "strict" /\ Decode("decode", chars, Zeros(chars), yes)
        \/ chars # <<>> /\ mode # "strict" /\ ScoredDecode(chars, yes)
    BY <2>1
  <2> HIDE DEF chars
  <2>4. CASE chars = <<>> /\ Answer("InvalidPinyin", NoAnswer)
    BY <2>2, <2>4, PlainAnswerShows
  <2>5. CASE Answer("PinyinLimitExceeded", NoAnswer)
    BY <2>5, PlainAnswerShows
  <2>6. CASE chars # <<>> /\ mode = "strict" /\ Decode("validate", chars, Zeros(chars), no)
    BY <1>0, <2>2, <2>6, DecodeSuits
  <2>7. CASE chars # <<>> /\ mode # "strict" /\ Decode("decode", chars, Zeros(chars), yes)
    BY <1>0, <2>2, <2>7, DecodeSuits
  <2>8. CASE chars # <<>> /\ mode # "strict" /\ ScoredDecode(chars, yes)
    BY <1>0, <2>2, <2>8, ScoredSuits
  <2> QED BY <2>3, <2>4, <2>5, <2>6, <2>7, <2>8
<1>2. CASE decode_gap_viterbi
  <2>1. /\ Decoding /\ stage' = stage /\ request' = request /\ canonical' = canonical
        /\ decoding' = [decoding EXCEPT !.begin = decoding.begin + 1]
    BY <1>2 DEF decode_gap_viterbi, Decoding
  <2>2. decoding'.allow_invalid = decoding.allow_invalid
    BY <2>1 DEF PathsInv
  <2>3. Decoding' /\ Size' = Size /\ stage' # "answered"
    BY <2>1 DEF Decoding, Size
  <2>4. StrictAcceptsExactlyLegal'
    BY <2>3 DEF StrictAcceptsExactlyLegal, WasDecoded
  <2> QED BY <2>1, <2>2, <2>3, <2>4 DEF StagesInv
<1>3. CASE strict_validated
  <2>1. /\ stage = "validate" /\ decoding.begin = Size /\ Decoding
        /\ request' = request /\ canonical' = canonical
    BY <1>3 DEF strict_validated, Decoding
  <2>2. /\ canonical # <<>> /\ request'.mode = "strict"
        /\ best[Size].reachable <=> Routes(canonical, FALSE)[Size] # {}
    BY <2>1, LastPath DEF StagesInv
  <2>3. \/ ~best[Size].reachable /\ Decode("diagnose", canonical, Zeros(canonical), yes)
        \/ best[Size].reachable /\ ScoredDecode(canonical, no)
        \/ best[Size].reachable /\ AnswerPath(best[Size], FALSE)
    BY <1>3 DEF strict_validated
  <2> HIDE DEF no, yes
  <2>4. CASE ~best[Size].reachable /\ Decode("diagnose", canonical, Zeros(canonical), yes)
    <3>1. Routes(canonical, FALSE)[Len(canonical)] = {}
      BY <2>2, <2>4 DEF Size
    <3> QED BY <1>0, <2>1, <2>2, <2>4, <3>1, DecodeSuits
  <2>5. CASE best[Size].reachable /\ ScoredDecode(canonical, no)
    <3>1. Routes(canonical, FALSE)[Len(canonical)] # {}
      BY <2>2, <2>5 DEF Size
    <3> QED BY <1>0, <2>1, <2>2, <2>5, <3>1, ScoredSuits
  <2>6. CASE best[Size].reachable /\ AnswerPath(best[Size], FALSE)
    <3> DEFINE rejected == FALSE
    <3>1. AnswerPath(best[Size], rejected) /\ (rejected <=> stage = "diagnose")
      BY <2>1, <2>6
    <3> HIDE DEF rejected
    <3> QED BY <2>1, <2>6, <3>1, PathAnswerShows
  <2> QED BY <2>3, <2>4, <2>5, <2>6
<1>4. CASE decoded
  <2> DEFINE rejected == stage = "diagnose"
  <2>1. /\ stage # "validate" /\ Decoding /\ decoding.begin = Size
        /\ AnswerPath(best[Size], rejected) /\ UNCHANGED <<request, canonical>>
    BY <1>4 DEF decoded, Decoding
  <2>2. rejected <=> stage = "diagnose"
    OBVIOUS
  <2> HIDE DEF rejected
  <2> QED BY <2>1, <2>2, PathAnswerShows
<1>5. CASE call_returns
  <2>1. stage' = "idle"
    BY <1>5 DEF call_returns
  <2>2. StrictAcceptsExactlyLegal'
    BY <2>1 DEF StrictAcceptsExactlyLegal, WasDecoded
  <2> QED BY <2>1, <2>2 DEF StagesInv, Decoding
<1>6. CASE UNCHANGED vars
  <2>1. /\ Size' = Size /\ Decoding' = Decoding
        /\ StrictAcceptsExactlyLegal' = StrictAcceptsExactlyLegal
    BY <1>6 DEF vars, Size, Decoding, StrictAcceptsExactlyLegal, WasDecoded
  <2> QED BY <1>6, <2>1 DEF vars, StagesInv
<1> QED BY <1>1, <1>2, <1>3, <1>4, <1>5, <1>6 DEF Next

\* For every vocabulary and every input: strict mode answers Ok exactly when some cut into
\* words is legal, invalid ranges are answered exactly when none is, and safe mode answers
\* Ok exactly when a segment is left.
THEOREM StrictAlwaysAcceptsExactlyLegal == Spec => []StrictAcceptsExactlyLegal
<1> DEFINE Inv == PathsInv /\ StagesInv
<1>1. Init => Inv
  BY PathsInvInit, StagesInvInit
<1>2. Inv /\ [Next]_vars => Inv'
  BY PathsInvNext, StagesInvNext
<1>3. Inv => StrictAcceptsExactlyLegal
  BY DEF StagesInv
<1> HIDE DEF Inv
<1> QED BY <1>1, <1>2, <1>3, PTL DEF Spec

-----------------------------------------------------------------------------
(* Where a path cuts the input *)

\* Where the first k edges of a path end.
EndOf(edges, k) == IF k = 0 THEN 0 ELSE edges[k].end

\* Each edge begins where the one before it ends, and the last one ends at p.
Chain(edges, p) ==
  /\ \A i \in 1 .. Len(edges) : edges[i].begin = EndOf(edges, i - 1)
  /\ EndOf(edges, Len(edges)) = p

\* One more edge behind a chain.
LEMMA ChainAppend ==
  ASSUME NEW q \in Seq(Edges), NEW e \in Edges, Chain(q, e.begin)
  PROVE  Chain(Append(q, e), e.end)
<1> DEFINE n == Len(q)
           r == Append(q, e)
<1>1. n \in Nat /\ r \in Seq(Edges) /\ Len(r) = n + 1 /\ r[n + 1] = e /\ \A i \in 1 .. n : r[i] = q[i]
  OBVIOUS
<1> HIDE DEF r
<1>2. \A i \in 1 .. n : q[i].begin = EndOf(q, i - 1)
  BY DEF Chain
<1>3. EndOf(q, n) = e.begin
  BY DEF Chain
<1> HIDE DEF n
<1>4. ASSUME NEW k \in 0 .. n PROVE EndOf(r, k) = EndOf(q, k)
  <2>1. k # 0 => k \in 1 .. n
    BY <1>1
  <2> QED BY <1>1, <2>1 DEF EndOf
<1>5. ASSUME NEW i \in 1 .. n + 1 PROVE r[i].begin = EndOf(r, i - 1)
  <2>1. CASE i = n + 1
    <3>1. i - 1 = n /\ n \in 0 .. n
      BY <1>1, <2>1
    <3> QED BY <1>1, <1>3, <1>4, <2>1, <3>1
  <2>2. CASE i # n + 1
    <3>1. i \in 1 .. n /\ i - 1 \in 0 .. n
      BY <1>1, <2>2
    <3> QED BY <1>1, <1>2, <1>4, <3>1
  <2> QED BY <2>1, <2>2
<1>6. EndOf(r, n + 1) = e.end
  BY <1>1 DEF EndOf
<1> QED BY <1>1, <1>5, <1>6 DEF Chain, r

\* A route to a position leads from the start of the input to it without a gap.
LEMMA RoutesAreChains ==
  ASSUME NEW chars, WellCut(chars), NEW allow
  PROVE  \A p \in 0 .. Len(chars) : \A r \in Routes(chars, allow)[p] : Chain(r, p)
<1> DEFINE n == Len(chars)
           R == Routes(chars, allow)
           Good(p) == \A r \in R[p] : Chain(r, p)
           D == {k \in 0 .. n : \A p \in 0 .. k : Good(p)}
<1>1. n \in Nat
  BY LegalEdgesIn
<1>2. 0 \in D
  <2>1. Good(0)
    <3>1. R[0] = {<<>>} /\ Len(<<>>) = 0
      BY FirstRoute
    <3> QED BY <3>1 DEF Chain, EndOf
  <2> HIDE DEF Good
  <2>2. \A p \in 0 .. 0 : Good(p)
    BY <2>1
  <2> QED BY <1>1, <2>2
<1>3. ASSUME NEW k \in D, k < n PROVE k + 1 \in D
  <2>1. k \in Nat /\ k + 1 \in 1 .. n /\ \A p \in 0 .. k : Good(p)
    <3> HIDE DEF Good
    <3> QED BY <1>1, <1>3
  <2> DEFINE j == k + 1
  <2>2. j \in 1 .. n /\ \A p \in 0 .. j - 1 : Good(p)
    <3> HIDE DEF Good
    <3> QED BY <2>1
  <2>3. Good(j)
    <3> SUFFICES ASSUME NEW r \in R[j] PROVE Chain(r, j)
      OBVIOUS
    <3> HIDE DEF j
    <3>1. /\ Last(r) \in Edges /\ Last(r).end = j /\ Last(r).begin \in 0 .. j - 1
          /\ \E q \in R[Last(r).begin] : r = Append(q, Last(r))
      BY <2>2, RouteEnds
    <3>2. PICK q \in R[Last(r).begin] : r = Append(q, Last(r))
      BY <3>1
    <3>3. Last(r).begin \in 0 .. n
      BY <1>1, <2>2, <3>1
    <3>4. q \in Seq(Edges) /\ Chain(q, Last(r).begin)
      BY <2>2, <3>1, <3>3, RoutesTyped
    <3> DEFINE e == Last(r)
    <3>5. e \in Edges /\ Chain(q, e.begin) /\ r = Append(q, e) /\ e.end = j
      BY <3>1, <3>2, <3>4
    <3> HIDE DEF e
    <3> QED BY <3>4, <3>5, ChainAppend
  <2> HIDE DEF Good
  <2>4. \A p \in 0 .. k + 1 : Good(p)
    BY <2>1, <2>3
  <2> QED BY <2>1, <2>4
<1>4. D = 0 .. n
  <2> HIDE DEF D
  <2>1. \A k \in D : k < n => k + 1 \in D
    BY <1>3
  <2>2. D \in SUBSET (0 .. n)
    BY DEF D
  <2> QED BY <1>1, <1>2, <2>1, <2>2, ClimbAll
<1>5. n \in D
  BY <1>1, <1>4
<1> QED BY <1>5

-----------------------------------------------------------------------------
(* Ranges and what they hold *)

Spans == [begin : Nat, end : Nat]

Holds(ranges, offset) ==
  \E i \in 1 .. Len(ranges) : ranges[i].begin <= offset /\ offset < ranges[i].end

\* A range begins with the first byte of a character in front of p and ends with the last
\* byte of one.
Bounded(range, p) ==
  /\ range.begin < range.end
  /\ \E b \in 1 .. p : canonical[b].from = range.begin /\ canonical[b].byte = 1
  /\ \E e \in 1 .. p : /\ canonical[e].from = range.end - 1
                       /\ canonical[e].byte = Width(canonical[e].char)

\* Ranges in front of p, in order and apart, that hold the bytes left over and no other.
RangesHold(ranges, left, p) ==
  /\ ranges \in Seq(Spans)
  /\ \A i \in 1 .. Len(ranges) - 1 : ranges[i].end < ranges[i + 1].begin
  /\ \A i \in 1 .. Len(ranges) : Bounded(ranges[i], p)
  /\ \A offset \in Nat : Holds(ranges, offset) <=> \E j \in left : canonical[j].from = offset

\* The bytes of a character that starts behind b, as they were typed.
LEMMA CharSpan ==
  ASSUME canonical \in Seq(Norm), Written(canonical), NEW b \in 0 .. Size - 1,
         canonical[b + 1].byte = 1, NEW w, w = Width(canonical[b + 1].char)
  PROVE  /\ w \in 1 .. 4 /\ b + w \in 1 .. Size /\ canonical[b + 1].from \in Nat
         /\ \A j \in 1 .. w : /\ b + j \in 1 .. Size /\ canonical[b + j].byte = j
                              /\ canonical[b + j].char = canonical[b + 1].char
                              /\ canonical[b + j].from = canonical[b + 1].from + j - 1
<1> DEFINE i == b + 1
<1>1. i \in 1 .. Len(canonical) /\ i - 1 = b /\ Size = Len(canonical) /\ Size \in Nat
  BY NormParts DEF Size
<1>2. canonical[i].from \in Nat /\ canonical[i].char \in Nat /\ canonical[i].byte = 1
  BY <1>1, NormParts
<1>3. w \in 1 .. 4
  BY <1>2, Widths
<1> HIDE DEF i
<1>4. \A j \in 1 .. w : /\ i - 1 + j \in 1 .. Size /\ canonical[i - 1 + j].byte = j
                        /\ canonical[i - 1 + j].char = canonical[i].char
                        /\ canonical[i - 1 + j].from = canonical[i].from - 1 + j
  <2> DEFINE byte == canonical[i].byte
             from == canonical[i].from
  <2>1. w = Width(canonical[i].char)
    BY DEF i
  <2>2. \A j \in 1 .. Width(canonical[i].char) :
          /\ i - byte + j \in 1 .. Len(canonical)
          /\ canonical[i - byte + j].char = canonical[i].char
          /\ canonical[i - byte + j].byte = j
          /\ canonical[i - byte + j].from = from - byte + j
    BY <1>1, WholeBytes
  <2>3. byte = 1
    BY <1>2
  <2> HIDE DEF byte, from
  <2>4. \A j \in 1 .. w : /\ i - 1 + j \in 1 .. Size /\ canonical[i - 1 + j].byte = j
                          /\ canonical[i - 1 + j].char = canonical[i].char
                          /\ canonical[i - 1 + j].from = from - 1 + j
    BY <1>1, <2>1, <2>2, <2>3
  <2> QED BY <2>4 DEF from
<1>5. ASSUME NEW j \in 1 .. w
      PROVE  /\ b + j \in 1 .. Size /\ canonical[b + j].byte = j
             /\ canonical[b + j].char = canonical[i].char
             /\ canonical[b + j].from = canonical[i].from + j - 1
  <2>1. canonical[i].from - 1 + j = canonical[i].from + j - 1 /\ i - 1 + j = b + j
    BY <1>1, <1>2, <1>3
  <2> QED BY <1>1, <1>4, <2>1
<1>6. b + w \in 1 .. Size
  BY <1>3, <1>5
<1> QED BY <1>2, <1>3, <1>5, <1>6 DEF i

\* Ranges that end in front of p end in front of the byte there.
LEMMA RangeEnds ==
  ASSUME canonical \in Seq(Norm), Ordered(canonical), NEW p \in 0 .. Size - 1,
         NEW range \in Spans, Bounded(range, p)
  PROVE  range.end <= canonical[p + 1].from
<1>1. PICK e \in 1 .. p : canonical[e].from = range.end - 1
  BY DEF Bounded
<1>2. e \in 1 .. Len(canonical) /\ p + 1 \in 1 .. Len(canonical) /\ e < p + 1
  BY NormParts DEF Size
<1>3. canonical[e].from < canonical[p + 1].from
  BY <1>2 DEF Ordered
<1>4. canonical[p + 1].from \in Nat /\ range.end \in Nat
  BY <1>2, NormParts DEF Spans
<1> QED BY <1>1, <1>3, <1>4

\* What bounds a range in front of p bounds it in front of a later position.
LEMMA BoundedOnwards ==
  ASSUME NEW range, NEW p \in Nat, NEW q \in Nat, p <= q, Bounded(range, p)
  PROVE  Bounded(range, q)
<1>1. \A i \in 1 .. p : i \in 1 .. q
  OBVIOUS
<1> QED BY <1>1 DEF Bounded

\* One byte of a character.
LEMMA CharByte ==
  ASSUME canonical \in Seq(Norm), Written(canonical), NEW p \in 0 .. Size - 1,
         canonical[p + 1].byte = 1, NEW w, w = Width(canonical[p + 1].char),
         NEW j \in 1 .. w, NEW q, q = p + j, NEW s, s = canonical[p + 1].from
  PROVE  /\ q \in 1 .. Size /\ canonical[q].byte = j /\ canonical[q].from = s + j - 1
         /\ canonical[q].char = canonical[p + 1].char
<1>1. \A i \in 1 .. w : /\ p + i \in 1 .. Size /\ canonical[p + i].byte = i
                        /\ canonical[p + i].char = canonical[p + 1].char
                        /\ canonical[p + i].from = canonical[p + 1].from + i - 1
  BY CharSpan
<1> QED BY <1>1

\* The bytes of a character hold their offsets and no other.
LEMMA CharHolds ==
  ASSUME canonical \in Seq(Norm), Written(canonical), NEW p \in 0 .. Size - 1,
         canonical[p + 1].byte = 1, NEW w, w = Width(canonical[p + 1].char), NEW offset \in Nat,
         NEW s, s = canonical[p + 1].from, NEW t, t = s + w, NEW q, q = p + w
  PROVE  (s <= offset /\ offset < t) <=> \E j \in p + 1 .. q : canonical[j].from = offset
<1>1. w \in 1 .. 4 /\ s \in Nat /\ p \in Nat /\ q = p + w /\ t = s + w /\ offset \in Nat
  <2>1. w \in 1 .. 4 /\ canonical[p + 1].from \in Nat
    BY CharSpan
  <2>2. Size \in Nat
    BY NormParts DEF Size
  <2>3. p \in Nat
    BY ONLY <2>2, p \in 0 .. Size - 1
  <2> QED BY <2>1, <2>3
<1>2. ASSUME NEW m \in 1 .. w, NEW j, j = p + m PROVE canonical[j].from = s + m - 1
  <2>1. \A i \in 1 .. w : canonical[p + i].from = canonical[p + 1].from + i - 1
    BY ONLY canonical \in Seq(Norm), Written(canonical), p \in 0 .. Size - 1,
            canonical[p + 1].byte = 1, w = Width(canonical[p + 1].char), CharSpan
  <2> QED BY ONLY <1>2, <2>1, s = canonical[p + 1].from
<1>3. ASSUME s <= offset, offset < t PROVE \E j \in p + 1 .. q : canonical[j].from = offset
  <2> DEFINE m == offset - s + 1
             j == p + m
  <2>1. m \in 1 .. w /\ s + m - 1 = offset
    BY ONLY <1>1, <1>3
  <2>2. j = p + m
    OBVIOUS
  <2> HIDE DEF m, j
  <2>3. canonical[j].from = s + m - 1
    BY ONLY <1>2, <2>1, <2>2
  <2>4. j \in p + 1 .. q
    BY ONLY <1>1, <2>1, <2>2
  <2> QED BY ONLY <2>1, <2>3, <2>4
<1>4. ASSUME NEW j \in p + 1 .. q, canonical[j].from = offset
      PROVE  s <= offset /\ offset < t
  <2> DEFINE m == j - p
  <2>1. m \in 1 .. w /\ j = p + m
    BY ONLY <1>1, j \in p + 1 .. q
  <2> HIDE DEF m
  <2>2. canonical[j].from = s + m - 1
    BY ONLY <1>2, <2>1
  <2>3. offset = s + m - 1
    BY ONLY <1>4, <2>2
  <2> QED BY ONLY <1>1, <2>1, <2>3
<1> QED BY <1>3, <1>4

\* A character left over, right behind the last range or farther behind.
LEMMA RangeAdded ==
  ASSUME canonical \in Seq(Norm), Written(canonical), Ordered(canonical),
         NEW p \in 0 .. Size - 1, canonical[p + 1].byte = 1,
         NEW w, w = Width(canonical[p + 1].char), NEW q, q = p + w,
         NEW e, e.begin = p, e.end = q,
         NEW ranges, NEW left, RangesHold(ranges, left, p)
  PROVE  RangesHold(append_invalid(ranges, e), left \cup (p + 1 .. q), q)
<1> DEFINE s == canonical[p + 1].from
           t == s + w
           n == Len(ranges)
<1>0. s = canonical[p + 1].from /\ t = s + w
  OBVIOUS
<1> HIDE DEF s, t
<1>1. /\ w \in 1 .. 4 /\ q \in 1 .. Size /\ s \in Nat /\ p \in Nat /\ Size \in Nat /\ q \in Nat
      /\ q = p + w /\ t \in Nat /\ s < t
      /\ canonical[q].from = t - 1 /\ canonical[q].byte = Width(canonical[q].char)
  <2>1. Size \in Nat
    BY NormParts DEF Size
  <2>2. w \in 1 .. 4 /\ canonical[p + 1].from \in Nat
    BY CharSpan
  <2>3. w \in 1 .. w
    BY <2>2
  <2>4. /\ q \in 1 .. Size /\ canonical[q].byte = w /\ canonical[q].from = s + w - 1
        /\ canonical[q].char = canonical[p + 1].char
    BY <1>0, <2>3, CharByte
  <2>5. s \in Nat /\ p \in Nat /\ q \in Nat /\ q = p + w
    BY <1>0, <2>1, <2>2
  <2>6. t \in Nat /\ s < t /\ s + w - 1 = t - 1
    BY ONLY <1>0, <2>2, <2>5
  <2>7. canonical[q].byte = Width(canonical[q].char)
    BY <2>4
  <2> QED BY ONLY <2>1, <2>2, <2>4, <2>5, <2>6, <2>7
<1>2. SourceBegin(e) = s /\ SourceEnd(e) = t
  <2>1. SourceBegin(e) = s
    BY <1>0 DEF SourceBegin
  <2>2. SourceEnd(e) = canonical[q].from + 1
    BY DEF SourceEnd
  <2> QED BY <1>1, <2>1, <2>2
<1>3. /\ ranges \in Seq(Spans) /\ n \in Nat
      /\ \A i \in 1 .. n - 1 : ranges[i].end < ranges[i + 1].begin
      /\ \A i \in 1 .. n : /\ Bounded(ranges[i], p) /\ ranges[i] \in Spans
                           /\ ranges[i].begin \in Nat /\ ranges[i].end \in Nat
                           /\ ranges[i].begin < ranges[i].end
      /\ \A offset \in Nat : Holds(ranges, offset) <=> \E j \in left : canonical[j].from = offset
  <2>1. ranges \in Seq(Spans) /\ \A i \in 1 .. n : Bounded(ranges[i], p)
    BY DEF RangesHold
  <2>2. \A i \in 1 .. n : ranges[i] \in Spans
    BY <2>1
  <2>3. \A r \in Spans : r.begin \in Nat /\ r.end \in Nat
    BY DEF Spans
  <2> QED BY <2>1, <2>2, <2>3 DEF RangesHold, Bounded
<1>4. \A i \in 1 .. n : Bounded(ranges[i], q)
  <2>1. p <= q
    BY <1>1
  <2> QED BY <1>1, <1>3, <2>1, BoundedOnwards
<1>5. \E b \in 1 .. q : canonical[b].from = s /\ canonical[b].byte = 1
  <2>1. p + 1 \in 1 .. q
    BY <1>1
  <2> QED BY <1>0, <2>1
<1>6. \E l \in 1 .. q : /\ canonical[l].from = t - 1
                        /\ canonical[l].byte = Width(canonical[l].char)
  <2>1. q \in 1 .. q
    BY <1>1
  <2> QED BY <1>1, <2>1
<1>7. SUFFICES ASSUME NEW new, new = append_invalid(ranges, e)
               PROVE  /\ new \in Seq(Spans)
                      /\ \A i \in 1 .. Len(new) - 1 : new[i].end < new[i + 1].begin
                      /\ \A i \in 1 .. Len(new) : Bounded(new[i], q)
                      /\ \A offset \in Nat :
                           Holds(new, offset) <=> Holds(ranges, offset)
                                                  \/ (s <= offset /\ offset < t)
  <2>1. ASSUME NEW offset \in Nat
        PROVE  (\E j \in left \cup (p + 1 .. q) : canonical[j].from = offset)
                 <=> Holds(ranges, offset) \/ (s <= offset /\ offset < t)
    <3>1. (s <= offset /\ offset < t) <=> \E j \in p + 1 .. q : canonical[j].from = offset
      BY <1>0, CharHolds
    <3> QED BY <1>3, <3>1
  <2> QED BY <1>7, <2>1 DEF RangesHold
<1>8. ASSUME NEW r \in Spans
      PROVE  /\ [r EXCEPT !.end = t] \in Spans
             /\ [r EXCEPT !.end = t].begin = r.begin /\ [r EXCEPT !.end = t].end = t
  <2>1. r = [begin |-> r.begin, end |-> r.end] /\ r.begin \in Nat /\ r.end \in Nat
    BY DEF Spans
  <2>2. [r EXCEPT !.end = t] = [begin |-> r.begin, end |-> t]
    BY ONLY <2>1
  <2>3. [begin |-> r.begin, end |-> t] \in Spans
    BY ONLY <1>1, <2>1 DEF Spans
  <2> QED BY ONLY <2>2, <2>3
<1>9. CASE n # 0 /\ ranges[n].end = s
  <2> DEFINE last == [ranges[n] EXCEPT !.end = t]
             joined == [ranges EXCEPT ![n] = last]
  <2>0. n \in 1 .. n
    BY <1>3, <1>9
  <2>1. new = joined
    <3>1. ranges # <<>> /\ Last(ranges) = ranges[n]
      BY <1>3, <1>9 DEF Last
    <3>2. new = [ranges EXCEPT ![Len(ranges)].end = SourceEnd(e)]
      BY <1>2, <1>7, <1>9, <3>1 DEF append_invalid
    <3> QED BY <1>2, <3>2
  <2>2. last \in Spans /\ last.begin = ranges[n].begin /\ last.end = t
    BY <1>3, <1>8, <2>0
  <2> HIDE DEF last
  <2>3. /\ new \in Seq(Spans) /\ Len(new) = n /\ new[n] = last
        /\ \A i \in 1 .. n : i # n => new[i] = ranges[i]
    BY <1>3, <2>0, <2>1, <2>2
  <2>4. ASSUME NEW i \in 1 .. n - 1 PROVE new[i].end < new[i + 1].begin
    <3>1. i \in 1 .. n /\ i # n /\ i + 1 \in 1 .. n /\ ranges[i].end < ranges[i + 1].begin
      BY <1>3
    <3>2. new[i] = ranges[i] /\ new[i + 1].begin = ranges[i + 1].begin
      BY <2>2, <2>3, <3>1
    <3> QED BY <3>1, <3>2
  <2>5. ASSUME NEW i \in 1 .. n PROVE Bounded(new[i], q)
    <3>1. CASE i # n
      BY <1>4, <2>3, <3>1
    <3>2. CASE i = n
      <4>1. new[i].begin = ranges[n].begin /\ new[i].end = t
        BY <2>2, <2>3, <3>2
      <4>2. \E b \in 1 .. q : canonical[b].from = ranges[n].begin /\ canonical[b].byte = 1
        BY <1>4, <2>0 DEF Bounded
      <4>3. new[i].begin < new[i].end
        <5>1. ranges[n].begin < s
          BY <1>3, <1>9, <2>0
        <5>2. ranges[n].begin \in Nat
          BY <1>3, <2>0
        <5> QED BY ONLY <1>1, <4>1, <5>1, <5>2
      <4> QED BY ONLY <1>6, <4>1, <4>2, <4>3 DEF Bounded
    <3> QED BY <3>1, <3>2
  <2>6. ASSUME NEW offset \in Nat
        PROVE  Holds(new, offset) <=> Holds(ranges, offset) \/ (s <= offset /\ offset < t)
    <3>1. \A i \in 1 .. n : i # n => (new[i].begin <= offset /\ offset < new[i].end
                                      <=> ranges[i].begin <= offset /\ offset < ranges[i].end)
      BY <2>3
    <3>2. (new[n].begin <= offset /\ offset < new[n].end)
            <=> (ranges[n].begin <= offset /\ offset < ranges[n].end)
                \/ (s <= offset /\ offset < t)
      <4>1. /\ new[n].begin = ranges[n].begin /\ new[n].end = t /\ ranges[n].end = s
            /\ ranges[n].begin \in Nat /\ ranges[n].begin < s
        BY <1>3, <1>9, <2>0, <2>2, <2>3
      <4> QED BY ONLY <1>1, <4>1, offset \in Nat
    <3> QED BY <2>0, <2>3, <3>1, <3>2 DEF Holds
  <2> QED BY <2>3, <2>4, <2>5, <2>6
<1>10. CASE ~(n # 0 /\ ranges[n].end = s)
  <2> DEFINE span == [begin |-> s, end |-> t]
  <2>1. new = Append(ranges, span)
    <3>1. ranges # <<>> => n # 0 /\ Last(ranges) = ranges[n]
      BY <1>3 DEF Last
    <3> QED BY <1>2, <1>7, <1>10, <3>1 DEF append_invalid
  <2>2. span \in Spans /\ span.begin = s /\ span.end = t
    BY <1>1 DEF Spans
  <2> HIDE DEF span
  <2>3. /\ new \in Seq(Spans) /\ Len(new) = n + 1 /\ new[n + 1] = span
        /\ \A i \in 1 .. n : new[i] = ranges[i]
    BY <1>3, <2>1, <2>2
  <2>4. ASSUME NEW i \in 1 .. n PROVE new[i].end < new[i + 1].begin
    <3>1. CASE i # n
      <4>1. i \in 1 .. n - 1 /\ i + 1 \in 1 .. n
        BY <1>3, <3>1
      <4> QED BY <1>3, <2>3, <4>1
    <3>2. CASE i = n
      <4>1. n \in 1 .. n /\ n # 0
        BY <1>3, <3>2
      <4>2. ranges[n].end <= s
        BY <1>0, <1>3, <4>1, RangeEnds
      <4>3. ranges[n].end < s
        <5> DEFINE last == ranges[n].end
        <5>1. last \in Nat /\ s \in Nat /\ last <= s /\ last # s
          BY <1>1, <1>3, <1>10, <4>1, <4>2
        <5> HIDE DEF last
        <5>2. last < s
          BY ONLY <5>1
        <5> QED BY <5>2 DEF last
      <4>4. new[i] = ranges[n] /\ new[i + 1] = span
        BY <2>3, <3>2, <4>1
      <4>5. span.begin = s
        BY <2>2
      <4> QED BY ONLY <3>2, <4>3, <4>4, <4>5
    <3> QED BY <3>1, <3>2
  <2>5. ASSUME NEW i \in 1 .. n + 1 PROVE Bounded(new[i], q)
    <3>1. CASE i \in 1 .. n
      BY <1>4, <2>3, <3>1
    <3>2. CASE i = n + 1
      <4>1. new[i] = span
        BY <2>3, <3>2
      <4>2. span.begin < span.end
        BY <1>1, <2>2
      <4>3. Bounded(span, q)
        BY ONLY <1>5, <1>6, <2>2, <4>2 DEF Bounded
      <4> QED BY ONLY <4>1, <4>3
    <3> QED BY <1>3, <3>1, <3>2
  <2>6. ASSUME NEW offset \in Nat
        PROVE  Holds(new, offset) <=> Holds(ranges, offset) \/ (s <= offset /\ offset < t)
    <3>1. \A i \in 1 .. n + 1 : i \in 1 .. n \/ i = n + 1
      BY <1>3
    <3>2. n + 1 \in 1 .. n + 1 /\ \A i \in 1 .. n : i \in 1 .. n + 1
      BY <1>3
    <3>3. new[n + 1].begin = s /\ new[n + 1].end = t
      BY <2>2, <2>3
    <3> QED BY <2>3, <3>1, <3>2, <3>3 DEF Holds
  <2>7. Len(new) - 1 = n
    BY <1>3, <2>3
  <2> QED BY <2>3, <2>4, <2>5, <2>6, <2>7
<1> QED BY <1>9, <1>10

\* An invalid edge is a whole character.
LEMMA InvalidIsCharacter ==
  ASSUME canonical \in Seq(Norm), Written(canonical), NEW allow,
         NEW e \in LegalEdges(canonical, allow)
  PROVE  /\ e.begin \in 0 .. Size - 1 /\ e.end \in e.begin + 1 .. Size /\ e.invalid \in BOOLEAN
         /\ e.invalid => /\ canonical[e.begin + 1].byte = 1
                         /\ e.end = e.begin + Width(canonical[e.begin + 1].char)
<1>1. WellCut(canonical) /\ Size = Len(canonical)
  BY WrittenIsCut DEF Size
<1>2. e \in EdgesIn(Size)
  BY <1>1, LegalEdgesIn
<1>3. /\ e.begin \in 0 .. Size - 1
      /\ \/ e = Edge(e.begin, e.end, FALSE)
         \/ e.end \in CharEnds(canonical, e.begin)
  BY <1>1, EdgesAre
<1>4. e.invalid \in BOOLEAN /\ e.end \in e.begin + 1 .. Size
  <2>1. Size \in Nat
    BY <1>1
  <2>2. e.begin \in Nat /\ e.end \in Nat /\ e.begin < e.end /\ e.end <= Size /\ e.invalid \in BOOLEAN
    BY <1>2 DEF EdgesIn, Edges
  <2> QED BY <2>1, <2>2
<1>5. ASSUME e.invalid PROVE e.end \in CharEnds(canonical, e.begin)
  BY <1>3, <1>5 DEF Edge
<1> QED BY <1>3, <1>4, <1>5 DEF CharEnds

\* The ranges of the answer when one more edge is added.
LEMMA RangesOfEdge ==
  ASSUME NEW acc \in Answers, NEW e
  PROVE  AddEdge(acc, e).invalid_ranges
           = IF e.invalid THEN append_invalid(acc.invalid_ranges, e) ELSE acc.invalid_ranges
<1> DEFINE token == Word(canonical, e.begin, e.end)
           near == find_pinyin_id_nearest(token)
           ranges == append_invalid(acc.invalid_ranges, e)
<1>1. acc = [segments |-> acc.segments, invalid_ranges |-> acc.invalid_ranges]
  BY DEF Answers
<1>2. AddEdge(acc, e) = IF ~e.invalid THEN [acc EXCEPT !.segments = Append(@, token)]
                        ELSE [segments       |-> IF Repairs THEN Append(acc.segments, near)
                                                 ELSE acc.segments,
                              invalid_ranges |-> ranges]
  BY DEF AddEdge
<1> HIDE DEF token, near, ranges
<1>3. [acc EXCEPT !.segments = Append(@, token)].invalid_ranges = acc.invalid_ranges
  BY <1>1
<1> QED BY <1>2, <1>3 DEF ranges

\* The bytes that the first k edges of a path leave over.
LeftOver(edges, k) ==
  {j \in 1 .. Size : \E i \in 1 .. k : /\ edges[i].invalid
                                       /\ edges[i].begin < j /\ j <= edges[i].end}

\* The ranges of a path that leads through the input hold what it leaves over.
LEMMA RangesAnswered ==
  ASSUME canonical \in Seq(Norm), Written(canonical), Ordered(canonical), NEW allow,
         NEW edges \in Seq(LegalEdges(canonical, allow)), Chain(edges, Size)
  PROVE  RangesHold(AddEdges(edges).invalid_ranges, LeftOver(edges, Len(edges)), Size)
<1> DEFINE n == Len(edges)
<1>1. n \in Nat /\ Size \in Nat /\ \A i \in 1 .. n : edges[i] \in LegalEdges(canonical, allow)
  BY NormParts DEF Size
<1>2. edges \in Seq(EdgesIn(Size))
  <2>1. LegalEdges(canonical, allow) \subseteq EdgesIn(Size)
    BY WrittenIsCut, LegalEdgesIn DEF Size
  <2> QED BY <2>1
<1>3. PICK f : /\ f[0] = NoAnswer /\ AddEdges(edges) = f[n]
               /\ \A i \in 1 .. n : f[i] = AddEdge(f[i - 1], edges[i])
               /\ \A i \in 0 .. n : f[i] \in Answers
  BY <1>2, PathAnswered
<1>4. EndOf(edges, 0) = 0 /\ EndOf(edges, n) = Size
      /\ \A i \in 1 .. n : EndOf(edges, i) = edges[i].end /\ edges[i].begin = EndOf(edges, i - 1)
  BY DEF Chain, EndOf
<1> HIDE DEF n
<1> DEFINE Good(k) == RangesHold(f[k].invalid_ranges, LeftOver(edges, k), EndOf(edges, k))
           D == {k \in 0 .. n : Good(k)}
<1>5. Good(0)
  <2>1. f[0].invalid_ranges = <<>> /\ Len(<<>>) = 0 /\ <<>> \in Seq(Spans)
    BY <1>3 DEF NoAnswer
  <2>2. LeftOver(edges, 0) = {}
    BY DEF LeftOver
  <2> QED BY <1>4, <2>1, <2>2 DEF RangesHold, Holds
<1>6. ASSUME NEW j \in 1 .. n, Good(j - 1) PROVE Good(j)
  <2> DEFINE e == edges[j]
             old == f[j - 1].invalid_ranges
             p == EndOf(edges, j - 1)
             left == LeftOver(edges, j - 1)
  <2>1. /\ e \in LegalEdges(canonical, allow) /\ e.begin = p /\ e.end = EndOf(edges, j)
        /\ RangesHold(old, left, p)
    BY <1>1, <1>4, <1>6
  <2>2. f[j].invalid_ranges = IF e.invalid THEN append_invalid(old, e) ELSE old
    <3> DEFINE acc == f[j - 1]
    <3>1. j - 1 \in 0 .. n
      BY <1>1
    <3>2. acc \in Answers /\ f[j] = AddEdge(acc, e)
      BY <1>3, <3>1
    <3> HIDE DEF acc, e
    <3>3. f[j].invalid_ranges
            = IF e.invalid THEN append_invalid(acc.invalid_ranges, e) ELSE acc.invalid_ranges
      BY <3>2, RangesOfEdge
    <3> QED BY <3>3 DEF acc
  <2>3. \A i : i \in 1 .. j <=> i \in 1 .. j - 1 \/ i = j
    BY <1>1
  <2>4. LeftOver(edges, j) = left \cup {l \in 1 .. Size : e.invalid /\ e.begin < l /\ l <= e.end}
    BY <2>3 DEF LeftOver
  <2> HIDE DEF e, old, p, left
  <2>5. /\ e.begin \in 0 .. Size - 1 /\ e.end \in e.begin + 1 .. Size /\ e.invalid \in BOOLEAN
        /\ e.invalid => /\ canonical[e.begin + 1].byte = 1
                        /\ e.end = e.begin + Width(canonical[e.begin + 1].char)
    BY <2>1, InvalidIsCharacter
  <2>6. CASE e.invalid
    <3> DEFINE q == e.end
               w == Width(canonical[p + 1].char)
    <3>1. p \in 0 .. Size - 1 /\ canonical[p + 1].byte = 1 /\ q = p + w /\ e.begin = p /\ e.end = q
      BY <2>1, <2>5, <2>6
    <3>2. LeftOver(edges, j) = left \cup (p + 1 .. q)
      <4>1. {l \in 1 .. Size : e.invalid /\ e.begin < l /\ l <= e.end} = p + 1 .. q
        BY <1>1, <2>1, <2>5, <2>6
      <4> QED BY <2>4, <4>1
    <3>3. w = Width(canonical[p + 1].char)
      OBVIOUS
    <3> HIDE DEF q, w
    <3>4. RangesHold(append_invalid(old, e), left \cup (p + 1 .. q), q)
      BY <2>1, <3>1, <3>3, RangeAdded
    <3> QED BY <2>1, <2>2, <2>6, <3>1, <3>2, <3>4
  <2>7. CASE ~e.invalid
    <3>1. LeftOver(edges, j) = left
      BY <2>4, <2>7
    <3>2. p \in Nat /\ e.end \in Nat /\ p <= e.end
      BY <1>1, <2>1, <2>5
    <3>3. RangesHold(old, left, e.end)
      BY <2>1, <3>2, BoundedOnwards DEF RangesHold
    <3> QED BY <2>1, <2>2, <2>7, <3>1, <3>3
  <2> QED BY <2>6, <2>7
<1>7. n \in D
  <2>1. 0 \in D /\ D \in SUBSET (0 .. n)
    BY <1>1, <1>5
  <2>2. ASSUME NEW k \in D, k < n PROVE k + 1 \in D
    <3> DEFINE j == k + 1
    <3>1. j \in 1 .. n /\ j - 1 = k /\ j \in 0 .. n /\ Good(k)
      BY <1>1, <2>2
    <3> HIDE DEF j, Good
    <3>2. Good(j)
      BY <1>6, <3>1
    <3> QED BY <3>1, <3>2 DEF j
  <2> HIDE DEF D
  <2> QED BY <1>1, <2>1, <2>2, Climb
<1> QED BY <1>3, <1>4, <1>7 DEF n

\* Each character left over takes an invalid edge of its own.
LEMMA LeftOverCount ==
  ASSUME canonical \in Seq(Norm), Written(canonical), NEW allow,
         NEW edges \in Seq(LegalEdges(canonical, allow)), NEW H,
         H = {j \in LeftOver(edges, Len(edges)) : canonical[j].byte = 1}
  PROVE  Cardinality(H) <= Invalids(edges)
<1> DEFINE S == {i \in DOMAIN edges : edges[i].invalid}
           g == [i \in S |-> edges[i].begin + 1]
           T == {g[i] : i \in S}
           n == Len(edges)
<1>1. /\ n \in Nat /\ DOMAIN edges = 1 .. n /\ Size \in Nat
      /\ \A i \in 1 .. n : edges[i] \in LegalEdges(canonical, allow)
  BY NormParts DEF Size
<1> HIDE DEF n
<1>2. IsFiniteSet(S)
  <2>1. IsFiniteSet(1 .. n) /\ S \in SUBSET (1 .. n)
    BY <1>1, FS_Interval
  <2> QED BY <2>1, FS_Subset
<1>3. g \in Surjection(S, T)
  BY DEF Surjection
<1>4. ASSUME NEW j \in H PROVE j \in T
  <2>1. PICK i \in 1 .. n : edges[i].invalid /\ edges[i].begin < j /\ j <= edges[i].end
    BY DEF LeftOver, n
  <2> DEFINE e == edges[i]
             p == e.begin
             w == Width(canonical[p + 1].char)
             m == j - p
             s == canonical[p + 1].from
  <2>2. e \in LegalEdges(canonical, allow) /\ e.invalid /\ p < j /\ j <= e.end
        /\ j \in Nat /\ canonical[j].byte = 1
    BY <1>1, <2>1 DEF LeftOver
  <2> HIDE DEF e
  <2>3. p \in 0 .. Size - 1 /\ canonical[p + 1].byte = 1 /\ e.end = p + w
    BY <2>2, InvalidIsCharacter
  <2>4. w = Width(canonical[p + 1].char) /\ s = canonical[p + 1].from
    OBVIOUS
  <2> HIDE DEF p, w, s
  <2>5. w \in 1 .. 4
    BY <2>3, <2>4, CharSpan
  <2>6. m \in 1 .. w /\ j = p + m
    BY ONLY <1>1, <2>2, <2>3, <2>5
  <2> HIDE DEF m
  <2> HIDE DEF S, g, T
  <2>7. canonical[j].byte = m
    <3>1. \A k \in 1 .. w : canonical[p + k].byte = k
      BY ONLY canonical \in Seq(Norm), Written(canonical), <2>3, <2>4, CharSpan
    <3> QED BY ONLY <2>6, <3>1
  <2>8. i \in S /\ g[i] = j
    <3>1. j = p + 1
      BY ONLY <2>2, <2>6, <2>7
    <3>2. j = edges[i].begin + 1
      BY ONLY <3>1 DEF p, e
    <3> QED BY <1>1, <2>1, <3>2 DEF S, g
  <2> QED BY <2>8 DEF T
<1>5. Invalids(edges) = Cardinality(S)
  BY DEF Invalids
<1> HIDE DEF S, g, T
<1>6. IsFiniteSet(T) /\ Cardinality(T) <= Cardinality(S)
  BY <1>2, <1>3, FS_Surjection
<1>7. H \in SUBSET T
  BY <1>4
<1>8. Cardinality(H) <= Cardinality(T) /\ IsFiniteSet(H)
  BY <1>6, <1>7, FS_Subset
<1>9. Cardinality(H) \in Nat /\ Cardinality(T) \in Nat /\ Cardinality(S) \in Nat
  BY <1>2, <1>6, <1>8, FS_CardinalityType
<1> QED BY <1>5, <1>6, <1>8, <1>9

-----------------------------------------------------------------------------
(* The text of the segments *)

\* What FlattenSeq goes through.
Flattens(pieces, f) ==
  f[0] = <<>> /\ \A i \in 1 .. Len(pieces) : f[i] = f[i - 1] \o pieces[i]

\* FlattenSeq joins its pieces from the first to the last.
LEMMA FlattenSteps ==
  ASSUME NEW A, NEW pieces \in Seq(Seq(A))
  PROVE  \E f \in [0 .. Len(pieces) -> Seq(A)] :
           Flattens(pieces, f) /\ FlattenSeq(pieces) = f[Len(pieces)]
<1> DEFINE n == Len(pieces)
           V == Seq(A)
           none == <<>>
           step == [i \in 1 .. n |-> [acc \in V |-> acc \o pieces[i]]]
           next(f, i) == IF i = 1 THEN pieces[i] ELSE f[i - 1] \o pieces[i]
           flat == CHOOSE f : f = [i \in 1 .. n |-> next(f, i)]
<1>1. n \in Nat /\ none \in V /\ \A i \in 1 .. n : pieces[i] \in V
  OBVIOUS
<1>2. \A a, b \in V : a \o b \in V
  OBVIOUS
<1>3. \A a \in V : none \o a = a
  OBVIOUS
<1> HIDE DEF n, V
<1>4. step \in Steps(n, V)
  BY <1>1, <1>2 DEF Steps
<1>5. PICK f \in [0 .. n -> V] : Follows(f, none, step, n)
  <2> HIDE DEF step, none
  <2> QED BY <1>1, <1>4, StepwiseFunction
<1>6. f[0] = none /\ \A i \in 1 .. n : i - 1 \in 0 .. n /\ f[i] = f[i - 1] \o pieces[i]
  <2>1. ASSUME NEW i \in 1 .. n PROVE i - 1 \in 0 .. n /\ f[i] = f[i - 1] \o pieces[i]
    <3>1. i - 1 \in 0 .. n
      BY <1>1
    <3>2. f[i] = step[i][f[i - 1]] /\ f[i - 1] \in V
      BY <1>5, <3>1 DEF Follows
    <3> QED BY <3>1, <3>2
  <2>2. f[0] = none
    BY <1>5 DEF Follows
  <2> QED BY <2>1, <2>2
<1> HIDE DEF step
<1>7. CASE n = 0
  <2>1. pieces = <<>>
    BY <1>7 DEF n
  <2>2. FlattenSeq(pieces) = none
    BY <1>7, <2>1 DEF FlattenSeq, n
  <2> QED BY <1>5, <1>6, <1>7, <2>2 DEF Flattens, n, V
<1>8. CASE n # 0
  <2> DEFINE h == [i \in 1 .. n |-> f[i]]
  <2>1. \A i \in 1 .. n : h[i] = next(h, i)
    <3> SUFFICES ASSUME NEW i \in 1 .. n PROVE h[i] = next(h, i)
      OBVIOUS
    <3>1. CASE i = 1
      <4>1. f[i] = f[i - 1] \o pieces[i] /\ pieces[i] \in V
        BY ONLY <1>1, <1>6, i \in 1 .. n
      <4>2. i - 1 = 0
        BY <3>1
      <4>3. f[i] = pieces[i]
        BY ONLY <1>3, <1>6, <4>1, <4>2
      <4> QED BY <3>1, <4>3
    <3>2. CASE i # 1
      <4>1. i - 1 \in 1 .. n
        BY <1>1, <3>2
      <4> QED BY <1>6, <3>2, <4>1
    <3> QED BY <3>1, <3>2
  <2>2. h = [i \in 1 .. n |-> next(h, i)]
    <3> HIDE DEF next
    <3> QED BY <2>1
  <2>3. flat = [i \in 1 .. n |-> next(flat, i)]
    <3> HIDE DEF next, h
    <3> QED BY <2>2
  <2> HIDE DEF flat
  <2>4. \A i \in 1 .. n : flat[i] = next(flat, i)
    BY <2>3
  <2> DEFINE D == {k \in 0 .. n : k # 0 => flat[k] = f[k]}
  <2>5. ASSUME NEW k \in D, k < n PROVE k + 1 \in D
    <3> DEFINE j == k + 1
    <3>1. j \in 1 .. n /\ j \in 0 .. n /\ j - 1 = k /\ (j = 1 <=> k = 0)
      <4>1. k \in 0 .. n /\ k < n /\ n \in Nat
        BY <1>1, <2>5
      <4> QED BY ONLY <4>1
    <3> HIDE DEF j
    <3>2. f[j] = f[k] \o pieces[j] /\ pieces[j] \in V
      BY <1>1, <1>6, <3>1
    <3>3. flat[j] = IF j = 1 THEN pieces[j] ELSE flat[k] \o pieces[j]
      BY <2>4, <3>1
    <3>4. CASE k = 0
      <4>1. f[j] = pieces[j]
        BY <1>3, <1>6, <3>2, <3>4
      <4> QED BY <3>1, <3>3, <3>4, <4>1 DEF j
    <3>5. CASE k # 0
      <4>1. flat[k] = f[k]
        BY <2>5, <3>5
      <4> QED BY <3>1, <3>2, <3>3, <3>5, <4>1 DEF j
    <3> QED BY <3>4, <3>5
  <2>6. n \in D
    <3>1. D \in SUBSET (0 .. n) /\ 0 \in D
      BY <1>1
    <3> HIDE DEF D
    <3> QED BY <1>1, <2>5, <3>1, Climb
  <2>7. FlattenSeq(pieces) = flat[n]
    BY <1>8 DEF FlattenSeq, flat, n
  <2>8. FlattenSeq(pieces) = f[n]
    BY <1>8, <2>6, <2>7
  <2> QED BY <1>5, <1>6, <2>8 DEF Flattens, n, V
<1> QED BY <1>7, <1>8

\* One more piece is joined behind the others.
LEMMA FlattenAppend ==
  ASSUME NEW A, NEW pieces \in Seq(Seq(A)), NEW last \in Seq(A)
  PROVE  /\ FlattenSeq(pieces) \in Seq(A)
         /\ FlattenSeq(Append(pieces, last)) = FlattenSeq(pieces) \o last
<1> DEFINE n == Len(pieces)
           more == Append(pieces, last)
           m == n + 1
<1>1. n \in Nat /\ more \in Seq(Seq(A)) /\ Len(more) = m /\ more[m] = last
      /\ \A i \in 1 .. n : more[i] = pieces[i]
  OBVIOUS
<1>2. PICK f \in [0 .. n -> Seq(A)] : Flattens(pieces, f) /\ FlattenSeq(pieces) = f[n]
  BY FlattenSteps
<1> HIDE DEF more
<1>3. PICK g \in [0 .. m -> Seq(A)] : Flattens(more, g) /\ FlattenSeq(more) = g[m]
  BY <1>1, FlattenSteps
<1> DEFINE D == {k \in 0 .. n : g[k] = f[k]}
<1>4. 0 \in D
  BY <1>1, <1>2, <1>3 DEF Flattens
<1>5. ASSUME NEW k \in D, k < n PROVE k + 1 \in D
  <2> DEFINE j == k + 1
  <2>1. j \in 1 .. n /\ j \in 1 .. m /\ j - 1 = k
    BY <1>1, <1>5
  <2> HIDE DEF j
  <2>2. f[j] = f[k] \o pieces[j] /\ g[j] = g[k] \o more[j]
    BY <1>1, <1>2, <1>3, <2>1 DEF Flattens
  <2>3. g[k] = f[k] /\ more[j] = pieces[j] /\ j \in 0 .. n
    <3>1. k \in 0 .. n /\ g[k] = f[k]
      BY <1>5 DEF D
    <3>2. more[j] = pieces[j]
      BY ONLY <1>1, <2>1
    <3>3. j \in 0 .. n
      BY ONLY <1>1, <2>1
    <3> QED BY <3>1, <3>2, <3>3
  <2>4. j \in 0 .. n /\ g[j] = f[j]
    BY ONLY <2>2, <2>3
  <2> QED BY ONLY <2>4 DEF j, D
<1>6. n \in D
  <2> HIDE DEF D, n
  <2>1. D \in SUBSET (0 .. n)
    BY DEF D
  <2> QED BY <1>1, <1>4, <1>5, <2>1, Climb
<1>7. g[m] = g[n] \o last
  <2>1. m \in 1 .. m /\ m - 1 = n
    BY <1>1
  <2> HIDE DEF m, n
  <2>2. g[m] = g[m - 1] \o more[m]
    BY <1>1, <1>3, <2>1 DEF Flattens
  <2> QED BY <1>1, <2>1, <2>2
<1>8. f[n] \in Seq(A)
  <2>1. n \in 0 .. n
    BY <1>1
  <2> HIDE DEF n
  <2> QED BY <1>2, <2>1
<1> QED BY <1>2, <1>3, <1>6, <1>7, <1>8 DEF more

\* The part of the input in front of each position that ranges leave.
Left(ranges, f) ==
  /\ f[0] = <<>>
  /\ \A i \in 1 .. Size :
       f[i] = IF Holds(ranges, canonical[i].from) THEN f[i - 1] ELSE Append(f[i - 1], canonical[i].char)

\* It is written character by character.
LEMMA LeftSteps ==
  ASSUME canonical \in Seq(Norm), NEW ranges
  PROVE  \E f \in [0 .. Size -> Seq(Nat)] : Left(ranges, f)
<1> DEFINE V == Seq(Nat)
           none == <<>>
           out(i) == Holds(ranges, canonical[i].from)
           step == [i \in 1 .. Size |->
                      [acc \in V |-> IF out(i) THEN acc ELSE Append(acc, canonical[i].char)]]
<1>1. Size \in Nat /\ none \in V /\ \A i \in 1 .. Size : canonical[i].char \in Nat
  BY NormParts DEF Size
<1>2. \A acc \in V : \A c \in Nat : Append(acc, c) \in V
  OBVIOUS
<1> HIDE DEF V, out
<1>3. step \in Steps(Size, V)
  BY <1>1, <1>2 DEF Steps
<1>4. PICK f \in [0 .. Size -> V] : Follows(f, none, step, Size)
  <2> HIDE DEF step, none
  <2> QED BY <1>1, <1>3, StepwiseFunction
<1>5. ASSUME NEW i \in 1 .. Size
      PROVE  f[i] = IF out(i) THEN f[i - 1] ELSE Append(f[i - 1], canonical[i].char)
  <2>1. i - 1 \in 0 .. Size
    BY <1>1
  <2>2. f[i] = step[i][f[i - 1]] /\ f[i - 1] \in V
    BY <1>4, <2>1 DEF Follows
  <2> QED BY <2>1, <2>2
<1>6. f[0] = <<>>
  BY <1>4 DEF Follows
<1> QED BY <1>4, <1>5, <1>6 DEF Left, V, out

\* A chain never goes back.
LEMMA ChainGrows ==
  ASSUME NEW edges \in Seq(Edges), NEW p, Chain(edges, p), NEW k \in 0 .. Len(edges),
         NEW i \in 0 .. k
  PROVE  EndOf(edges, i) <= EndOf(edges, k) /\ EndOf(edges, i) \in Nat /\ EndOf(edges, k) \in Nat
<1> DEFINE n == Len(edges)
           at(j) == EndOf(edges, j)
           D == {m \in 0 .. n : \A j \in 0 .. m : at(j) <= at(m)}
<1>1. n \in Nat /\ \A j \in 1 .. n : /\ edges[j].begin \in Nat /\ edges[j].end \in Nat
                                     /\ edges[j].begin < edges[j].end
  <2>1. \A e \in Edges : e.begin \in Nat /\ e.end \in Nat /\ e.begin < e.end
    BY DEF Edges
  <2>2. n \in Nat /\ \A j \in 1 .. n : edges[j] \in Edges
    OBVIOUS
  <2> QED BY <2>1, <2>2
<1>2. \A j \in 1 .. n : edges[j].begin = at(j - 1) /\ edges[j].end = at(j)
  BY <1>1 DEF Chain, EndOf
<1>3. \A j \in 0 .. n : at(j) \in Nat
  BY <1>1 DEF EndOf
<1> HIDE DEF at, n
<1>4. 0 \in D
  BY <1>1, <1>3
<1>5. ASSUME NEW m \in D, m < n PROVE m + 1 \in D
  <2> DEFINE l == m + 1
  <2>1. l \in 1 .. n /\ l \in 0 .. n /\ l - 1 = m /\ m \in 0 .. n /\ \A j \in 0 .. l : j \in 0 .. m \/ j = l
    BY <1>1, <1>5
  <2> HIDE DEF l
  <2>2. at(m) < at(l) /\ at(m) \in Nat /\ at(l) \in Nat
    BY <1>1, <1>2, <1>3, <2>1
  <2>3. \A j \in 0 .. m : at(j) <= at(m) /\ at(j) \in Nat
    BY <1>1, <1>3, <1>5
  <2>4. \A j \in 0 .. l : at(j) <= at(l)
    BY ONLY <2>1, <2>2, <2>3
  <2> QED BY <2>1, <2>4 DEF l
<1>6. D = 0 .. n
  <2>1. D \in SUBSET (0 .. n)
    OBVIOUS
  <2> HIDE DEF D
  <2> QED BY <1>1, <1>4, <1>5, <2>1, ClimbAll
<1>7. k \in 0 .. n /\ i \in 0 .. n /\ i \in 0 .. k
  BY <1>1 DEF n
<1> QED BY <1>3, <1>6, <1>7 DEF at

\* No two edges of a chain hold a byte in common.
LEMMA EdgesApart ==
  ASSUME NEW edges \in Seq(Edges), NEW p, Chain(edges, p), NEW i \in 1 .. Len(edges),
         NEW k \in 1 .. Len(edges), i < k, NEW j \in Nat,
         edges[i].begin < j, j <= edges[i].end
  PROVE  ~(edges[k].begin < j /\ j <= edges[k].end)
<1> DEFINE l == k - 1
<1>1. l \in 0 .. Len(edges) /\ i \in 0 .. l
  OBVIOUS
<1>2. EndOf(edges, i) = edges[i].end /\ edges[k].begin = EndOf(edges, l)
  BY DEF Chain, EndOf
<1> HIDE DEF l
<1>3. EndOf(edges, i) <= EndOf(edges, l) /\ EndOf(edges, i) \in Nat /\ EndOf(edges, l) \in Nat
  BY <1>1, ChainGrows
<1> QED BY <1>2, <1>3

\* A byte is left over exactly when the edge that holds it is invalid.
LEMMA LeftOverByEdge ==
  ASSUME NEW edges \in Seq(Edges), NEW p, Chain(edges, p), NEW k \in 1 .. Len(edges),
         NEW j \in 1 .. Size, edges[k].begin < j, j <= edges[k].end
  PROVE  j \in LeftOver(edges, Len(edges)) <=> edges[k].invalid
<1>1. ASSUME NEW i \in 1 .. Len(edges), edges[i].begin < j, j <= edges[i].end PROVE i = k
  <2>1. j \in Nat /\ i \in Nat /\ k \in Nat
    OBVIOUS
  <2>2. ~(i < k)
    BY <1>1, <2>1, EdgesApart
  <2>3. ~(k < i)
    BY <1>1, <2>1, EdgesApart
  <2> QED BY <2>1, <2>2, <2>3
<1> QED BY <1>1 DEF LeftOver

\* Ranges hold a byte exactly when it is left over: no two bytes were typed at one offset.
LEMMA HeldIsLeftOver ==
  ASSUME canonical \in Seq(Norm), Ordered(canonical), NEW ranges,
         NEW left \in SUBSET (1 .. Size), RangesHold(ranges, left, Size), NEW j \in 1 .. Size
  PROVE  Holds(ranges, canonical[j].from) <=> j \in left
<1>1. Size = Len(canonical) /\ \A i \in 1 .. Size : canonical[i].from \in Nat
  BY NormParts DEF Size
<1>2. ASSUME NEW k \in left, canonical[k].from = canonical[j].from PROVE k = j
  <2>1. k \in 1 .. Len(canonical) /\ j \in 1 .. Len(canonical)
    BY <1>1
  <2>2. k < j => canonical[k].from < canonical[j].from
    BY <2>1 DEF Ordered
  <2>3. j < k => canonical[j].from < canonical[k].from
    BY <2>1 DEF Ordered
  <2> QED BY <1>1, <1>2, <2>1, <2>2, <2>3
<1>3. Holds(ranges, canonical[j].from) <=> \E k \in left : canonical[k].from = canonical[j].from
  BY <1>1 DEF RangesHold
<1> QED BY <1>2, <1>3

\* Nothing is written of what the ranges hold.
LEMMA HeldIsLeftOut ==
  ASSUME canonical \in Seq(Norm), NEW ranges, NEW f \in [0 .. Size -> Seq(Nat)],
         Left(ranges, f), NEW p \in 0 .. Size, NEW q \in p .. Size,
         \A j \in p + 1 .. q : Holds(ranges, canonical[j].from)
  PROVE  f[q] = f[p]
<1> DEFINE n == q - p
           D == {m \in 0 .. n : f[p + m] = f[p]}
<1>1. Size \in Nat /\ p \in Nat /\ n \in Nat /\ p + n = q /\ p + 0 = p
  BY NormParts DEF Size
<1> HIDE DEF n
<1>2. ASSUME NEW m \in D, m < n PROVE m + 1 \in D
  <2> DEFINE j == p + m + 1
             i == p + m
  <2>1. j \in 1 .. Size /\ j \in p + 1 .. q /\ j - 1 = i /\ m + 1 \in 0 .. n /\ p + (m + 1) = j
    BY <1>1, <1>2
  <2>2. f[i] = f[p]
    OBVIOUS
  <2> HIDE DEF i, j
  <2>3. f[j] = f[p]
    BY <2>1, <2>2 DEF Left
  <2> QED BY <2>1, <2>3
<1>3. n \in D
  <2>1. D \in SUBSET (0 .. n) /\ 0 \in D
    BY <1>1
  <2> HIDE DEF D
  <2> QED BY <1>1, <1>2, <2>1, Climb
<1> QED BY <1>1, <1>3

\* Appending to a joined sequence.
LEMMA AppendBehind ==
  ASSUME NEW s \in Seq(Nat), NEW u \in Seq(Nat), NEW c \in Nat
  PROVE  Append(s \o u, c) = s \o Append(u, c)
<1> DEFINE left == Append(s \o u, c)
           right == s \o Append(u, c)
           n == Len(s) + Len(u) + 1
<1>1. left \in Seq(Nat) /\ right \in Seq(Nat) /\ Len(left) = n /\ Len(right) = n
  OBVIOUS
<1>2. ASSUME NEW i \in 1 .. n PROVE left[i] = right[i]
  OBVIOUS
<1> HIDE DEF left, right, n
<1> QED BY <1>1, <1>2, SeqEqual DEF left, right

\* A word outside the ranges is written as it stands.
LEMMA OthersAreKept ==
  ASSUME canonical \in Seq(Norm), NEW ranges, NEW f \in [0 .. Size -> Seq(Nat)],
         Left(ranges, f), NEW p \in 0 .. Size, NEW q \in p .. Size,
         \A j \in p + 1 .. q : ~Holds(ranges, canonical[j].from)
  PROVE  f[q] = f[p] \o Word(canonical, p, q)
<1> DEFINE n == q - p
           w(m) == [i \in 1 .. m |-> canonical[p + i].char]
           D == {m \in 0 .. n : f[p + m] = f[p] \o w(m)}
<1>1. /\ Size \in Nat /\ p \in Nat /\ n \in Nat /\ p + n = q /\ p + 0 = p /\ f[p] \in Seq(Nat)
      /\ \A j \in p + 1 .. q : canonical[j].char \in Nat
  <2>1. Size \in Nat /\ \A j \in 1 .. Size : canonical[j].char \in Nat
    BY NormParts DEF Size
  <2>2. \A j \in p + 1 .. q : j \in 1 .. Size
    BY <2>1
  <2> QED BY <2>1, <2>2
<1>2. Word(canonical, p, q) = w(n)
  BY DEF Word
<1> HIDE DEF n
<1>3. \A m \in 0 .. n : \A i \in 1 .. m : p + i \in p + 1 .. q
  BY <1>1
<1>4. \A m \in 0 .. n : w(m) \in Seq(Nat) /\ Len(w(m)) = m
  BY <1>1, <1>3
<1>5. 0 \in D
  <2>1. w(0) = <<>>
    OBVIOUS
  <2> HIDE DEF w
  <2>2. f[p] \o w(0) = f[p]
    BY <1>1, <2>1
  <2> QED BY <1>1, <2>2
<1>6. ASSUME NEW m \in D, m < n PROVE m + 1 \in D
  <2> DEFINE l == m + 1
             j == p + l
             i == p + m
             c == canonical[j].char
             s == f[p]
             u == w(m)
  <2>1. /\ j \in 1 .. Size /\ j \in p + 1 .. q /\ j - 1 = i /\ l \in 0 .. n /\ m \in 0 .. n
        /\ c \in Nat /\ l = m + 1
    BY <1>1, <1>6
  <2>2. f[i] = s \o u /\ s \in Seq(Nat) /\ u \in Seq(Nat) /\ Len(u) = m
    <3> HIDE DEF w
    <3> QED BY <1>1, <1>4, <2>1
  <2>3. w(l) = Append(u, c)
    <3> DEFINE v == Append(u, c)
    <3>1. \A k \in 1 .. m : u[k] = canonical[p + k].char
      BY <2>1
    <3> HIDE DEF u, c, l
    <3>2. v \in [1 .. l -> Nat] /\ v[l] = c /\ \A k \in 1 .. m : v[k] = u[k]
      <4>1. v \in Seq(Nat) /\ Len(v) = m + 1 /\ v[m + 1] = c /\ \A k \in 1 .. m : v[k] = u[k]
        BY ONLY <2>1, <2>2, AppendProperties
      <4> HIDE DEF v
      <4>2. v \in [1 .. l -> Nat]
        BY ONLY <2>1, <4>1
      <4> QED BY ONLY <2>1, <4>1, <4>2
    <3>3. \A k \in 1 .. l : k = l \/ k \in 1 .. m
      BY <2>1
    <3> HIDE DEF v
    <3>4. \A k \in 1 .. l : v[k] = canonical[p + k].char
      BY <3>1, <3>2, <3>3 DEF c, j
    <3>5. v = [k \in 1 .. l |-> canonical[p + k].char]
      BY <3>2, <3>4
    <3> QED BY <3>5 DEF v
  <2> HIDE DEF i, j, c, u, s, w
  <2>4. f[j] = Append(f[i], c)
    BY <2>1 DEF Left, c
  <2>5. Append(s \o u, c) = s \o Append(u, c)
    BY ONLY <2>1, <2>2, AppendBehind
  <2>6. f[j] = s \o w(l)
    BY <2>2, <2>3, <2>4, <2>5
  <2> QED BY <2>1, <2>6 DEF s, j
<1>7. n \in D
  <2>1. D \in SUBSET (0 .. n)
    OBVIOUS
  <2> HIDE DEF D
  <2> QED BY <1>1, <1>5, <1>6, <2>1, Climb
<1> HIDE DEF w
<1> QED BY <1>1, <1>2, <1>7

\* The segments of the answer when one more edge is added without repair.
LEMMA SegmentsOfEdge ==
  ASSUME NEW acc \in Answers, NEW e, ~Repairs
  PROVE  AddEdge(acc, e).segments
           = IF e.invalid THEN acc.segments
             ELSE Append(acc.segments, Word(canonical, e.begin, e.end))
<1> DEFINE token == Word(canonical, e.begin, e.end)
           ranges == append_invalid(acc.invalid_ranges, e)
<1>1. acc = [segments |-> acc.segments, invalid_ranges |-> acc.invalid_ranges]
  BY DEF Answers
<1>2. AddEdge(acc, e) = IF ~e.invalid THEN [acc EXCEPT !.segments = Append(@, token)]
                        ELSE [segments       |-> acc.segments,
                              invalid_ranges |-> ranges]
  BY DEF AddEdge
<1> HIDE DEF token, ranges
<1>3. [acc EXCEPT !.segments = Append(@, token)].segments = Append(acc.segments, token)
  BY <1>1
<1> QED BY <1>2, <1>3 DEF token

\* Without repair, the segments of a path through the input are the text that its ranges
\* leave.
LEMMA TextAnswered ==
  ASSUME canonical \in Seq(Norm), Written(canonical), Ordered(canonical), ~Repairs, NEW allow,
         NEW edges \in Seq(LegalEdges(canonical, allow)), Chain(edges, Size), NEW ranges,
         ranges = AddEdges(edges).invalid_ranges, NEW g \in [0 .. Size -> Seq(Nat)],
         Left(ranges, g)
  PROVE  FlattenSeq(AddEdges(edges).segments) = g[Size]
<1> DEFINE n == Len(edges)
           left == LeftOver(edges, n)
<1>1. /\ n \in Nat /\ Size \in Nat /\ Size = Len(canonical)
      /\ \A i \in 1 .. n : edges[i] \in LegalEdges(canonical, allow)
      /\ \A i \in 1 .. Size : canonical[i].char \in Nat
  BY NormParts DEF Size
<1>2. edges \in Seq(EdgesIn(Size)) /\ edges \in Seq(Edges)
  <2>1. LegalEdges(canonical, allow) \subseteq EdgesIn(Size)
    BY WrittenIsCut, LegalEdgesIn DEF Size
  <2>2. EdgesIn(Size) \subseteq Edges
    BY DEF EdgesIn
  <2>3. edges \in Seq(EdgesIn(Size))
    BY <2>1
  <2> QED BY <2>2, <2>3
<1>3. PICK f : /\ f[0] = NoAnswer /\ AddEdges(edges) = f[n]
               /\ \A i \in 1 .. n : f[i] = AddEdge(f[i - 1], edges[i])
               /\ \A i \in 0 .. n : f[i] \in Answers
  BY <1>2, PathAnswered
<1>4. EndOf(edges, 0) = 0 /\ EndOf(edges, n) = Size
      /\ \A i \in 1 .. n : EndOf(edges, i) = edges[i].end /\ edges[i].begin = EndOf(edges, i - 1)
  BY DEF Chain, EndOf
<1>5. RangesHold(ranges, left, Size)
  BY RangesAnswered
<1>6. left \in SUBSET (1 .. Size)
  BY DEF LeftOver
<1>7. ASSUME NEW k \in 1 .. n, NEW j \in 1 .. Size, edges[k].begin < j, j <= edges[k].end
      PROVE  Holds(ranges, canonical[j].from) <=> edges[k].invalid
  <2>1. j \in left <=> edges[k].invalid
    BY <1>2, <1>7, LeftOverByEdge
  <2> HIDE DEF left, n
  <2> QED BY <1>5, <1>6, <2>1, HeldIsLeftOver
<1> HIDE DEF n, left
<1> DEFINE Text(k) == /\ f[k].segments \in Seq(Seq(Nat))
                      /\ FlattenSeq(f[k].segments) = g[EndOf(edges, k)]
           D == {k \in 0 .. n : Text(k)}
<1>8. Text(0)
  <2>1. f[0].segments = <<>> /\ g[0] = <<>> /\ <<>> \in Seq(Seq(Nat)) /\ Len(<<>>) = 0
    BY <1>3 DEF NoAnswer, Left
  <2> QED BY <1>4, <2>1 DEF FlattenSeq
<1>9. ASSUME NEW k \in 1 .. n, Text(k - 1) PROVE Text(k)
  <2> DEFINE e == edges[k]
             acc == f[k - 1]
             p == e.begin
             q == e.end
             token == Word(canonical, p, q)
  <2>1. /\ e \in LegalEdges(canonical, allow) /\ p = EndOf(edges, k - 1) /\ q = EndOf(edges, k)
        /\ acc \in Answers /\ f[k] = AddEdge(acc, e)
    <3>1. k - 1 \in 0 .. n
      BY <1>1
    <3> QED BY <1>1, <1>3, <1>4, <3>1
  <2>2. acc.segments \in Seq(Seq(Nat)) /\ FlattenSeq(acc.segments) = g[p]
    BY <1>9, <2>1
  <2>3. \A j \in 1 .. Size : p < j /\ j <= q => (Holds(ranges, canonical[j].from) <=> e.invalid)
    BY <1>7
  <2> HIDE DEF e, acc
  <2>4. f[k].segments = IF e.invalid THEN acc.segments ELSE Append(acc.segments, token)
    BY <2>1, SegmentsOfEdge
  <2>5. e.begin \in 0 .. Size - 1 /\ e.end \in e.begin + 1 .. Size /\ e.invalid \in BOOLEAN
    BY <2>1, InvalidIsCharacter
  <2>6. /\ p \in 0 .. Size /\ q \in p .. Size
        /\ \A j \in p + 1 .. q : j \in 1 .. Size /\ p < j /\ j <= q
    BY <1>1, <2>5
  <2>7. token \in Seq(Nat)
    <3> DEFINE m == q - p
    <3> HIDE DEF p, q
    <3>1. m \in Nat /\ \A i \in 1 .. m : p + i \in p + 1 .. q
      BY <1>1, <2>6
    <3>2. \A i \in 1 .. m : canonical[p + i].char \in Nat
      BY <1>1, <2>6, <3>1
    <3>3. token = [i \in 1 .. m |-> canonical[p + i].char]
      BY DEF Word
    <3> HIDE DEF m, token
    <3> QED BY <3>1, <3>2, <3>3
  <2> HIDE DEF p, q, token
  <2>8. CASE e.invalid
    <3>1. g[q] = g[p]
      BY <2>3, <2>6, <2>8, HeldIsLeftOut
    <3> QED BY <2>1, <2>2, <2>4, <2>8, <3>1
  <2>9. CASE ~e.invalid
    <3>1. g[q] = g[p] \o token
      BY <2>3, <2>6, <2>9, OthersAreKept DEF token
    <3> DEFINE pieces == acc.segments
    <3>2. pieces \in Seq(Seq(Nat)) /\ token \in Seq(Nat)
      BY <2>2, <2>7
    <3> HIDE DEF pieces
    <3>3. Append(pieces, token) \in Seq(Seq(Nat))
      BY ONLY <3>2
    <3>4. FlattenSeq(Append(pieces, token)) = FlattenSeq(pieces) \o token
      BY ONLY <3>2, FlattenAppend
    <3> QED BY <2>1, <2>2, <2>4, <2>9, <3>1, <3>3, <3>4 DEF pieces
  <2> QED BY <2>8, <2>9
<1>10. n \in D
  <2>1. 0 \in D /\ D \in SUBSET (0 .. n)
    BY <1>1, <1>8
  <2>2. ASSUME NEW k \in D, k < n PROVE k + 1 \in D
    <3> DEFINE j == k + 1
    <3>1. j \in 1 .. n /\ j - 1 = k /\ j \in 0 .. n /\ Text(k)
      BY <1>1, <2>2
    <3> HIDE DEF j, Text
    <3>2. Text(j)
      BY <1>9, <3>1
    <3> QED BY <3>1, <3>2 DEF j
  <2> HIDE DEF D
  <2> QED BY <1>1, <2>1, <2>2, Climb
<1> QED BY <1>3, <1>4, <1>10

\* The kept text is what the ranges answered leave.
LEMMA KeptIsLeft ==
  ASSUME canonical \in Seq(Norm), NEW ranges \in Seq(Spans), NEW g \in [0 .. Size -> Seq(Nat)],
         Left(ranges, g), canonical' = canonical, result'.invalid_ranges = ranges
  PROVE  Kept' = g[Size]
<1> DEFINE next(f, i) == IF i = 0 THEN <<>>
                         ELSE IF InRanges(canonical[i].from)' THEN f[i - 1]
                         ELSE Append(f[i - 1], canonical'[i].char)
           upTo == CHOOSE f : f = [i \in 0 .. Size' |-> next(f, i)]
<1>1. Size' = Size /\ Size \in Nat
  BY DEF Size
<1>2. ASSUME NEW i \in 1 .. Size PROVE InRanges(canonical[i].from)' <=> Holds(ranges, canonical[i].from)
  <2>1. DOMAIN ranges = 1 .. Len(ranges)
    OBVIOUS
  <2> QED BY <2>1 DEF InRanges, Holds, Range
<1>3. Kept' = upTo[Size']
  BY DEF Kept
<1>4. g[0] = <<>> /\ \A i \in 1 .. Size :
        g[i] = IF Holds(ranges, canonical[i].from) THEN g[i - 1] ELSE Append(g[i - 1], canonical[i].char)
  BY DEF Left
<1>5. \A f : \A i \in 0 .. Size :
        next(f, i) = IF i = 0 THEN <<>>
                     ELSE IF Holds(ranges, canonical[i].from) THEN f[i - 1]
                     ELSE Append(f[i - 1], canonical[i].char)
  <2>1. \A i \in 0 .. Size : i = 0 \/ i \in 1 .. Size
    BY <1>1
  <2> QED BY <1>2, <2>1
<1> HIDE DEF next
<1>6. g = [i \in 0 .. Size' |-> next(g, i)]
  <2>1. ASSUME NEW i \in 0 .. Size PROVE g[i] = next(g, i)
    <3>1. i = 0 \/ i \in 1 .. Size
      BY <1>1
    <3> QED BY <1>4, <1>5, <3>1
  <2>2. g = [i \in 0 .. Size |-> g[i]]
    OBVIOUS
  <2> QED BY <1>1, <2>1, <2>2
<1>7. upTo = [i \in 0 .. Size' |-> next(upTo, i)]
  BY <1>6
<1> HIDE DEF upTo
<1> DEFINE D == {k \in 0 .. Size : upTo[k] = g[k]}
<1>8. \A i \in 0 .. Size : upTo[i] = next(upTo, i)
  BY <1>1, <1>7
<1>9. 0 \in D
  <2>1. 0 \in 0 .. Size
    BY <1>1
  <2> QED BY <1>4, <1>5, <1>8, <2>1
<1>10. ASSUME NEW k \in D, k < Size PROVE k + 1 \in D
  <2> DEFINE j == k + 1
  <2>1. j \in 1 .. Size /\ j \in 0 .. Size /\ j # 0 /\ j - 1 = k
    BY <1>1, <1>10
  <2> HIDE DEF j
  <2>2. upTo[j] = g[j]
    BY <1>4, <1>5, <1>8, <2>1
  <2> QED BY <2>1, <2>2 DEF j
<1>11. Size \in D
  <2>1. D \in SUBSET (0 .. Size)
    OBVIOUS
  <2> HIDE DEF D
  <2> QED BY <1>1, <1>9, <1>10, <2>1, Climb
<1> QED BY <1>1, <1>3, <1>11

-----------------------------------------------------------------------------
(* The nearest word *)

Bigger(i, j) == IF i >= j THEN i ELSE j

Seen(c, b, j) == \E k \in 1 .. j : b[k] = c

\* How far i times the letter c is from the first j letters of b.
Dist(c, b, i, j) == Bigger(i, j) - IF i >= 1 /\ Seen(c, b, j) THEN 1 ELSE 0

\* The greater of two numbers.
LEMMA MaxOfTwo ==
  ASSUME NEW i \in Nat, NEW j \in Nat
  PROVE  Max({i, j}) = Bigger(i, j)
<1> DEFINE n == Bigger(i, j)
           T == {i, j}
<1>1. n \in Nat /\ T \in SUBSET (0 .. n) /\ T # {} /\ i \in T /\ j \in T
  BY DEF Bigger
<1>2. \A x \in T : x = i \/ x = j
  OBVIOUS
<1> HIDE DEF T, n
<1>3. Max(T) \in T /\ \A y \in T : y <= Max(T)
  BY <1>1, MaxIsGreatest
<1>4. Max(T) = Bigger(i, j)
  <2> DEFINE m == Max(T)
  <2>1. (m = i \/ m = j) /\ i <= m /\ j <= m
    BY <1>1, <1>2, <1>3
  <2> HIDE DEF m
  <2>2. m = Bigger(i, j)
    BY ONLY <2>1, i \in Nat, j \in Nat DEF Bigger
  <2> QED BY <2>2 DEF m
<1> QED BY <1>4 DEF T

LeastOf(m, x, y, z) == (m = x \/ m = y \/ m = z) /\ m <= x /\ m <= y /\ m <= z

\* The least of three numbers.
LEMMA MinOfThree ==
  ASSUME NEW x \in Nat, NEW y \in Nat, NEW z \in Nat
  PROVE  LeastOf(Min({x, y, z}), x, y, z)
<1> DEFINE T == {x, y, z}
<1>1. T \in SUBSET Nat /\ T # {} /\ x \in T /\ y \in T /\ z \in T
      /\ \A v \in T : v = x \/ v = y \/ v = z
  OBVIOUS
<1> HIDE DEF T
<1>2. Min(T) \in T /\ \A y_ \in T : Min(T) <= y_
  BY <1>1, MinIsLeast
<1>3. LeastOf(Min(T), x, y, z)
  BY <1>1, <1>2 DEF LeastOf
<1> QED BY <1>3 DEF T

\* Distances are numbers, and those from nothing or to nothing are lengths.
LEMMA DistTyped ==
  ASSUME NEW c, NEW b, NEW i \in Nat, NEW j \in Nat
  PROVE  /\ Dist(c, b, i, j) \in Nat
         /\ i = 0 => Dist(c, b, i, j) = j
         /\ j = 0 => Dist(c, b, i, j) = i
<1>1. j = 0 => ~Seen(c, b, j)
  BY DEF Seen
<1> QED BY <1>1 DEF Dist, Bigger

\* Distances follow the recurrence of edit_distance: a letter met again, or one that is in
\* no word.
LEMMA DistFollows ==
  ASSUME NEW c, NEW b, NEW h \in Nat, NEW i \in Nat, h < i, i <= h + 1,
         NEW l \in Nat, NEW j \in Nat, l < j, j <= l + 1, i = 1 \/ ~Seen(c, b, j),
         NEW m, LeastOf(m, Dist(c, b, h, j), Dist(c, b, i, l), Dist(c, b, h, l))
  PROVE  Dist(c, b, i, j) = IF c = b[j] THEN Dist(c, b, h, l) ELSE 1 + m
<1>1. /\ Dist(c, b, h, l) \in Nat /\ Dist(c, b, h, j) \in Nat /\ Dist(c, b, i, l) \in Nat
  BY DistTyped
<1>0. i = h + 1 /\ j = l + 1
  OBVIOUS
<1>2. Seen(c, b, j) <=> Seen(c, b, l) \/ c = b[j]
  <2>1. \A k : k \in 1 .. j <=> k \in 1 .. l \/ k = j
    OBVIOUS
  <2> QED BY <2>1 DEF Seen
<1>3. ~Seen(c, b, 0)
  BY DEF Seen
<1>4. CASE c = b[j]
  <2>1. i = 1 /\ h = 0 /\ Seen(c, b, j)
    BY <1>0, <1>2, <1>4
  <2>2. Dist(c, b, i, j) = j - 1 /\ Dist(c, b, h, l) = l
    BY <1>0, <2>1 DEF Dist, Bigger
  <2> QED BY <1>4, <2>2
<1>5. CASE c # b[j]
  <2> DEFINE x == Dist(c, b, h, j)
             y == Dist(c, b, i, l)
             z == Dist(c, b, h, l)
  <2>1. (m = x \/ m = y \/ m = z) /\ m <= x /\ m <= y /\ m <= z
    BY DEF LeastOf
  <2>2. Dist(c, b, i, j) = 1 + m
    <3>1. CASE ~Seen(c, b, j)
      <4>1. ~Seen(c, b, l)
        BY <1>2, <3>1
      <4>2. x = Bigger(h, j) /\ y = Bigger(i, l) /\ z = Bigger(h, l)
        BY <3>1, <4>1 DEF Dist, Bigger
      <4>3. Dist(c, b, i, j) = Bigger(i, j)
        BY <3>1 DEF Dist, Bigger
      <4> HIDE DEF x, y, z
      <4> QED BY <1>0, <2>1, <4>2, <4>3 DEF Bigger
    <3>2. CASE Seen(c, b, j)
      <4>1. i = 1 /\ h = 0 /\ Seen(c, b, l) /\ l >= 1
        <5>1. i = 1 /\ h = 0 /\ Seen(c, b, l)
          BY <1>0, <1>2, <1>5, <3>2
        <5> QED BY <1>3, <5>1
      <4>2. x = j /\ z = l
        BY <4>1 DEF Dist, Bigger
      <4>3. y = l - 1 /\ Dist(c, b, i, j) = j - 1
        BY <3>2, <4>1 DEF Dist, Bigger
      <4> HIDE DEF x, y, z
      <4> QED BY <1>0, <2>1, <4>1, <4>2, <4>3
    <3> QED BY <3>1, <3>2
  <2> QED BY <1>5, <2>2
<1> QED BY <1>4, <1>5

\* One row of the table that edit_distance fills, behind a row.
Row(a, b, before, i) ==
  LET row[j \in 0 .. Len(b)] ==
        IF i = 0 THEN j ELSE IF j = 0 THEN i
        ELSE IF a[i] = b[j] THEN before[j - 1]
        ELSE 1 + Min({before[j], row[j - 1], before[j - 1]})
  IN  row

\* The distances of i letters.
DistRow(c, b, i) == [j \in 0 .. Len(b) |-> Dist(c, b, i, j)]

\* A row of the table holds the distances when the row before it does.
LEMMA RowHolds ==
  ASSUME NEW c, NEW b \in Seq(Nat), NEW i \in Nat, NEW a, NEW before,
         i = 0 \/ (a[i] = c /\ before = DistRow(c, b, i - 1)),
         i <= 1 \/ ~Seen(c, b, Len(b))
  PROVE  Row(a, b, before, i) = DistRow(c, b, i)
<1> DEFINE n == Len(b)
           next(f, j) == IF i = 0 THEN j ELSE IF j = 0 THEN i
                         ELSE IF a[i] = b[j] THEN before[j - 1]
                         ELSE 1 + Min({before[j], f[j - 1], before[j - 1]})
           row == CHOOSE f : f = [j \in 0 .. n |-> next(f, j)]
           d == DistRow(c, b, i)
<1>1. n \in Nat
  OBVIOUS
<1>2. Row(a, b, before, i) = row
  BY DEF Row
<1> HIDE DEF n
<1>3. ASSUME NEW j \in 0 .. n, NEW f, j = 0 \/ f[j - 1] = d[j - 1] PROVE next(f, j) = d[j]
  <2>1. j \in Nat /\ d[j] = Dist(c, b, i, j)
    BY <1>1 DEF DistRow, n
  <2>2. CASE i = 0
    BY <2>1, <2>2, DistTyped
  <2>3. CASE i # 0 /\ j = 0
    BY <2>1, <2>3, DistTyped
  <2>4. CASE i # 0 /\ j # 0
    <3> DEFINE l == j - 1
               h == i - 1
    <3>1. l \in Nat /\ j = l + 1 /\ h \in Nat /\ i = h + 1 /\ l \in 0 .. n /\ l = j - 1 /\ h = i - 1
      BY <1>1, <2>1, <2>4
    <3> HIDE DEF l, h
    <3>2. d[l] = Dist(c, b, i, l) /\ before[j] = Dist(c, b, h, j) /\ before[l] = Dist(c, b, h, l)
      BY <1>1, <2>4, <3>1 DEF DistRow, n
    <3>3. i = 1 \/ ~Seen(c, b, j)
      BY <1>1, <2>4 DEF Seen, n
    <3> DEFINE x == before[j]
               y == f[l]
               z == before[l]
               m == Min({x, y, z})
    <3>4. next(f, j) = IF c = b[j] THEN z ELSE 1 + m
      BY <2>4, <3>1
    <3>5. f[l] = d[l]
      BY <1>3, <2>4, <3>1
    <3> HIDE DEF next, d
    <3>6. x = Dist(c, b, h, j) /\ y = Dist(c, b, i, l) /\ z = Dist(c, b, h, l)
      BY ONLY <3>2, <3>5
    <3> HIDE DEF x, y, z
    <3>7. x \in Nat /\ y \in Nat /\ z \in Nat
      BY <2>1, <3>1, <3>6, DistTyped
    <3>8. LeastOf(m, x, y, z)
      BY <3>7, MinOfThree
    <3> HIDE DEF m
    <3>9. h < i /\ i <= h + 1 /\ l < j /\ j <= l + 1
      BY <2>1, <3>1
    <3>10. Dist(c, b, i, j) = IF c = b[j] THEN Dist(c, b, h, l) ELSE 1 + m
      BY <2>1, <3>1, <3>3, <3>6, <3>8, <3>9, DistFollows
    <3> QED BY ONLY <2>1, <3>4, <3>6, <3>10
  <2> QED BY <2>2, <2>3, <2>4
<1>4. d = [j \in 0 .. n |-> next(d, j)]
  <2>1. d = [j \in 0 .. n |-> d[j]]
    BY DEF DistRow, n
  <2> HIDE DEF next, d
  <2>2. \A j \in 0 .. n : next(d, j) = d[j]
    BY <1>3
  <2> QED BY <2>1, <2>2
<1> HIDE DEF d, next
<1>5. row = [j \in 0 .. n |-> next(row, j)]
  BY <1>4
<1> HIDE DEF row
<1>6. \A j \in 0 .. n : row[j] = next(row, j)
  BY <1>5
<1> DEFINE D == {k \in 0 .. n : row[k] = d[k]}
<1>7. 0 \in D
  <2>1. 0 \in 0 .. n
    BY <1>1
  <2> QED BY <1>3, <1>6, <2>1
<1>8. ASSUME NEW k \in D, k < n PROVE k + 1 \in D
  <2> DEFINE j == k + 1
  <2>1. j \in 0 .. n /\ j - 1 = k /\ row[k] = d[k]
    BY <1>1, <1>8
  <2> HIDE DEF j
  <2>2. row[j] = d[j]
    BY <1>3, <1>6, <2>1
  <2> QED BY <2>1, <2>2 DEF j
<1>9. D = 0 .. n
  <2>1. D \in SUBSET (0 .. n)
    OBVIOUS
  <2> HIDE DEF D
  <2> QED BY <1>1, <1>7, <1>8, <2>1, ClimbAll
<1>10. \A j \in 0 .. n : row[j] = d[j]
  BY <1>9
<1>11. d = [j \in 0 .. n |-> d[j]]
  BY DEF d, DistRow, n
<1>12. row = [j \in 0 .. n |-> row[j]]
  BY <1>5
<1> QED BY <1>2, <1>10, <1>11, <1>12 DEF d

\* What is left over of the input is one letter, once or, when it is in no word, more often:
\* edit_distance counts the other letters.
LEMMA DistanceIsEdits ==
  ASSUME NEW c, NEW w \in Nat \ {0}, NEW a, a = [i \in 1 .. w |-> c], NEW b \in Seq(Nat),
         w = 1 \/ ~Seen(c, b, Len(b))
  PROVE  edit_distance(a, b) = Edits(c, w, b) /\ Edits(c, w, b) \in Nat
<1> DEFINE n == Len(b)
           next(f, i) == Row(a, b, f[i - 1], i)
           dp == CHOOSE f : f = [i \in 0 .. Len(a) |-> next(f, i)]
           d == [i \in 0 .. w |-> DistRow(c, b, i)]
<1>1. Len(a) = w /\ w \in Nat /\ n \in Nat /\ \A i \in 1 .. w : a[i] = c
  OBVIOUS
<1>2. edit_distance(a, b) = dp[Len(a)][Len(b)]
  BY DEF edit_distance, Row
<1>3. ASSUME NEW i \in 0 .. w, NEW f, i = 0 \/ f[i - 1] = DistRow(c, b, i - 1)
      PROVE  next(f, i) = DistRow(c, b, i)
  <2> DEFINE before == f[i - 1]
  <2>1. i \in Nat /\ (i = 0 \/ (a[i] = c /\ before = DistRow(c, b, i - 1)))
        /\ (i <= 1 \/ ~Seen(c, b, n))
    BY <1>1, <1>3
  <2> HIDE DEF before
  <2>2. Row(a, b, before, i) = DistRow(c, b, i)
    BY <2>1, RowHolds
  <2> QED BY <2>2 DEF before
<1> HIDE DEF next
<1>4. d = [i \in 0 .. Len(a) |-> next(d, i)]
  <2>1. \A i \in 0 .. w : i # 0 => d[i - 1] = DistRow(c, b, i - 1)
    BY <1>1
  <2> DEFINE e == d
  <2> HIDE DEF e
  <2>2. \A i \in 0 .. w : next(e, i) = DistRow(c, b, i)
    BY <1>3, <2>1 DEF e
  <2> QED BY <1>1, <2>2 DEF e
<1>5. dp = [i \in 0 .. Len(a) |-> next(dp, i)]
  <2> HIDE DEF d
  <2> QED BY <1>4
<1> HIDE DEF dp
<1>6. \A i \in 0 .. w : dp[i] = next(dp, i)
  BY <1>1, <1>5
<1> DEFINE D == {k \in 0 .. w : dp[k] = DistRow(c, b, k)}
<1>7. 0 \in D
  <2>1. 0 \in 0 .. w
    BY <1>1
  <2> QED BY <1>3, <1>6, <2>1
<1>8. ASSUME NEW k \in D, k < w PROVE k + 1 \in D
  <2> DEFINE i == k + 1
  <2>1. i \in 0 .. w /\ i - 1 = k /\ dp[k] = DistRow(c, b, k)
    BY <1>1, <1>8
  <2> HIDE DEF i
  <2>2. dp[i] = DistRow(c, b, i)
    BY <1>3, <1>6, <2>1
  <2> QED BY <2>1, <2>2 DEF i
<1>9. w \in D
  <2>1. D \in SUBSET (0 .. w)
    OBVIOUS
  <2> HIDE DEF D
  <2> QED BY <1>1, <1>7, <1>8, <2>1, Climb
<1>10. edit_distance(a, b) = Dist(c, b, w, n)
  BY <1>1, <1>2, <1>9 DEF DistRow
<1>11. Seen(c, b, n) <=> c \in Range(b)
  BY DEF Seen, Range
<1>12. Dist(c, b, w, n) = Edits(c, w, b)
  BY <1>1, <1>11, MaxOfTwo DEF Dist, Edits
<1> QED BY <1>1, <1>10, <1>12, DistTyped

\* Where a word is smaller than another: at a letter, or because it ends there.
SmallerAt(v, w, i) ==
  /\ \A j \in 1 .. i - 1 : j <= Len(v) /\ v[j] = w[j]
  /\ Len(v) = i - 1 \/ (i <= Len(v) /\ v[i] < w[i])

\* The order of words goes by the first letter in which they differ.
LEMMA SmallerSomewhere ==
  ASSUME NEW v \in Seq(Nat), NEW w \in Seq(Nat)
  PROVE  SmallerWord(v, w) <=> \E i \in 1 .. Len(w) : SmallerAt(v, w, i)
<1> DEFINE m == Len(v)
           n == Len(w)
<1>1. /\ m \in Nat /\ n \in Nat /\ DOMAIN v = 1 .. m /\ DOMAIN w = 1 .. n
      /\ \A i \in 1 .. m : v[i] \in Nat
      /\ \A i \in 1 .. n : w[i] \in Nat
  OBVIOUS
<1>2. IsPrefix(v, w) <=> m <= n /\ \A i \in 1 .. m : v[i] = w[i]
  <2>1. CASE m <= n
    <3>1. /\ SubSeq(v, 1, m) = [i \in 1 .. m |-> v[i]]
          /\ SubSeq(w, 1, m) = [i \in 1 .. m |-> w[i]]
      BY <1>1, <2>1
    <3>2. SubSeq(v, 1, m) = SubSeq(w, 1, m) <=> \A i \in 1 .. m : v[i] = w[i]
      BY ONLY <3>1
    <3> QED BY <2>1, <3>2 DEF IsPrefix
  <2>2. CASE ~(m <= n)
    BY <2>2 DEF IsPrefix
  <2> QED BY <2>1, <2>2
<1>3. v = w <=> m = n /\ \A i \in 1 .. m : v[i] = w[i]
  BY SeqEqual
<1> HIDE DEF m, n
<1>4. ASSUME IsStrictPrefix(v, w) PROVE \E i \in 1 .. n : SmallerAt(v, w, i)
  <2> DEFINE i == m + 1
  <2>1. m <= n /\ m # n /\ \A j \in 1 .. m : v[j] = w[j]
    BY <1>2, <1>3, <1>4 DEF IsStrictPrefix
  <2>2. i \in 1 .. n /\ i - 1 = m
    BY <1>1, <2>1
  <2> HIDE DEF i
  <2>3. Len(v) = i - 1 /\ \A j \in 1 .. i - 1 : j <= Len(v) /\ v[j] = w[j]
    <3>1. \A j \in 1 .. m : j <= m
      BY <1>1
    <3> QED BY <2>1, <2>2, <3>1 DEF m
  <2>4. SmallerAt(v, w, i)
    BY <2>3 DEF SmallerAt
  <2> QED BY <2>2, <2>4
<1>5. ASSUME NEW i \in DOMAIN v \cap DOMAIN w, v[i] < w[i], \A j \in 1 .. i - 1 : v[j] = w[j]
      PROVE  \E k \in 1 .. n : SmallerAt(v, w, k)
  <2>1. i \in 1 .. n /\ i \in 1 .. m
    BY <1>1
  <2>2. \A j \in 1 .. i - 1 : j <= m
    BY <1>1, <2>1
  <2>3. i <= m
    BY ONLY <1>1, <2>1
  <2>4. SmallerAt(v, w, i)
    BY <1>5, <2>2, <2>3 DEF SmallerAt, m
  <2> QED BY <2>1, <2>4
<1>6. ASSUME NEW i \in 1 .. n, SmallerAt(v, w, i) PROVE SmallerWord(v, w)
  <2>1. \A j \in 1 .. i - 1 : j <= m /\ v[j] = w[j]
    BY <1>6 DEF SmallerAt, m
  <2>2. CASE m = i - 1
    <3>1. m <= n /\ m # n /\ \A j \in 1 .. m : v[j] = w[j]
      BY <1>1, <2>1, <2>2
    <3> QED BY <1>2, <1>3, <3>1 DEF SmallerWord, IsStrictPrefix
  <2>3. CASE i <= m /\ v[i] < w[i]
    <3>1. i \in DOMAIN v \cap DOMAIN w
      BY <1>1, <2>3
    <3> QED BY <2>1, <2>3, <3>1 DEF SmallerWord
  <2> QED BY <1>6, <2>2, <2>3 DEF SmallerAt, m
<1> QED BY <1>4, <1>5, <1>6 DEF SmallerWord, n

\* It is a strict order.
LEMMA SmallerIsStrict ==
  ASSUME NEW u \in Seq(Nat), NEW v \in Seq(Nat), NEW w \in Seq(Nat)
  PROVE  /\ ~SmallerWord(v, v)
         /\ SmallerWord(u, v) /\ SmallerWord(v, w) => SmallerWord(u, w)
<1>1. /\ Len(u) \in Nat /\ Len(v) \in Nat /\ Len(w) \in Nat
      /\ \A i \in 1 .. Len(u) : u[i] \in Nat
      /\ \A i \in 1 .. Len(v) : v[i] \in Nat
      /\ \A i \in 1 .. Len(w) : w[i] \in Nat
  OBVIOUS
<1>2. ~SmallerWord(v, v)
  <2>1. ASSUME NEW i \in 1 .. Len(v), SmallerAt(v, v, i) PROVE FALSE
    BY <1>1, <2>1 DEF SmallerAt
  <2> QED BY <2>1, SmallerSomewhere
<1>3. ASSUME SmallerWord(u, v), SmallerWord(v, w) PROVE SmallerWord(u, w)
  <2>1. PICK i \in 1 .. Len(v) : SmallerAt(u, v, i)
    BY <1>3, SmallerSomewhere
  <2>2. PICK k \in 1 .. Len(w) : SmallerAt(v, w, k)
    BY <1>3, SmallerSomewhere
  <2>3. /\ \A j \in 1 .. i - 1 : j <= Len(u) /\ u[j] = v[j]
        /\ Len(u) = i - 1 \/ (i <= Len(u) /\ u[i] < v[i])
        /\ i \in Nat /\ 1 <= i /\ i <= Len(v)
    BY <1>1, <2>1 DEF SmallerAt
  <2>4. /\ \A j \in 1 .. k - 1 : j <= Len(v) /\ v[j] = w[j]
        /\ Len(v) = k - 1 \/ (k <= Len(v) /\ v[k] < w[k])
        /\ k \in Nat /\ 1 <= k /\ k <= Len(w)
    BY <1>1, <2>2 DEF SmallerAt
  <2>5. CASE i < k
    <3>1. i \in 1 .. k - 1 /\ v[i] = w[i] /\ i \in 1 .. Len(w)
      BY <1>1, <2>3, <2>4, <2>5
    <3>2. \A j \in 1 .. i - 1 : j \in 1 .. k - 1
      BY <2>3, <2>4, <2>5
    <3>3. SmallerAt(u, w, i)
      BY <2>3, <2>4, <3>1, <3>2 DEF SmallerAt
    <3> QED BY <3>1, <3>3, SmallerSomewhere
  <2>6. CASE k < i
    <3>1. k \in 1 .. i - 1 /\ u[k] = v[k] /\ k <= Len(u) /\ v[k] < w[k]
      BY <1>1, <2>3, <2>4, <2>6
    <3>2. \A j \in 1 .. k - 1 : j \in 1 .. i - 1
      BY <2>3, <2>4, <2>6
    <3>3. SmallerAt(u, w, k)
      BY <2>3, <2>4, <3>1, <3>2 DEF SmallerAt
    <3> QED BY <3>3, SmallerSomewhere
  <2>7. CASE i = k
    <3>1. v[i] < w[i] /\ v[i] \in Nat /\ w[i] \in Nat
      BY <1>1, <2>3, <2>4, <2>7
    <3>2. Len(u) = i - 1 \/ (i <= Len(u) /\ u[i] < w[i])
      <4> SUFFICES ASSUME Len(u) # i - 1 PROVE i <= Len(u) /\ u[i] < w[i]
        OBVIOUS
      <4>1. i <= Len(u) /\ u[i] < v[i]
        BY <2>3
      <4>2. u[i] \in Nat
        BY <1>1, <2>3, <4>1
      <4> DEFINE x == u[i]
                 y == v[i]
                 z == w[i]
      <4>3. x < y /\ y < z /\ x \in Nat /\ y \in Nat /\ z \in Nat
        BY <3>1, <4>1, <4>2
      <4> HIDE DEF x, y, z
      <4>4. x < z
        BY ONLY <4>3
      <4> QED BY <4>1, <4>4 DEF x, z
    <3>3. SmallerAt(u, w, i)
      BY <2>3, <2>4, <2>7, <3>2 DEF SmallerAt
    <3>4. i \in 1 .. Len(w)
      BY <2>7
    <3> QED BY <3>3, <3>4, SmallerSomewhere
  <2> QED BY <2>3, <2>4, <2>5, <2>6, <2>7
<1> QED BY <1>2, <1>3

\* And a total one: two words differ first in a letter or where one of them ends.
LEMMA SmallerIsTotal ==
  ASSUME NEW v \in Seq(Nat), NEW w \in Seq(Nat), v # w
  PROVE  SmallerWord(v, w) \/ SmallerWord(w, v)
<1> DEFINE m == Len(v)
           n == Len(w)
           T == {i \in Nat \ {0} : i > m \/ i > n \/ v[i] # w[i]}
<1>1. /\ m \in Nat /\ n \in Nat
      /\ \A i \in 1 .. m : v[i] \in Nat
      /\ \A i \in 1 .. n : w[i] \in Nat
  OBVIOUS
<1>2. m + 1 \in T /\ T \in SUBSET Nat
  BY <1>1
<1>3. PICK i \in T : \A k \in T : i <= k
  <2> HIDE DEF T
  <2> QED BY <1>2, LeastNat
<1>4. i \in Nat \ {0} /\ (i > m \/ i > n \/ v[i] # w[i])
  OBVIOUS
<1>5. \A j \in 1 .. i - 1 : j <= m /\ j <= n /\ v[j] = w[j]
  <2> SUFFICES ASSUME NEW j \in 1 .. i - 1 PROVE j <= m /\ j <= n /\ v[j] = w[j]
    OBVIOUS
  <2>1. j \in Nat \ {0} /\ ~(i <= j)
    BY <1>4
  <2>2. j \notin T
    <3> HIDE DEF T
    <3> QED BY <1>3, <2>1
  <2> QED BY <1>1, <2>1, <2>2
<1> HIDE DEF T
<1>6. i <= m + 1 /\ i <= n + 1
  <2>1. i - 1 \in 1 .. i - 1 \/ i = 1
    BY <1>4
  <2> QED BY <1>1, <1>4, <1>5, <2>1
<1>7. CASE i > m /\ i > n
  <2>1. m = n /\ \A j \in 1 .. m : v[j] = w[j]
    BY <1>1, <1>4, <1>5, <1>6, <1>7
  <2>2. v = w
    BY <2>1
  <2> QED BY <2>2
<1>8. CASE i <= n /\ (i > m \/ v[i] < w[i])
  <2>1. i \in 1 .. Len(w) /\ SmallerAt(v, w, i)
    BY <1>1, <1>4, <1>5, <1>6, <1>8 DEF SmallerAt
  <2> QED BY <2>1, SmallerSomewhere
<1>9. CASE i <= m /\ (i > n \/ w[i] < v[i])
  <2>1. i \in 1 .. Len(v) /\ SmallerAt(w, v, i)
    BY <1>1, <1>4, <1>5, <1>6, <1>9 DEF SmallerAt
  <2> QED BY <2>1, SmallerSomewhere
<1>10. i <= m /\ i <= n => v[i] \in Nat /\ w[i] \in Nat
  BY <1>1, <1>4
<1> HIDE DEF m, n
<1> QED BY <1>1, <1>4, <1>7, <1>8, <1>9, <1>10

\* A sequence over a set is one over every larger set.
LEMMA SeqOfMore ==
  ASSUME NEW L, NEW M, L \subseteq M
  PROVE  \A s \in Seq(L) : s \in Seq(M)
<1> TAKE s \in Seq(L)
<1>1. Len(s) \in Nat /\ s = [i \in 1 .. Len(s) |-> s[i]] /\ \A i \in 1 .. Len(s) : s[i] \in M
  OBVIOUS
<1> DEFINE n == Len(s)
<1>2. n \in Nat /\ s = [i \in 1 .. n |-> s[i]] /\ \A i \in 1 .. n : s[i] \in M
  BY <1>1
<1> HIDE DEF n
<1>3. [i \in 1 .. n |-> s[i]] \in Seq(M)
  BY <1>2
<1> QED BY <1>2, <1>3

\* One word is ahead of another for a letter run: fewer edits, or as many and smaller.
Ahead(far, v, w) == far[v] < far[w] \/ (far[v] = far[w] /\ SmallerWord(v, w))

\* The words of the vocabulary are sequences of numbers, and ordered by it.
LEMMA AheadIsAnOrder ==
  ASSUME NEW far \in [Vocab -> Nat]
  PROVE  /\ Vocab \subseteq Seq(Nat)
         /\ \A u, v, w \in Vocab : Ahead(far, u, v) /\ Ahead(far, v, w) => Ahead(far, u, w)
         /\ \A v, w \in Vocab : v = w \/ Ahead(far, v, w) \/ Ahead(far, w, v)
<1>1. Vocab \subseteq Seq(Nat)
  <2> DEFINE letters == 97 .. 122
  <2>1. letters \subseteq Nat
    OBVIOUS
  <2>2. Vocab \subseteq Seq(letters)
    BY InputConfig DEF Vocab, Range
  <2> HIDE DEF letters
  <2>3. \A s \in Seq(letters) : s \in Seq(Nat)
    BY ONLY <2>1, SeqOfMore
  <2> QED BY ONLY <2>2, <2>3
<1>2. ASSUME NEW u \in Vocab, NEW v \in Vocab, NEW w \in Vocab,
             Ahead(far, u, v), Ahead(far, v, w)
      PROVE  Ahead(far, u, w)
  <2>1. SmallerWord(u, v) /\ SmallerWord(v, w) => SmallerWord(u, w)
    BY <1>1, SmallerIsStrict
  <2>2. far[u] \in Nat /\ far[v] \in Nat /\ far[w] \in Nat
    OBVIOUS
  <2> QED BY <1>2, <2>1, <2>2 DEF Ahead
<1>3. ASSUME NEW v \in Vocab, NEW w \in Vocab, v # w
      PROVE  Ahead(far, v, w) \/ Ahead(far, w, v)
  <2>1. SmallerWord(v, w) \/ SmallerWord(w, v)
    BY <1>1, <1>3, SmallerIsTotal
  <2>2. far[v] \in Nat /\ far[w] \in Nat
    OBVIOUS
  <2> QED BY <2>1, <2>2 DEF Ahead
<1> QED BY <1>1, <1>2, <1>3

\* The loop of find_pinyin_id_nearest: what it has kept after each word.
LEMMA LoopKeeps ==
  ASSUME NEW a
  PROVE  \E f : /\ f[0] = Words[1] /\ find_pinyin_id_nearest(a) = f[Len(Words)]
                /\ \A i \in 1 .. Len(Words) :
                     f[i] = IF Nearer(a, Words[i], f[i - 1]) THEN Words[i] ELSE f[i - 1]
                /\ \A i \in 0 .. Len(Words) : f[i] \in Vocab
<1> DEFINE n == Len(Words)
           kept(i, w) == IF Nearer(a, Words[i], w) THEN Words[i] ELSE w
           next(f, i) == IF i = 0 THEN Words[1] ELSE kept(i, f[i - 1])
           after == CHOOSE f : f = [i \in 0 .. n |-> next(f, i)]
           step == [i \in 1 .. n |-> [w \in Vocab |-> kept(i, w)]]
<1>0. n \in Nat \ {0} /\ \A i \in 1 .. n : Words[i] \in Vocab
  <2>1. n \in Nat \ {0} /\ DOMAIN Words = 1 .. n
    BY InputConfig
  <2> QED BY <2>1 DEF Vocab, Range
<1>1. Words[1] \in Vocab
  BY <1>0
<1> HIDE DEF n
<1>2. step \in Steps(n, Vocab)
  BY <1>0 DEF Steps
<1>3. PICK f \in [0 .. n -> Vocab] : Follows(f, Words[1], step, n)
  BY <1>0, <1>1, <1>2, StepwiseFunction
<1>4. f = [i \in 0 .. n |-> next(f, i)]
  <2>1. ASSUME NEW i \in 1 .. n PROVE f[i] = kept(i, f[i - 1])
    <3> HIDE DEF kept
    <3>1. i - 1 \in 0 .. n /\ f[i - 1] \in Vocab
      BY <1>0
    <3>2. f[i] = step[i][f[i - 1]]
      BY <1>3 DEF Follows
    <3> QED BY <3>1, <3>2
  <2>2. f[0] = Words[1]
    BY <1>3 DEF Follows
  <2> HIDE DEF kept
  <2>3. \A i \in 0 .. n : f[i] = next(f, i)
    <3> HIDE DEF step
    <3> QED BY <1>0, <2>1, <2>2
  <2> HIDE DEF next
  <2> QED BY <2>3
<1>5. after = [i \in 0 .. n |-> next(after, i)]
  <2> HIDE DEF next
  <2> QED BY <1>4
<1>6. find_pinyin_id_nearest(a) = after[n]
  BY DEF find_pinyin_id_nearest, after, n
<1> HIDE DEF after
<1>7. after[0] = Words[1] /\ \A i \in 1 .. n : after[i] = kept(i, after[i - 1])
  <2> HIDE DEF kept
  <2> QED BY <1>0, <1>5
<1>8. \A i \in 1 .. n : after[i - 1] \in Vocab => after[i] \in Vocab
  BY <1>0, <1>7
<1>9. \A i \in 0 .. n : after[i] \in Vocab
  <2> HIDE DEF kept
  <2> QED BY <1>0, <1>1, <1>7, <1>8, StepsStayIn
<1> QED BY <1>6, <1>7, <1>9 DEF n

\* find_pinyin_id_nearest finds the word that is ahead of all the others.
LEMMA NearestIsFound ==
  ASSUME NEW a, NEW far \in [Vocab -> Nat], \A v \in Vocab : edit_distance(a, v) = far[v]
  PROVE  LET near == find_pinyin_id_nearest(a)
         IN  near \in Vocab /\ \A v \in Vocab \ {near} : Ahead(far, near, v)
<1> DEFINE near == find_pinyin_id_nearest(a)
           n == Len(Words)
<1>1. PICK f : /\ f[0] = Words[1] /\ near = f[n]
               /\ \A i \in 1 .. n :
                    f[i] = IF Nearer(a, Words[i], f[i - 1]) THEN Words[i] ELSE f[i - 1]
               /\ \A i \in 0 .. n : f[i] \in Vocab
  BY LoopKeeps
<1>2. n \in Nat /\ (\A i \in 1 .. n : Words[i] \in Vocab)
      /\ \A v \in Vocab : \E i \in 1 .. n : v = Words[i]
  <2>1. n \in Nat /\ DOMAIN Words = 1 .. n
    BY InputConfig
  <2> QED BY <2>1 DEF Vocab, Range
<1>3. \A v, w \in Vocab : Nearer(a, v, w) <=> Ahead(far, v, w)
  BY DEF Nearer, Ahead
<1> DEFINE Leads(k) == \A j \in 1 .. k : Words[j] = f[k] \/ Ahead(far, f[k], Words[j])
           D == {k \in 0 .. n : Leads(k)}
<1>4. ASSUME NEW k \in 0 .. n, k < n, Leads(k) PROVE Leads(k + 1)
  <2> DEFINE i == k + 1
  <2>1. i \in 1 .. n /\ i - 1 = k
    BY <1>2, <1>4
  <2>2. f[i] = (IF Ahead(far, Words[i], f[k]) THEN Words[i] ELSE f[k])
        /\ f[k] \in Vocab /\ Words[i] \in Vocab
    <3> HIDE DEF i
    <3> QED BY <1>1, <1>2, <1>3, <2>1
  <2> SUFFICES ASSUME NEW j \in 1 .. i PROVE Words[j] = f[i] \/ Ahead(far, f[i], Words[j])
    OBVIOUS
  <2>3. Words[j] \in Vocab /\ (j \in 1 .. k \/ j = i)
    BY <1>2, <2>1
  <2> HIDE DEF i
  <2>4. j \in 1 .. k => Words[j] = f[k] \/ Ahead(far, f[k], Words[j])
    BY <1>4
  <2> QED BY <2>2, <2>3, <2>4, AheadIsAnOrder
<1>5. 0 \in D /\ D \in SUBSET (0 .. n) /\ \A k \in D : k < n => k + 1 \in D
  <2>1. Leads(0)
    OBVIOUS
  <2> HIDE DEF Leads
  <2> QED BY <1>2, <1>4, <2>1
<1>6. Leads(n)
  <2> HIDE DEF Leads
  <2>1. n \in D
    <3> HIDE DEF D
    <3> QED BY <1>2, <1>5, Climb
  <2> QED BY <2>1
<1>7. near \in Vocab
  BY <1>1, <1>2
<1> HIDE DEF near
<1> QED BY <1>1, <1>2, <1>6, <1>7 DEF near

\* A word of the vocabulary has only letters, and no byte of a longer character is one.
LEMMA WordsAreLetters ==
  ASSUME NEW v \in Vocab
  PROVE  /\ v \in Seq(Nat)
         /\ \A c \in Nat : Width(c) = 1 \/ ~Seen(c, v, Len(v))
<1> DEFINE letters == 97 .. 122
<1>1. letters \subseteq Nat /\ \A c \in letters : c < 128
  OBVIOUS
<1>2. v \in Seq(letters)
  BY InputConfig DEF Vocab, Range
<1> HIDE DEF letters
<1>3. \A i \in 1 .. Len(v) : v[i] \in letters
  BY <1>2
<1>4. ASSUME NEW c \in Nat, Seen(c, v, Len(v)) PROVE Width(c) = 1
  BY <1>1, <1>3, <1>4 DEF Seen, Width
<1>5. v \in Seq(Nat)
  BY <1>1, <1>2, SeqOfMore
<1> QED BY <1>4, <1>5

\* The word found for an invalid character is ahead of every other.
LEMMA CharacterRepaired ==
  ASSUME canonical \in Seq(Norm), Written(canonical), NEW allow,
         NEW e \in LegalEdges(canonical, allow), e.invalid
  PROVE  LET near == find_pinyin_id_nearest(Word(canonical, e.begin, e.end))
             c    == canonical[e.begin + 1].char
         IN  /\ near \in Vocab
             /\ \A v \in Vocab \ {near} :
                  \/ Edits(c, Length(e), near) < Edits(c, Length(e), v)
                  \/ /\ Edits(c, Length(e), near) = Edits(c, Length(e), v)
                     /\ SmallerWord(near, v)
<1> DEFINE p == e.begin
           c == canonical[p + 1].char
           w == Length(e)
           s == canonical[p + 1].from
           token == Word(canonical, e.begin, e.end)
           near == find_pinyin_id_nearest(token)
           far == [v \in Vocab |-> Edits(c, w, v)]
<1>1. /\ p \in 0 .. Size - 1 /\ canonical[p + 1].byte = 1 /\ Size \in Nat
      /\ e.end = p + Width(c) /\ c \in Nat
  <2>1. /\ p \in 0 .. Size - 1 /\ canonical[p + 1].byte = 1 /\ e.end = p + Width(c)
    BY InvalidIsCharacter
  <2>2. Size \in Nat /\ \A i \in 1 .. Size : canonical[i].char \in Nat
    BY NormParts DEF Size
  <2>3. p + 1 \in 1 .. Size
    BY <2>1, <2>2
  <2> QED BY <2>1, <2>2, <2>3
<1>2. Width(c) \in 1 .. 4
  BY <1>1, Widths
<1>3. w = Width(c) /\ w \in Nat \ {0} /\ e.end - e.begin = w
  <2> DEFINE wide == Width(c)
             end == e.end
  <2>1. end = p + wide /\ wide \in 1 .. 4 /\ p \in Nat
    BY <1>1, <1>2
  <2> HIDE DEF wide, end, p
  <2>2. end - p = wide /\ wide \in Nat \ {0}
    BY ONLY <2>1
  <2> QED BY <2>2 DEF wide, end, p, Length
<1> HIDE DEF c, w, s
<1>4. \A i \in 1 .. w : canonical[p + i].char = c
  <2> SUFFICES ASSUME NEW i \in 1 .. w PROVE canonical[p + i].char = c
    OBVIOUS
  <2> DEFINE q == p + i
  <2>1. q = p + i /\ w = Width(canonical[p + 1].char) /\ s = canonical[p + 1].from
    BY <1>3 DEF c, s
  <2> HIDE DEF q, p
  <2>2. canonical[q].char = canonical[p + 1].char
    BY <1>1, <2>1, CharByte
  <2> QED BY <2>1, <2>2 DEF c
<1>5. token = [i \in 1 .. w |-> c]
  BY <1>3, <1>4 DEF Word
<1> HIDE DEF token, p
<1>6. ASSUME NEW v \in Vocab PROVE edit_distance(token, v) = Edits(c, w, v) /\ Edits(c, w, v) \in Nat
  <2>1. v \in Seq(Nat) /\ (w = 1 \/ ~Seen(c, v, Len(v)))
    BY <1>1, <1>3, WordsAreLetters
  <2> QED BY <1>3, <1>5, <2>1, DistanceIsEdits
<1>7. far \in [Vocab -> Nat] /\ \A v \in Vocab : edit_distance(token, v) = far[v]
  BY <1>6
<1>8. \A v \in Vocab : far[v] = Edits(c, w, v)
  OBVIOUS
<1> HIDE DEF far
<1>9. near \in Vocab /\ \A v \in Vocab \ {near} : Ahead(far, near, v)
  BY <1>7, NearestIsFound
<1> HIDE DEF near
<1>10. \A v \in Vocab \ {near} :
         \/ Edits(c, w, near) < Edits(c, w, v)
         \/ Edits(c, w, near) = Edits(c, w, v) /\ SmallerWord(near, v)
  BY <1>8, <1>9 DEF Ahead
<1> QED BY <1>9, <1>10 DEF near, token, c, w, p

\* An edge answers a word of the vocabulary or, without repair, nothing.
LEMMA WordOfEdge ==
  ASSUME canonical \in Seq(Norm), Written(canonical), NEW allow,
         NEW e \in LegalEdges(canonical, allow), NEW acc \in Answers, NEW token,
         token = Word(canonical, e.begin, e.end)
  PROVE  /\ ~e.invalid => token \in Vocab /\ AddEdge(acc, e).segments = Append(acc.segments, token)
         /\ e.invalid /\ Repairs =>
              AddEdge(acc, e).segments = Append(acc.segments, find_pinyin_id_nearest(token))
         /\ e.invalid /\ ~Repairs => AddEdge(acc, e).segments = acc.segments
<1> DEFINE near == find_pinyin_id_nearest(token)
           ranges == append_invalid(acc.invalid_ranges, e)
<1>1. acc = [segments |-> acc.segments, invalid_ranges |-> acc.invalid_ranges]
  BY DEF Answers
<1>2. AddEdge(acc, e) = IF ~e.invalid THEN [acc EXCEPT !.segments = Append(@, token)]
                        ELSE [segments       |-> IF Repairs THEN Append(acc.segments, near)
                                                 ELSE acc.segments,
                              invalid_ranges |-> ranges]
  BY DEF AddEdge
<1>3. ~e.invalid => token \in Vocab
  <2>1. \/ WordBetween(canonical, e.begin, e.end)
        \/ e = Edge(e.begin, e.end, TRUE)
    BY WrittenIsCut, EdgesAre
  <2>2. Edge(e.begin, e.end, TRUE).invalid
    BY DEF Edge
  <2> QED BY <2>1, <2>2 DEF WordBetween
<1> HIDE DEF near, ranges
<1>4. [acc EXCEPT !.segments = Append(@, token)].segments = Append(acc.segments, token)
  BY <1>1
<1> QED BY <1>2, <1>3, <1>4 DEF near

\* The segments of a path are words; with repair there is one for each edge, and for an
\* invalid one it is the word found for it.
LEMMA SegmentsAnswered ==
  ASSUME canonical \in Seq(Norm), Written(canonical), NEW allow,
         NEW edges \in Seq(LegalEdges(canonical, allow))
  PROVE  LET segments == AddEdges(edges).segments
         IN  /\ segments \in Seq(Vocab)
             /\ Repairs => \A i \in 1 .. Len(edges) : edges[i].invalid =>
                  segments[i] = find_pinyin_id_nearest(Word(canonical, edges[i].begin, edges[i].end))
<1> DEFINE n == Len(edges)
           token(i) == Word(canonical, edges[i].begin, edges[i].end)
           near(i) == find_pinyin_id_nearest(token(i))
<1>1. n \in Nat /\ \A i \in 1 .. n : edges[i] \in LegalEdges(canonical, allow)
  OBVIOUS
<1>2. edges \in Seq(EdgesIn(Size))
  <2>1. LegalEdges(canonical, allow) \subseteq EdgesIn(Size)
    BY WrittenIsCut, LegalEdgesIn DEF Size
  <2> QED BY <2>1
<1>3. PICK f : /\ f[0] = NoAnswer /\ AddEdges(edges) = f[n]
               /\ \A i \in 1 .. n : f[i] = AddEdge(f[i - 1], edges[i])
               /\ \A i \in 0 .. n : f[i] \in Answers
  BY <1>2, PathAnswered
<1> HIDE DEF n
<1>4. ASSUME NEW i \in 1 .. n
      PROVE  /\ ~edges[i].invalid =>
                  token(i) \in Vocab /\ f[i].segments = Append(f[i - 1].segments, token(i))
             /\ edges[i].invalid =>
                  near(i) \in Vocab /\ f[i].segments = IF Repairs THEN Append(f[i - 1].segments, near(i))
                                                       ELSE f[i - 1].segments
  <2> DEFINE e == edges[i]
             acc == f[i - 1]
             t == token(i)
  <2>1. e \in LegalEdges(canonical, allow) /\ acc \in Answers /\ f[i] = AddEdge(acc, e)
        /\ t = Word(canonical, e.begin, e.end)
    <3>1. i - 1 \in 0 .. n
      BY <1>1
    <3> QED BY <1>1, <1>3, <3>1
  <2>2. near(i) = find_pinyin_id_nearest(t)
    OBVIOUS
  <2> HIDE DEF t, acc, near
  <2>3. e.invalid => near(i) \in Vocab
    <3> HIDE DEF e
    <3> QED BY <2>1, <2>2, CharacterRepaired
  <2> HIDE DEF e
  <2>4. /\ ~e.invalid => t \in Vocab /\ f[i].segments = Append(acc.segments, t)
        /\ e.invalid /\ Repairs => f[i].segments = Append(acc.segments, near(i))
        /\ e.invalid /\ ~Repairs => f[i].segments = acc.segments
    BY <2>1, <2>2, WordOfEdge
  <2> QED BY <2>3, <2>4 DEF t, acc, e
<1> HIDE DEF token, near
<1> DEFINE Good(k) == /\ f[k].segments \in Seq(Vocab)
                      /\ Repairs => /\ Len(f[k].segments) = k
                                    /\ \A i \in 1 .. k : edges[i].invalid => f[k].segments[i] = near(i)
           D == {k \in 0 .. n : Good(k)}
<1>5. Good(0)
  <2>1. f[0].segments = <<>> /\ <<>> \in Seq(Vocab) /\ Len(<<>>) = 0
    BY <1>3 DEF NoAnswer
  <2> QED BY <2>1
<1>6. ASSUME NEW j \in 1 .. n, Good(j - 1) PROVE Good(j)
  <2> DEFINE old == f[j - 1].segments
             new == f[j].segments
  <2>1. j \in Nat /\ \A i \in 1 .. j : i \in 1 .. j - 1 \/ i = j
    BY <1>1
  <2>2. /\ old \in Seq(Vocab)
        /\ Repairs => Len(old) = j - 1 /\ \A i \in 1 .. j - 1 : edges[i].invalid => old[i] = near(i)
    BY <1>6
  <2>3. CASE ~Repairs /\ edges[j].invalid
    <3>1. new = old
      BY <1>4, <2>3
    <3> QED BY <2>2, <2>3, <3>1
  <2>4. CASE Repairs \/ ~edges[j].invalid
    <3>1. PICK v \in Vocab : new = Append(old, v) /\ (edges[j].invalid => v = near(j))
      BY <1>4, <2>4
    <3> HIDE DEF new, old
    <3>2. new \in Seq(Vocab) /\ Len(new) = Len(old) + 1 /\ new[Len(old) + 1] = v
          /\ \A i \in 1 .. Len(old) : new[i] = old[i]
      BY <2>2, <3>1, AppendProperties
    <3>3. Repairs => Len(new) = j /\ new[j] = v /\ \A i \in 1 .. j - 1 : new[i] = old[i]
      <4> SUFFICES ASSUME Repairs
                   PROVE  Len(new) = j /\ new[j] = v /\ \A i \in 1 .. j - 1 : new[i] = old[i]
        OBVIOUS
      <4>1. Len(old) = j - 1 /\ j - 1 + 1 = j
        BY <2>1, <2>2
      <4> QED BY <3>2, <4>1
    <3>4. Repairs => \A i \in 1 .. j : edges[i].invalid => new[i] = near(i)
      BY <2>1, <2>2, <3>1, <3>3
    <3> QED BY <3>2, <3>3, <3>4 DEF new
  <2> QED BY <2>3, <2>4
<1>7. n \in D
  <2>1. 0 \in D /\ D \in SUBSET (0 .. n)
    BY <1>1, <1>5
  <2>2. ASSUME NEW k \in D, k < n PROVE k + 1 \in D
    <3> DEFINE j == k + 1
    <3>1. j \in 1 .. n /\ j - 1 = k /\ j \in 0 .. n /\ Good(k)
      BY <1>1, <2>2
    <3> HIDE DEF j, Good
    <3>2. Good(j)
      BY <1>6, <3>1
    <3> QED BY <3>1, <3>2 DEF j
  <2> HIDE DEF D
  <2> QED BY <1>1, <2>1, <2>2, Climb
<1> QED BY <1>3, <1>7 DEF n, near, token

-----------------------------------------------------------------------------
(* Where the answer points *)

\* Ranges in order and apart, of typed bytes and of whole characters, that hold at most
\* `most` of them.
Points(ranges, most) ==
  /\ ranges \in Seq(Spans)
  /\ \A i \in 1 .. Len(ranges) - 1 : ranges[i].end < ranges[i + 1].begin
  /\ \A i \in 1 .. Len(ranges) : \A o \in ranges[i].begin .. ranges[i].end - 1 :
       \E j \in 1 .. Size : canonical[j].from = o
  /\ \A i \in 1 .. Len(ranges) : Bounded(ranges[i], Size)
  /\ Cardinality({j \in 1 .. Size : Holds(ranges, canonical[j].from) /\ canonical[j].byte = 1})
       <= most

\* The ranges of a path through the input point at it.
LEMMA PathPoints ==
  ASSUME canonical \in Seq(Norm), Written(canonical), Ordered(canonical), NEW allow,
         NEW edges \in Seq(LegalEdges(canonical, allow)), Chain(edges, Size)
  PROVE  Points(AddEdges(edges).invalid_ranges, Invalids(edges))
<1> DEFINE ranges == AddEdges(edges).invalid_ranges
           left == LeftOver(edges, Len(edges))
           held == {j \in 1 .. Size : Holds(ranges, canonical[j].from) /\ canonical[j].byte = 1}
<1>1. RangesHold(ranges, left, Size)
  BY RangesAnswered
<1>2. left \in SUBSET (1 .. Size) /\ Size = Len(canonical)
      /\ \A j \in 1 .. Size : canonical[j].from \in Nat
  BY NormParts DEF LeftOver, Size
<1> HIDE DEF ranges, left
<1>3. /\ ranges \in Seq(Spans)
      /\ \A i \in 1 .. Len(ranges) - 1 : ranges[i].end < ranges[i + 1].begin
      /\ \A i \in 1 .. Len(ranges) : Bounded(ranges[i], Size)
      /\ \A offset \in Nat : Holds(ranges, offset) <=> \E j \in left : canonical[j].from = offset
  BY <1>1 DEF RangesHold
<1>4. ASSUME NEW i \in 1 .. Len(ranges), NEW o \in ranges[i].begin .. ranges[i].end - 1
      PROVE  \E j \in 1 .. Size : canonical[j].from = o
  <2>1. ranges[i].begin \in Nat /\ ranges[i].end \in Nat
    <3>1. ranges[i] \in Spans
      BY <1>3
    <3>2. \A r \in Spans : r.begin \in Nat /\ r.end \in Nat
      BY DEF Spans
    <3> QED BY <3>1, <3>2
  <2>2. o \in Nat /\ ranges[i].begin <= o /\ o < ranges[i].end
    BY <2>1
  <2>3. Holds(ranges, o)
    BY <2>2 DEF Holds
  <2> QED BY <1>2, <1>3, <2>2, <2>3
<1>5. \A j \in 1 .. Size : Holds(ranges, canonical[j].from) <=> j \in left
  BY <1>1, <1>2, HeldIsLeftOver
<1>6. held = {j \in left : canonical[j].byte = 1}
  BY <1>2, <1>5
<1> HIDE DEF held
<1>7. Cardinality(held) <= Invalids(edges)
  BY <1>6, LeftOverCount DEF left
<1> QED BY <1>3, <1>4, <1>7 DEF Points, held, ranges

\* The path answered is one of the routes and leaves as few characters over as any.
LEMMA FewestLeftOver ==
  ASSUME PathsInv, Decoding, decoding.begin = Size, canonical # <<>>, best[Size].reachable
  PROVE  LET edges == best[Size].edges
         IN  /\ edges \in Routes(canonical, decoding.allow_invalid)[Size]
             /\ \A r \in Routes(canonical, TRUE)[Size] : Invalids(edges) <= Invalids(r)
<1> DEFINE no == FALSE
           yes == TRUE
           edges == best[Size].edges
           logits == decoding.gap_logits
           routes == Routes(canonical, decoding.allow_invalid)[Size]
<1>1. /\ WellCut(canonical) /\ Size \in Nat /\ Size = Len(canonical) /\ Size \in 0 .. Size
      /\ decoding.allow_invalid \in BOOLEAN /\ IntLogits(logits)
  <2>1. canonical \in Seq(Norm) /\ Written(canonical)
        /\ decoding.allow_invalid \in BOOLEAN /\ IntLogits(logits)
    BY DEF PathsInv
  <2>2. Size \in Nat
    BY <2>1 DEF Size
  <2> QED BY <2>1, <2>2, WrittenIsCut DEF Size
<1>2. edges \in routes /\ \A r \in routes : ~Better(logits, r, edges)
  BY <1>1, PathsInvShows DEF PathsAreBest, Decoding
<1>3. \A r : r \in Routes(canonical, no)[Size] <=> r \in Routes(canonical, yes)[Size] /\ Invalids(r) = 0
  BY <1>1, FreeRoutes
<1>4. decoding.allow_invalid = yes \/ decoding.allow_invalid = no
  BY <1>1
<1> HIDE DEF no, yes
<1>5. ASSUME NEW allow, NEW r \in Routes(canonical, allow)[Size] PROVE Invalids(r) \in Nat
  <2>1. r \in Seq(Edges)
    BY <1>1, RoutesTyped
  <2> QED BY <1>1, <2>1, Measures
<1> HIDE DEF edges, logits
<1>6. ASSUME NEW r \in Routes(canonical, yes)[Size] PROVE Invalids(edges) <= Invalids(r)
  <2>1. Invalids(r) \in Nat /\ Invalids(edges) \in Nat
    BY <1>2, <1>5
  <2>2. CASE decoding.allow_invalid = yes
    <3>1. ~Better(logits, r, edges)
      BY <1>2, <2>2
    <3>2. ~(Invalids(r) < Invalids(edges))
      BY <3>1 DEF Better
    <3> QED BY ONLY <2>1, <3>2
  <2>3. CASE decoding.allow_invalid = no
    <3>1. Invalids(edges) = 0
      BY <1>2, <1>3, <2>3
    <3> QED BY ONLY <2>1, <3>1
  <2> QED BY <1>4, <2>2, <2>3
<1> QED BY <1>2, <1>6 DEF edges, yes

-----------------------------------------------------------------------------
(* What is answered *)

\* The answer of a decoding is that of a path through the input with as few invalid
\* characters as any route.
LEMMA AnswerOfPath ==
  ASSUME PathsInv, StagesInv, Ordered(canonical), Decoding, decoding.begin = Size,
         NEW rejected, stage = "validate" => best[Size].reachable,
         AnswerPath(best[Size], rejected), UNCHANGED <<request, canonical>>
  PROVE  LET edges  == best[Size].edges
             answer == AddEdges(edges)
         IN  /\ canonical \in Seq(Norm) /\ Written(canonical)
             /\ edges \in Seq(LegalEdges(canonical, decoding.allow_invalid)) /\ Chain(edges, Size)
             /\ Invalids(edges) \in Nat
             /\ \A r \in Routes(canonical, TRUE)[Size] :
                  Invalids(r) \in Nat /\ Invalids(edges) <= Invalids(r)
             /\ result'.invalid_ranges = answer.invalid_ranges
             /\ result'.error \in {"Ok", "InvalidPinyin"}
             /\ result'.segments = IF result'.error = "Ok" THEN answer.segments ELSE <<>>
             /\ stage' = "answered" /\ UNCHANGED <<request, canonical, best, decoding>>
<1> DEFINE path == best[Size]
           edges == path.edges
           answer == AddEdges(edges)
           most == Invalids(edges)
           error == IF rejected \/ ~path.reachable \/ answer.segments = <<>>
                    THEN "InvalidPinyin" ELSE "Ok"
           given == IF error = "Ok" THEN answer ELSE [answer EXCEPT !.segments = <<>>]
<1>1. canonical # <<>> /\ canonical \in Seq(Norm) /\ Written(canonical)
      /\ WellCut(canonical) /\ Size = Len(canonical) /\ Size \in Nat /\ Size \in 0 .. Size
  <2>1. canonical # <<>> /\ canonical \in Seq(Norm) /\ Written(canonical)
    BY DEF StagesInv, PathsInv
  <2>2. Size = Len(canonical) /\ Size \in Nat
    BY <2>1 DEF Size
  <2> QED BY <2>1, <2>2, WrittenIsCut
<1>2. path.reachable
  <2>1. /\ stage \in {"validate", "diagnose", "decode"}
        /\ stage = "diagnose" => decoding.allow_invalid
        /\ stage = "decode" => \/ decoding.allow_invalid
                               \/ Routes(canonical, FALSE)[Size] # {} /\ ~decoding.allow_invalid
    BY DEF StagesInv, Decoding
  <2>2. /\ ~decoding.allow_invalid => (path.reachable <=> Routes(canonical, FALSE)[Size] # {})
        /\ decoding.allow_invalid => path.reachable
    BY <1>1, LastPath
  <2> QED BY <2>1, <2>2
<1>3. /\ edges \in Routes(canonical, decoding.allow_invalid)[Size]
      /\ \A r \in Routes(canonical, TRUE)[Size] : most <= Invalids(r)
  BY <1>1, <1>2, FewestLeftOver
<1>4. /\ given.invalid_ranges = answer.invalid_ranges
      /\ given.segments = IF error = "Ok" THEN answer.segments ELSE <<>>
  <2>1. answer \in Answers
    BY <1>1, <1>2, LastPath
  <2>2. answer = [segments |-> answer.segments, invalid_ranges |-> answer.invalid_ranges]
    BY <2>1 DEF Answers
  <2> HIDE DEF answer, error
  <2> QED BY <2>2
<1>5. /\ result' = [error |-> error, segments |-> given.segments,
                    invalid_ranges |-> given.invalid_ranges]
      /\ stage' = "answered" /\ best' = best /\ decoding' = decoding
  BY DEF AnswerPath, Answer
<1>6. error \in {"Ok", "InvalidPinyin"}
  OBVIOUS
<1>7. ASSUME NEW allow, NEW r \in Routes(canonical, allow)[Size]
      PROVE  Invalids(r) \in Nat /\ r \in Seq(LegalEdges(canonical, allow)) /\ Chain(r, Size)
  <2>1. r \in Seq(Edges) /\ r \in Seq(LegalEdges(canonical, allow)) /\ Chain(r, Size)
    BY <1>1, <1>7, RoutesTyped, RouteOfEdges, RoutesAreChains
  <2>2. IntLogits(decoding.gap_logits)
    BY DEF PathsInv
  <2> QED BY <2>1, <2>2, Measures
<1> HIDE DEF edges, answer, error, given
<1>8. /\ edges \in Seq(LegalEdges(canonical, decoding.allow_invalid)) /\ Chain(edges, Size)
      /\ most \in Nat
  BY <1>3, <1>7
<1>9. \A r \in Routes(canonical, TRUE)[Size] : Invalids(r) \in Nat /\ most <= Invalids(r)
  BY <1>3, <1>7
<1>10. /\ result'.invalid_ranges = answer.invalid_ranges /\ result'.error = error
       /\ result'.segments = IF result'.error = "Ok" THEN answer.segments ELSE <<>>
  BY <1>4, <1>5
<1> QED BY <1>1, <1>5, <1>6, <1>8, <1>9, <1>10 DEF answer, edges

\* Ranges that point at the input, with a count no route beats, are what is promised.
LEMMA PointsShows ==
  ASSUME canonical \in Seq(Norm), NEW ranges, NEW most, Points(ranges, most),
         \A r \in Routes(canonical, TRUE)[Size] : most <= Invalids(r),
         most \in Nat, \A r \in Routes(canonical, TRUE)[Size] : Invalids(r) \in Nat,
         canonical' = canonical, result'.invalid_ranges = ranges
  PROVE  RangesPointAtInput'
<1> DEFINE held == {j \in 1 .. Size : Holds(ranges, canonical[j].from) /\ canonical[j].byte = 1}
           routes == Routes(canonical, TRUE)[Size]
           n == Len(ranges)
<1>1. /\ ranges \in Seq(Spans) /\ n \in Nat /\ DOMAIN ranges = 1 .. n
      /\ Size = Len(canonical) /\ Size \in Nat /\ DOMAIN canonical = 1 .. Size
  BY DEF Points, Size
<1>2. ASSUME NEW offset PROVE InRanges(offset)' <=> Holds(ranges, offset)
  BY <1>1 DEF InRanges, Holds, Range
<1>3. {i \in DOMAIN canonical : InRanges(canonical[i].from)' /\ canonical[i].byte = 1} = held
  BY <1>1, <1>2
<1>4. ASSUME NEW i \in 1 .. n, NEW o \in ranges[i].begin .. ranges[i].end - 1
      PROVE  \E b \in Range(canonical) : b.from = o
  <2>1. PICK j \in 1 .. Size : canonical[j].from = o
    BY DEF Points
  <2> QED BY <1>1, <2>1 DEF Range
<1>5. ASSUME NEW i \in 1 .. n
      PROVE  \E b, e \in Range(canonical) :
               /\ b.from = ranges[i].begin /\ b.byte = 1
               /\ e.from = ranges[i].end - 1 /\ e.byte = Width(e.char)
  <2>1. Bounded(ranges[i], Size)
    BY DEF Points
  <2>2. PICK b \in 1 .. Size : canonical[b].from = ranges[i].begin /\ canonical[b].byte = 1
    BY <2>1 DEF Bounded
  <2>3. PICK e \in 1 .. Size : /\ canonical[e].from = ranges[i].end - 1
                               /\ canonical[e].byte = Width(canonical[e].char)
    BY <2>1 DEF Bounded
  <2>4. canonical[b] \in Range(canonical) /\ canonical[e] \in Range(canonical)
    BY <1>1 DEF Range
  <2> QED BY <2>2, <2>3, <2>4
<1>6. \A i \in 1 .. n - 1 : ranges[i].end < ranges[i + 1].begin
  BY DEF Points
<1>7. ASSUME NEW r \in routes PROVE Cardinality(held) <= Invalids(r)
  <2>1. Cardinality(held) <= most
    BY DEF Points
  <2>2. Cardinality(held) \in Nat
    <3>1. IsFiniteSet(1 .. Size) /\ held \in SUBSET (1 .. Size)
      BY <1>1, FS_Interval
    <3>2. IsFiniteSet(held)
      BY <3>1, FS_Subset
    <3> HIDE DEF held
    <3> QED BY <3>2, FS_CardinalityType
  <2>3. most <= Invalids(r) /\ most \in Nat /\ Invalids(r) \in Nat
    OBVIOUS
  <2> HIDE DEF held
  <2> QED BY ONLY <2>1, <2>2, <2>3
<1>8. (Routes(canonical, TRUE)[Size])' = routes
  BY DEF Size
<1>9. {i \in DOMAIN canonical : InRanges(canonical[i].from) /\ canonical[i].byte = 1}' = held
  BY <1>3
<1> HIDE DEF held, routes
<1>10. \A r \in (Routes(canonical, TRUE)[Size])' :
         Cardinality({i \in DOMAIN canonical : InRanges(canonical[i].from) /\ canonical[i].byte = 1}')
           <= Invalids(r)
  BY <1>7, <1>8, <1>9
<1>11. \A i \in DOMAIN ranges : \A o \in ranges[i].begin .. ranges[i].end - 1 :
         \E b \in Range(canonical') : b.from = o
  BY <1>1, <1>4
<1>12. \A i \in DOMAIN ranges :
         \E b, e \in Range(canonical') :
           /\ b.from = ranges[i].begin /\ b.byte = 1
           /\ e.from = ranges[i].end - 1 /\ e.byte = Width(e.char)
  BY <1>1, <1>5
<1>13. ranges = result'.invalid_ranges
  OBVIOUS
<1>14. \A i \in 1 .. Len(ranges) - 1 : ranges[i].end < ranges[i + 1].begin
  BY <1>6
<1> QED BY ONLY <1>10, <1>11, <1>12, <1>13, <1>14 DEF RangesPointAtInput

\* What is known of the input and of an answer.
AnswersInv ==
  /\ Ordered(canonical)
  /\ RangesPointAtInput
  /\ TextIsAccountedFor
  /\ RepairIsNearest

\* Without repair the segments are the text that the ranges leave.
LEMMA TextShows ==
  ASSUME canonical \in Seq(Norm), Written(canonical), Ordered(canonical), NEW allow,
         NEW edges \in Seq(LegalEdges(canonical, allow)), Chain(edges, Size), ~Repairs,
         canonical' = canonical, result'.invalid_ranges = AddEdges(edges).invalid_ranges,
         result'.segments = AddEdges(edges).segments
  PROVE  FlattenSeq(result.segments)' = Kept'
<1> DEFINE ranges == AddEdges(edges).invalid_ranges
<1>1. ranges \in Seq(Spans)
  BY RangesAnswered DEF RangesHold
<1>2. ranges = AddEdges(edges).invalid_ranges /\ result'.invalid_ranges = ranges
  OBVIOUS
<1> HIDE DEF ranges
<1>3. PICK g \in [0 .. Size -> Seq(Nat)] : Left(ranges, g)
  BY LeftSteps
<1>4. FlattenSeq(AddEdges(edges).segments) = g[Size]
  BY <1>2, <1>3, TextAnswered
<1>5. Kept' = g[Size]
  BY <1>1, <1>2, <1>3, KeptIsLeft
<1> QED BY <1>4, <1>5

\* With repair the segment of an invalid character is the word ahead of all others.
LEMMA RepairShows ==
  ASSUME canonical \in Seq(Norm), Written(canonical), NEW allow,
         NEW edges \in Seq(LegalEdges(canonical, allow)), Repairs,
         edges = best'[Size].edges, canonical' = canonical,
         result'.segments = AddEdges(edges).segments
  PROVE  RepairIsNearest'
<1> DEFINE segments == AddEdges(edges).segments
           need(e, w) == Edits(canonical[e.begin + 1].char, Length(e), w)
           found(e) == find_pinyin_id_nearest(Word(canonical, e.begin, e.end))
<1>1. ASSUME NEW i \in DOMAIN edges, edges[i].invalid, NEW v \in Vocab \ {segments[i]}
      PROVE  \/ need(edges[i], segments[i]) < need(edges[i], v)
             \/ /\ need(edges[i], segments[i]) = need(edges[i], v)
                /\ SmallerWord(segments[i], v)
  <2> DEFINE e == edges[i]
  <2>1. e \in LegalEdges(canonical, allow) /\ i \in 1 .. Len(edges)
    OBVIOUS
  <2>2. segments[i] = found(e)
    BY <1>1, <2>1, SegmentsAnswered
  <2>3. e.invalid
    BY <1>1
  <2> HIDE DEF segments, e
  <2>4. v # found(e) => \/ need(e, found(e)) < need(e, v)
                        \/ need(e, found(e)) = need(e, v) /\ SmallerWord(found(e), v)
    BY <2>1, <2>3, CharacterRepaired
  <2> HIDE DEF found, need
  <2> QED BY <2>2, <2>4 DEF e
<1>2. Size' = Size /\ result'.segments = segments
  BY DEF Size
<1> HIDE DEF segments
<1>3. \A i \in {j \in DOMAIN edges : edges[j].invalid} : \A v \in Vocab \ {segments[i]} :
        \/ Edits(canonical[edges[i].begin + 1].char, Length(edges[i]), segments[i])
             < Edits(canonical[edges[i].begin + 1].char, Length(edges[i]), v)
        \/ /\ Edits(canonical[edges[i].begin + 1].char, Length(edges[i]), segments[i])
                = Edits(canonical[edges[i].begin + 1].char, Length(edges[i]), v)
           /\ SmallerWord(segments[i], v)
  BY <1>1
<1> QED BY <1>2, <1>3 DEF RepairIsNearest

\* Whatever a decoding ends with says of its input what it promises.
LEMMA PathAnswerHolds ==
  ASSUME PathsInv, StagesInv, AnswersInv, Decoding, decoding.begin = Size, NEW rejected,
         stage = "validate" => best[Size].reachable,
         AnswerPath(best[Size], rejected), UNCHANGED <<request, canonical>>
  PROVE  AnswersInv'
<1> DEFINE edges == best[Size].edges
           answer == AddEdges(edges)
           most == Invalids(edges)
           allow == decoding.allow_invalid
<1>1. Ordered(canonical)
  BY DEF AnswersInv
<1>2. /\ canonical \in Seq(Norm) /\ Written(canonical)
      /\ edges \in Seq(LegalEdges(canonical, allow)) /\ Chain(edges, Size) /\ most \in Nat
      /\ \A r \in Routes(canonical, TRUE)[Size] : Invalids(r) \in Nat /\ most <= Invalids(r)
      /\ result'.invalid_ranges = answer.invalid_ranges
      /\ result'.segments = IF result'.error = "Ok" THEN answer.segments ELSE <<>>
      /\ canonical' = canonical /\ request' = request /\ best' = best
  BY <1>1, AnswerOfPath
<1>3. Size' = Size /\ (Repairs' <=> Repairs)
  BY <1>2 DEF Size, Repairs
<1>4. edges = best'[Size].edges
  BY <1>2
<1> HIDE DEF edges, allow
<1>5. Points(answer.invalid_ranges, most)
  BY <1>1, <1>2, PathPoints
<1> HIDE DEF most
<1>6. RangesPointAtInput'
  <2> HIDE DEF answer
  <2> QED BY <1>2, <1>5, PointsShows
<1>7. TextIsAccountedFor'
  <2> SUFFICES ASSUME result'.error = "Ok", ~Repairs PROVE FlattenSeq(result.segments)' = Kept'
    BY <1>3 DEF TextIsAccountedFor
  <2>1. result'.segments = answer.segments
    BY <1>2
  <2> QED BY <1>1, <1>2, <2>1, TextShows
<1>8. RepairIsNearest'
  <2>1. CASE ~(result'.error = "Ok" /\ Repairs)
    BY <1>3, <2>1 DEF RepairIsNearest
  <2>2. CASE result'.error = "Ok" /\ Repairs
    <3>1. result'.segments = answer.segments
      BY <1>2, <2>2
    <3> QED BY <1>2, <1>4, <2>2, <3>1, RepairShows
  <2> QED BY <2>1, <2>2
<1> QED BY <1>1, <1>2, <1>6, <1>7, <1>8 DEF AnswersInv

\* What is decoded next, or answered without a decoding, is in order.
LEMMA OrderedHolds ==
  ASSUME NEW chars, Ordered(chars), canonical' = chars,
         \/ stage' # "answered"
         \/ chars = <<>>
         \/ result'.error \notin {"Ok", "InvalidPinyin"}
  PROVE  AnswersInv'
<1>1. ~WasDecoded'
  BY DEF WasDecoded
<1>2. RangesPointAtInput' /\ TextIsAccountedFor' /\ RepairIsNearest'
  BY <1>1 DEF RangesPointAtInput, TextIsAccountedFor, RepairIsNearest
<1> QED BY <1>2 DEF AnswersInv

\* A decoding that starts, or the scorer's failure.
LEMMA ScoredLater ==
  ASSUME NEW chars, NEW allow, ScoredDecode(chars, allow)
  PROVE  stage' # "answered" \/ result'.error \notin {"Ok", "InvalidPinyin"}
<1>1. CASE \E logits \in [1 .. Len(chars) - 1 -> Logits] : Decode("decode", chars, logits, allow)
  BY <1>1 DEF Decode
<1>2. CASE Answer("ModelError", NoAnswer)
  BY <1>2 DEF Answer
<1> QED BY <1>1, <1>2 DEF ScoredDecode

\* Nothing is answered at first.
LEMMA AnswersInvInit == Init => AnswersInv
<1> SUFFICES ASSUME Init PROVE AnswersInv
  OBVIOUS
<1>1. stage = "idle" /\ canonical = <<>> /\ Len(<<>>) = 0
  BY DEF Init
<1>2. ~WasDecoded /\ Ordered(canonical)
  BY <1>1 DEF WasDecoded, Ordered
<1> QED BY <1>2 DEF AnswersInv, RangesPointAtInput, TextIsAccountedFor, RepairIsNearest

\* Every step keeps the input in order and the answer to it true.
LEMMA AnswersInvNext == PathsInv /\ StagesInv /\ AnswersInv /\ [Next]_vars => AnswersInv'
<1> SUFFICES ASSUME PathsInv, StagesInv, AnswersInv, [Next]_vars PROVE AnswersInv'
  OBVIOUS
<1> DEFINE no == FALSE
           yes == TRUE
<1>0. Ordered(canonical)
  BY DEF AnswersInv
<1>1. CASE segment_pinyin
  <2>1. PICK input \in Inputs, mode \in {"strict", "safe"} :
          LET chars == normalize_pinyin(input)
          IN  /\ canonical' = chars
              /\ IF chars = <<>> THEN Answer("InvalidPinyin", NoAnswer)
                 ELSE IF Len(chars) > MaxChars THEN Answer("PinyinLimitExceeded", NoAnswer)
                 ELSE IF mode = "strict"
                 THEN Decode("validate", chars, Zeros(chars), no)
                 ELSE IF CanScore(chars) THEN ScoredDecode(chars, yes)
                 ELSE Decode("decode", chars, Zeros(chars), yes)
    BY <1>1 DEF segment_pinyin
  <2> DEFINE chars == normalize_pinyin(input)
  <2> HIDE DEF no, yes
  <2>2. Ordered(chars)
    BY InputConfig, NormalizedIsWritten
  <2>3. /\ canonical' = chars
        /\ \/ chars = <<>>
           \/ Answer("PinyinLimitExceeded", NoAnswer)
           \/ Decode("validate", chars, Zeros(chars), no)
           \/ Decode("decode", chars, Zeros(chars), yes)
           \/ ScoredDecode(chars, yes)
    BY <2>1
  <2> HIDE DEF chars
  <2>4. CASE Answer("PinyinLimitExceeded", NoAnswer)
    <3>1. result'.error = "PinyinLimitExceeded"
      BY <2>4 DEF Answer
    <3> QED BY <2>2, <2>3, <3>1, OrderedHolds
  <2>5. CASE \/ Decode("validate", chars, Zeros(chars), no)
             \/ Decode("decode", chars, Zeros(chars), yes)
    <3>1. stage' # "answered"
      BY <2>5 DEF Decode
    <3> QED BY <2>2, <2>3, <3>1, OrderedHolds
  <2>6. CASE ScoredDecode(chars, yes)
    BY <2>2, <2>3, <2>6, ScoredLater, OrderedHolds
  <2> QED BY <2>2, <2>3, <2>4, <2>5, <2>6, OrderedHolds
<1>2. CASE decode_gap_viterbi
  <2>1. canonical' = canonical /\ stage' # "answered"
    BY <1>2 DEF decode_gap_viterbi
  <2> QED BY <1>0, <2>1, OrderedHolds
<1>3. CASE strict_validated
  <2>1. /\ stage = "validate" /\ decoding.begin = Size /\ Decoding
        /\ request' = request /\ canonical' = canonical
    BY <1>3 DEF strict_validated, Decoding
  <2>2. \/ Decode("diagnose", canonical, Zeros(canonical), yes)
        \/ ScoredDecode(canonical, no)
        \/ best[Size].reachable /\ AnswerPath(best[Size], no)
    BY <1>3 DEF strict_validated
  <2> HIDE DEF no, yes
  <2>3. CASE Decode("diagnose", canonical, Zeros(canonical), yes)
    <3>1. stage' # "answered"
      BY <2>3 DEF Decode
    <3> QED BY <1>0, <2>1, <3>1, OrderedHolds
  <2>4. CASE ScoredDecode(canonical, no)
    BY <1>0, <2>1, <2>4, ScoredLater, OrderedHolds
  <2>5. CASE best[Size].reachable /\ AnswerPath(best[Size], no)
    BY <2>1, <2>5, PathAnswerHolds
  <2> QED BY <2>2, <2>3, <2>4, <2>5
<1>4. CASE decoded
  <2> DEFINE rejected == stage = "diagnose"
  <2>1. /\ stage # "validate" /\ Decoding /\ decoding.begin = Size
        /\ AnswerPath(best[Size], rejected) /\ UNCHANGED <<request, canonical>>
    BY <1>4 DEF decoded, Decoding
  <2> HIDE DEF rejected
  <2> QED BY <2>1, PathAnswerHolds
<1>5. CASE call_returns
  <2> DEFINE chars == <<>>
  <2>1. Ordered(chars) /\ canonical' = chars /\ chars = <<>>
    <3>1. Len(<<>>) = 0
      OBVIOUS
    <3> QED BY <1>5, <3>1 DEF call_returns, Ordered
  <2> HIDE DEF chars
  <2> QED BY <2>1, OrderedHolds
<1>6. CASE UNCHANGED vars
  <2>1. /\ Size' = Size /\ (WasDecoded' <=> WasDecoded) /\ (Repairs' <=> Repairs) /\ Kept' = Kept
        /\ RangesPointAtInput' = RangesPointAtInput
    BY <1>6 DEF vars, Size, RangesPointAtInput, WasDecoded, InRanges, Repairs, Kept
  <2>2. TextIsAccountedFor' /\ RepairIsNearest'
    BY <1>6, <2>1 DEF vars, AnswersInv, TextIsAccountedFor, RepairIsNearest
  <2> QED BY <1>6, <2>1, <2>2 DEF vars, AnswersInv, Ordered
<1> QED BY <1>1, <1>2, <1>3, <1>4, <1>5, <1>6 DEF Next

\* The invariant of every run.
LEMMA AnswersInvHolds == Spec => []AnswersInv
<1> DEFINE Inv == PathsInv /\ StagesInv /\ AnswersInv
<1>1. Init => Inv
  BY PathsInvInit, StagesInvInit, AnswersInvInit
<1>2. Inv /\ [Next]_vars => Inv'
  BY PathsInvNext, StagesInvNext, AnswersInvNext
<1>3. Inv => AnswersInv
  OBVIOUS
<1> HIDE DEF Inv
<1> QED BY <1>1, <1>2, <1>3, PTL DEF Spec

\* For every vocabulary and every input: the ranges an answer calls invalid are in order and
\* apart, consist of whole typed characters and nothing else, and hold as few characters as
\* any way to cut the input leaves over (append_invalid, inference_engine.cpp).
THEOREM RangesAlwaysPointAtInput == Spec => []RangesPointAtInput
<1>1. AnswersInv => RangesPointAtInput
  BY DEF AnswersInv
<1> QED BY <1>1, AnswersInvHolds, PTL

\* For every vocabulary and every input: without repair, the segments of an answer are the
\* normalized characters outside the ranges it calls invalid, all of them and in order
\* (segment_pinyin, inference_engine.cpp).
THEOREM TextIsAlwaysAccountedFor == Spec => []TextIsAccountedFor
<1>1. AnswersInv => TextIsAccountedFor
  BY DEF AnswersInv
<1> QED BY <1>1, AnswersInvHolds, PTL

\* For every vocabulary, in whatever order, and every input: with repair, the segment in
\* place of an invalid character is the word of the vocabulary with the fewest edits, and
\* the smallest of those (find_pinyin_id_nearest, tokenizer.cpp).
THEOREM RepairIsAlwaysNearest == Spec => []RepairIsNearest
<1>1. AnswersInv => RepairIsNearest
  BY DEF AnswersInv
<1> QED BY <1>1, AnswersInvHolds, PTL

-----------------------------------------------------------------------------
(* Types *)

\* What is known of the values of the variables.
TypesInv == InputTypeOK /\ (stage = "idle" => decoding = NotDecoding)

\* The ranges of a sequence of ranges.
LEMMA SpansTyped ==
  ASSUME NEW ranges \in Seq(Spans)
  PROVE  \A r \in Range(ranges) : r.begin \in Nat /\ r.end \in Nat
<1>1. \A r \in Spans : r.begin \in Nat /\ r.end \in Nat
  BY DEF Spans
<1>2. \A i \in DOMAIN ranges : ranges[i] \in Spans
  OBVIOUS
<1> QED BY <1>1, <1>2 DEF Range

\* The answer of a decoding holds words and ranges.
LEMMA PathAnswerTyped ==
  ASSUME PathsInv, StagesInv, AnswersInv, TypesInv, Decoding, decoding.begin = Size,
         NEW rejected, stage = "validate" => best[Size].reachable,
         AnswerPath(best[Size], rejected), UNCHANGED <<request, canonical>>
  PROVE  TypesInv'
<1> DEFINE edges == best[Size].edges
           answer == AddEdges(edges)
           allow == decoding.allow_invalid
<1>1. Ordered(canonical)
  BY DEF AnswersInv
<1>2. /\ canonical \in Seq(Norm) /\ Written(canonical)
      /\ edges \in Seq(LegalEdges(canonical, allow)) /\ Chain(edges, Size)
      /\ result'.invalid_ranges = answer.invalid_ranges
      /\ result'.error \in {"Ok", "InvalidPinyin"}
      /\ result'.segments = IF result'.error = "Ok" THEN answer.segments ELSE <<>>
      /\ stage' = "answered"
      /\ canonical' = canonical /\ request' = request /\ decoding' = decoding
  BY <1>1, AnswerOfPath
<1> HIDE DEF edges, allow
<1>3. answer.segments \in Seq(Vocab)
  BY <1>2, SegmentsAnswered
<1>4. answer.invalid_ranges \in Seq(Spans)
  BY <1>1, <1>2, RangesAnswered DEF RangesHold
<1> HIDE DEF answer
<1>5. result'.segments \in Seq(Vocab)
  BY <1>2, <1>3
<1>6. \A r \in Range(result'.invalid_ranges) : r.begin \in Nat /\ r.end \in Nat
  BY <1>2, <1>4, SpansTyped
<1>7. Size' = Size
  BY <1>2 DEF Size
<1> QED BY <1>2, <1>5, <1>6, <1>7 DEF TypesInv, InputTypeOK

\* A decoding starts at the first position of what it decodes.
LEMMA DecodeTyped ==
  ASSUME InputTypeOK, PathsInv', NEW which \in {"validate", "diagnose", "decode"}, NEW chars,
         NEW logits, NEW allow \in BOOLEAN, Decode(which, chars, logits, allow),
         request'.input \in Inputs \cup {<<>>}, UNCHANGED result
  PROVE  TypesInv'
<1>1. 0 \in 0 .. Size'
  <2>1. Size' \in Nat
    BY DEF PathsInv, Size
  <2> QED BY <2>1
<1>2. stage' = which /\ decoding'.begin = 0 /\ decoding'.allow_invalid = allow
  BY DEF Decode
<1> QED BY <1>1, <1>2 DEF TypesInv, InputTypeOK

\* An answer without a decoding holds nothing.
LEMMA PlainAnswerTyped ==
  ASSUME InputTypeOK, NEW error \in {"InvalidPinyin", "PinyinLimitExceeded", "ModelError"},
         Answer(error, NoAnswer), request'.input \in Inputs \cup {<<>>},
         decoding.begin \in 0 .. Size'
  PROVE  TypesInv'
<1>1. /\ stage' = "answered" /\ decoding' = decoding /\ result'.error = error
      /\ result'.segments = <<>> /\ result'.invalid_ranges = <<>>
  BY DEF Answer, NoAnswer
<1>2. Range(<<>>) = {} /\ <<>> \in Seq(Vocab)
  BY DEF Range
<1> QED BY <1>1, <1>2 DEF TypesInv, InputTypeOK

\* A decoding that is scored.
LEMMA ScoredTyped ==
  ASSUME InputTypeOK, PathsInv', NEW chars, NEW allow \in BOOLEAN, ScoredDecode(chars, allow),
         request'.input \in Inputs \cup {<<>>}, decoding.begin \in 0 .. Size'
  PROVE  TypesInv'
<1>1. CASE \E logits \in [1 .. Len(chars) - 1 -> Logits] :
             Decode("decode", chars, logits, allow) /\ UNCHANGED result
  BY <1>1, DecodeTyped
<1>2. CASE Answer("ModelError", NoAnswer)
  BY <1>2, PlainAnswerTyped
<1> QED BY <1>1, <1>2 DEF ScoredDecode

\* Before the first call and between two calls.
LEMMA IdleTyped ==
  ASSUME request = NoCall, canonical = <<>>, stage = "idle", decoding = NotDecoding,
         result = NoResult
  PROVE  TypesInv
<1>1. Size = 0 /\ Range(<<>>) = {} /\ <<>> \in Seq(Vocab)
  BY DEF Size, Range
<1>2. request.input = <<>> /\ decoding.begin \in 0 .. Size /\ decoding.allow_invalid \in BOOLEAN
  BY <1>1 DEF NoCall, NotDecoding
<1>3. result.error = "InvalidPinyin" /\ result.segments = <<>> /\ result.invalid_ranges = <<>>
  BY DEF NoResult
<1>4. \A r \in Range(result.invalid_ranges) : r.begin \in Nat /\ r.end \in Nat
  BY <1>1, <1>3
<1> QED BY <1>1, <1>2, <1>3, <1>4 DEF TypesInv, InputTypeOK

\* Every step keeps the types.
LEMMA TypesInvNext ==
  ASSUME PathsInv, PathsInv', StagesInv, AnswersInv, TypesInv, [Next]_vars
  PROVE  TypesInv'
<1> DEFINE no == FALSE
           yes == TRUE
<1>0. /\ InputTypeOK /\ (stage = "idle" => decoding = NotDecoding)
      /\ request.input \in Inputs \cup {<<>>} /\ decoding.begin \in 0 .. Size
  BY DEF TypesInv, InputTypeOK
<1>1. CASE segment_pinyin
  <2>1. PICK input \in Inputs, mode \in {"strict", "safe"}, repair \in BOOLEAN :
          LET chars == normalize_pinyin(input)
          IN  /\ request' = [input |-> input, mode |-> mode, repair |-> repair]
              /\ canonical' = chars
              /\ IF chars = <<>> THEN Answer("InvalidPinyin", NoAnswer)
                 ELSE IF Len(chars) > MaxChars THEN Answer("PinyinLimitExceeded", NoAnswer)
                 ELSE IF mode = "strict"
                 THEN Decode("validate", chars, Zeros(chars), no) /\ UNCHANGED result
                 ELSE IF CanScore(chars) THEN ScoredDecode(chars, yes)
                 ELSE Decode("decode", chars, Zeros(chars), yes) /\ UNCHANGED result
    BY <1>1 DEF segment_pinyin
  <2> DEFINE chars == normalize_pinyin(input)
  <2>2. no \in BOOLEAN /\ yes \in BOOLEAN
    OBVIOUS
  <2> HIDE DEF no, yes
  <2>3. request'.input \in Inputs \cup {<<>>}
    BY <2>1
  <2>4. \/ Answer("InvalidPinyin", NoAnswer)
        \/ Answer("PinyinLimitExceeded", NoAnswer)
        \/ Decode("validate", chars, Zeros(chars), no) /\ UNCHANGED result
        \/ Decode("decode", chars, Zeros(chars), yes) /\ UNCHANGED result
        \/ ScoredDecode(chars, yes)
    BY <2>1
  <2>5. decoding.begin \in 0 .. Size'
    <3>1. Size' \in Nat
      BY DEF PathsInv, Size
    <3>2. decoding.begin = 0
      BY <1>0, <1>1 DEF segment_pinyin, NotDecoding
    <3> QED BY <3>1, <3>2
  <2> HIDE DEF chars
  <2>6. CASE \/ Answer("InvalidPinyin", NoAnswer)
             \/ Answer("PinyinLimitExceeded", NoAnswer)
    BY <1>0, <2>3, <2>5, <2>6, PlainAnswerTyped
  <2>7. CASE \/ Decode("validate", chars, Zeros(chars), no) /\ UNCHANGED result
             \/ Decode("decode", chars, Zeros(chars), yes) /\ UNCHANGED result
    BY <1>0, <2>2, <2>3, <2>7, DecodeTyped
  <2>8. CASE ScoredDecode(chars, yes)
    BY <1>0, <2>2, <2>3, <2>5, <2>8, ScoredTyped
  <2> QED BY <2>4, <2>6, <2>7, <2>8
<1>2. CASE decode_gap_viterbi
  <2>1. /\ Decoding /\ stage' = stage /\ stage # "idle" /\ request' = request
        /\ canonical' = canonical /\ result' = result /\ decoding.begin < Size
        /\ decoding' = [decoding EXCEPT !.begin = decoding.begin + 1]
    BY <1>2 DEF decode_gap_viterbi, Decoding
  <2>2. decoding'.begin = decoding.begin + 1 /\ decoding'.allow_invalid = decoding.allow_invalid
    BY <2>1 DEF PathsInv
  <2>3. Size' = Size /\ Size \in Nat
    BY <2>1 DEF Size, PathsInv
  <2>4. decoding'.begin \in 0 .. Size'
    BY <1>0, <2>1, <2>2, <2>3
  <2> QED BY <1>0, <2>1, <2>2, <2>4 DEF TypesInv, InputTypeOK
<1>3. CASE strict_validated
  <2>1. /\ stage = "validate" /\ decoding.begin = Size /\ Decoding
        /\ request' = request /\ canonical' = canonical
    BY <1>3 DEF strict_validated, Decoding
  <2>2. \/ Decode("diagnose", canonical, Zeros(canonical), yes) /\ UNCHANGED result
        \/ ScoredDecode(canonical, no)
        \/ best[Size].reachable /\ AnswerPath(best[Size], no)
    BY <1>3 DEF strict_validated
  <2>3. no \in BOOLEAN /\ yes \in BOOLEAN /\ request'.input \in Inputs \cup {<<>>}
        /\ decoding.begin \in 0 .. Size'
    BY <1>0, <2>1 DEF Size
  <2> HIDE DEF no, yes
  <2>4. CASE Decode("diagnose", canonical, Zeros(canonical), yes) /\ UNCHANGED result
    BY <1>0, <2>3, <2>4, DecodeTyped
  <2>5. CASE ScoredDecode(canonical, no)
    BY <1>0, <2>3, <2>5, ScoredTyped
  <2>6. CASE best[Size].reachable /\ AnswerPath(best[Size], no)
    BY <2>1, <2>6, PathAnswerTyped
  <2> QED BY <2>2, <2>4, <2>5, <2>6
<1>4. CASE decoded
  <2> DEFINE rejected == stage = "diagnose"
  <2>1. /\ stage # "validate" /\ Decoding /\ decoding.begin = Size
        /\ AnswerPath(best[Size], rejected) /\ UNCHANGED <<request, canonical>>
    BY <1>4 DEF decoded, Decoding
  <2> HIDE DEF rejected
  <2> QED BY <2>1, PathAnswerTyped
<1>5. CASE call_returns
  <2>1. /\ request' = NoCall /\ canonical' = <<>> /\ stage' = "idle" /\ decoding' = NotDecoding
        /\ result' = NoResult
    BY <1>5 DEF call_returns
  <2>2. Size' = 0 /\ Range(<<>>) = {} /\ <<>> \in Seq(Vocab)
    BY <2>1 DEF Size, Range
  <2>3. /\ request'.input = <<>>
        /\ decoding'.begin \in 0 .. Size' /\ decoding'.allow_invalid \in BOOLEAN
    BY <2>1, <2>2 DEF NoCall, NotDecoding
  <2>4. /\ result'.error = "InvalidPinyin" /\ result'.segments = <<>>
        /\ result'.invalid_ranges = <<>>
    BY <2>1 DEF NoResult
  <2>5. \A r \in Range(result'.invalid_ranges) : r.begin \in Nat /\ r.end \in Nat
    BY <2>2, <2>4
  <2> QED BY <2>1, <2>2, <2>3, <2>4, <2>5 DEF TypesInv, InputTypeOK
<1>6. CASE UNCHANGED vars
  <2>1. Size' = Size
    BY <1>6 DEF vars, Size
  <2> QED BY <1>6, <2>1 DEF vars, TypesInv, InputTypeOK
<1> QED BY <1>1, <1>2, <1>3, <1>4, <1>5, <1>6 DEF Next

\* For every vocabulary and every input: every variable keeps a value of its type, and every
\* segment answered is a word of the vocabulary.
THEOREM InputAlwaysTyped == Spec => []InputTypeOK
<1> DEFINE Inv == PathsInv /\ StagesInv /\ AnswersInv /\ TypesInv
<1>1. Init => Inv
  <2>1. Init => TypesInv
    BY IdleTyped DEF Init
  <2> QED BY <2>1, PathsInvInit, StagesInvInit, AnswersInvInit
<1>2. Inv /\ [Next]_vars => Inv'
  BY PathsInvNext, StagesInvNext, AnswersInvNext, TypesInvNext
<1>3. Inv => InputTypeOK
  BY DEF TypesInv
<1> HIDE DEF Inv
<1> QED BY <1>1, <1>2, <1>3, PTL DEF Spec
=============================================================================
