-------------------------- MODULE CollectionLemmas --------------------------
(***************************************************************************)
(* What the proofs of several components need to know of sequences and of  *)
(* finite sets.                                                            *)
(***************************************************************************)
EXTENDS Integers, Sequences, FiniteSets, FiniteSetsExt, SequencesExt,
        SequenceTheorems, FiniteSetTheorems, WellFoundedInduction, TLAPS

\* The tail of a sequence, the sequence with one element more, and a part of
\* one hold its elements in its order.
LEMMA TailElements ==
  ASSUME NEW S, NEW s \in Seq(S), s # <<>>
  PROVE  /\ Tail(s) \in Seq(S) /\ Len(Tail(s)) = Len(s) - 1 /\ Len(s) \in Nat \ {0}
         /\ Head(s) = s[1] /\ 1 \in DOMAIN s
         /\ \A i \in DOMAIN Tail(s) : i \in Nat /\ i + 1 \in DOMAIN s /\ Tail(s)[i] = s[i + 1]
         /\ \A i \in DOMAIN s : i \in Nat /\ (i # 1 => i - 1 \in DOMAIN Tail(s))
<1>1. /\ Tail(s) \in Seq(S) /\ Len(Tail(s)) = Len(s) - 1 /\ Len(s) \in Nat \ {0}
      /\ \A i \in 1..Len(Tail(s)) : Tail(s)[i] = s[i + 1]
      /\ Head(s) = s[1] /\ DOMAIN s = 1..Len(s) /\ DOMAIN Tail(s) = 1..Len(Tail(s))
  BY HeadTailProperties
<1> QED BY <1>1

LEMMA AppendElements ==
  ASSUME NEW S, NEW s \in Seq(S), NEW e \in S
  PROVE  /\ Append(s, e) \in Seq(S) /\ Len(s) \in Nat /\ DOMAIN s = 1..Len(s)
         /\ DOMAIN Append(s, e) = 1..(Len(s) + 1)
         /\ \A i \in DOMAIN s : Append(s, e)[i] = s[i]
         /\ \A i \in DOMAIN Append(s, e) :
              i \in DOMAIN s \/ (i = Len(s) + 1 /\ Append(s, e)[i] = e)
<1> DEFINE a == Append(s, e)
<1>1. a \in Seq(S) /\ Len(s) \in Nat /\ DOMAIN s = 1..Len(s)
  OBVIOUS
<1>2. DOMAIN a = 1..(Len(s) + 1)
  OBVIOUS
<1>3. \A i \in DOMAIN s : a[i] = s[i]
  OBVIOUS
<1>4. a[Len(s) + 1] = e
  OBVIOUS
<1>6. \A i \in DOMAIN a : i \in DOMAIN s \/ (i = Len(s) + 1 /\ a[i] = e)
  <2> SUFFICES ASSUME NEW i \in 1..(Len(s) + 1)
               PROVE  i \in 1..Len(s) \/ (i = Len(s) + 1 /\ a[i] = e)
    BY Zenon, <1>1, <1>2
  <2>1. i \in 1..Len(s) \/ i = Len(s) + 1
    BY <1>1
  <2> QED BY <1>1, <1>4, <2>1
<1>7. /\ a \in Seq(S) /\ Len(s) \in Nat /\ DOMAIN s = 1..Len(s) /\ DOMAIN a = 1..(Len(s) + 1)
      /\ \A i \in DOMAIN s : a[i] = s[i]
      /\ \A i \in DOMAIN a : i \in DOMAIN s \/ (i = Len(s) + 1 /\ a[i] = e)
  BY <1>1, <1>2, <1>3, <1>6
<1> QED BY Zenon, <1>7 DEF a

LEMMA PartElements ==
  ASSUME NEW S, NEW s \in Seq(S), NEW m \in 1..(Len(s) + 1), NEW n \in 0..Len(s), m <= n + 1
  PROVE  /\ SubSeq(s, m, n) \in Seq(S) /\ Len(SubSeq(s, m, n)) = n - m + 1
         /\ \A i \in DOMAIN SubSeq(s, m, n) :
              i \in Nat /\ m + i - 1 \in m..n /\ m + i - 1 \in DOMAIN s
              /\ SubSeq(s, m, n)[i] = s[m + i - 1]
<1>1. /\ SubSeq(s, m, n) \in Seq(S) /\ Len(SubSeq(s, m, n)) = n - m + 1
      /\ DOMAIN SubSeq(s, m, n) = 1..(n - m + 1)
      /\ \A i \in 1..(n - m + 1) : SubSeq(s, m, n)[i] = s[m + i - 1]
  BY SubSeqProperties
<1> QED BY <1>1

\* A set of indices of a sequence has a last one.
LEMMA LastIndex ==
  ASSUME NEW n \in Nat, NEW S, S \subseteq 1..n, S # {}
  PROVE  \E i \in S : \A j \in S : j <= i
<1> DEFINE R == {p \in Nat \X Nat : p[1] < p[2]}
           T == {n - i : i \in S}
<1>1. IsWellFoundedOn(R, Nat)
  BY NatLessThanWellFounded DEF OpToRel
<1>2. T \subseteq Nat /\ T # {}
  <2>1. PICK i \in S : TRUE
    OBVIOUS
  <2>2. n - i \in T
    BY <2>1
  <2>3. \A x \in T : x \in Nat
    OBVIOUS
  <2> QED BY <2>2, <2>3
<1> HIDE DEF R, T
<1>3. PICK x \in T : \A y \in T : ~(<<y, x>> \in R)
  BY <1>1, <1>2, WFMin
<1>4. PICK i \in S : x = n - i
  BY DEF T
<1>5. ASSUME NEW j \in S PROVE j <= i
  <2>1. n - j \in T /\ n - j \in Nat /\ x \in Nat
    BY <1>2 DEF T
  <2>2. ~(n - j < x)
    BY <1>3, <2>1 DEF R
  <2> QED BY <1>4, <2>1, <2>2
<1> QED BY <1>5

\* It has a first one as well.
LEMMA FirstIndex ==
  ASSUME NEW n \in Nat, NEW S, S \subseteq 1..n, S # {}
  PROVE  \E i \in S : \A j \in S : i <= j
<1> DEFINE R == {p \in Nat \X Nat : p[1] < p[2]}
<1>1. IsWellFoundedOn(R, Nat)
  BY NatLessThanWellFounded DEF OpToRel
<1>2. S \subseteq Nat
  OBVIOUS
<1> HIDE DEF R
<1>3. PICK i \in S : \A j \in S : ~(<<j, i>> \in R)
  BY <1>1, <1>2, WFMin
<1>4. ASSUME NEW j \in S PROVE i <= j
  <2>1. i \in Nat /\ j \in Nat /\ ~(j < i)
    BY <1>2, <1>3 DEF R
  <2> QED BY <2>1
<1> QED BY <1>4

(***************************************************************************)
(* Sums over finite sets.                                                  *)
(***************************************************************************)

\* Of any finite sets there is one that no other is a proper part of.
LEMMA SmallestSet ==
  ASSUME NEW B, B # {}, \A s \in B : IsFiniteSet(s)
  PROVE  \E s \in B : \A t \in B : t \subseteq s => t = s
<1> DEFINE R == {p \in Nat \X Nat : p[1] < p[2]}
           T == {Cardinality(s) : s \in B}
<1>1. IsWellFoundedOn(R, Nat)
  BY NatLessThanWellFounded DEF OpToRel
<1>2. T \subseteq Nat /\ T # {}
  BY FS_CardinalityType
<1> HIDE DEF R, T
<1>3. PICK n \in T : \A m \in T : ~(<<m, n>> \in R)
  BY <1>1, <1>2, WFMin
<1>4. PICK s \in B : n = Cardinality(s)
  BY DEF T
<1>5. ASSUME NEW t \in B, t \subseteq s PROVE t = s
  <2>1. Cardinality(t) \in T /\ n \in Nat /\ Cardinality(t) \in Nat
    BY <1>2 DEF T
  <2>2. ~(Cardinality(t) < n)
    BY <1>3, <2>1 DEF R
  <2>3. Cardinality(t) <= Cardinality(s) /\ (Cardinality(t) = Cardinality(s) => t = s)
    BY <1>5, FS_Subset
  <2> QED BY <1>4, <2>1, <2>2, <2>3
<1> QED BY <1>5

\* F adds up g over the subsets of S; p says which element of a set is next.
IsSum(F, g, p, S) ==
  F = [s \in SUBSET S |-> IF s = {} THEN 0 ELSE g[p[s]] + F[s \ {p[s]}]]

\* p finds an element in every subset of S but the empty one.
Picks(p, S) == \A s \in (SUBSET S) \ {{}} : p[s] \in s

\* Such a sum is a number, and adding up over more sets does not change it.
LEMMA SumIsNumber ==
  ASSUME NEW F, NEW g, NEW p, NEW S, IsFiniteSet(S), Picks(p, S), \A x \in S : g[x] \in Int,
         IsSum(F, g, p, S)
  PROVE  \A s \in SUBSET S : F[s] \in Int
<1> DEFINE B == {s \in SUBSET S : F[s] \notin Int}
<1> SUFFICES ASSUME B # {} PROVE FALSE
  OBVIOUS
<1>0. \A s \in B : IsFiniteSet(s)
  BY FS_Subset
<1>1. PICK s \in B : \A t \in B : t \subseteq s => t = s
  <2> HIDE DEF B
  <2> QED BY <1>0, SmallestSet
<1>2. F[s] = IF s = {} THEN 0 ELSE g[p[s]] + F[s \ {p[s]}]
  BY DEF IsSum
<1>3. s # {}
  BY <1>2
<1>4. p[s] \in s
  BY <1>3 DEF Picks
<1>5. s \ {p[s]} \notin B /\ s \ {p[s]} \in SUBSET S
  BY <1>1, <1>4
<1> QED BY <1>2, <1>3, <1>4, <1>5

LEMMA SumsAgree ==
  ASSUME NEW F, NEW H, NEW g, NEW p, NEW S, NEW T, IsSum(F, g, p, S), IsSum(H, g, p, T),
         Picks(p, S), NEW u, u \subseteq S, u \subseteq T, IsFiniteSet(u)
  PROVE  F[u] = H[u]
<1> DEFINE B == {s \in SUBSET u : F[s] # H[s]}
<1> SUFFICES ASSUME B # {} PROVE FALSE
  OBVIOUS
<1>0. \A s \in B : IsFiniteSet(s)
  BY FS_Subset
<1>1. PICK s \in B : \A t \in B : t \subseteq s => t = s
  <2> HIDE DEF B
  <2> QED BY <1>0, SmallestSet
<1>2. /\ F[s] = IF s = {} THEN 0 ELSE g[p[s]] + F[s \ {p[s]}]
      /\ H[s] = IF s = {} THEN 0 ELSE g[p[s]] + H[s \ {p[s]}]
  BY DEF IsSum
<1>3. s # {}
  BY <1>2
<1>4. p[s] \in s
  BY <1>3 DEF Picks
<1>5. s \ {p[s]} \notin B
  BY <1>1, <1>4
<1> QED BY <1>2, <1>3, <1>5

\* It exists.
LEMMA SumExists ==
  ASSUME NEW g, NEW p, NEW S, IsFiniteSet(S), Picks(p, S)
  PROVE  \E F : IsSum(F, g, p, S)
<1> DEFINE B == {s \in SUBSET S : ~\E F : IsSum(F, g, p, s)}
<1> SUFFICES ASSUME B # {} PROVE FALSE
  OBVIOUS
<1>0. \A s \in B : IsFiniteSet(s)
  BY FS_Subset
<1>1. PICK s \in B : \A t \in B : t \subseteq s => t = s
  <2> HIDE DEF B
  <2> QED BY <1>0, SmallestSet
<1> DEFINE Of(t) == CHOOSE F : IsSum(F, g, p, t)
           V(t) == Of(t)[t]
           G == [t \in SUBSET s |->
                     IF t = {} THEN 0 ELSE IF t = s THEN g[p[s]] + V(s \ {p[s]}) ELSE V(t)]
<1>2. ASSUME NEW t \in SUBSET s, t # s PROVE IsSum(Of(t), g, p, t)
  <2>1. t \in SUBSET S
    OBVIOUS
  <2>2. t \notin B
    BY <1>1, <1>2
  <2> QED BY <2>1, <2>2
<1>3. ASSUME NEW t \in SUBSET s, t # s, t # {}
      PROVE  V(t) = g[p[t]] + V(t \ {p[t]})
  <2>1. p[t] \in t
    BY <1>3 DEF Picks
  <2> DEFINE u == t \ {p[t]}
  <2>2. IsSum(Of(t), g, p, t) /\ IsSum(Of(u), g, p, u)
    BY <1>2, <1>3
  <2>3. V(t) = g[p[t]] + Of(t)[u]
    BY <1>3, <2>2 DEF IsSum
  <2>4. Picks(p, t) /\ IsFiniteSet(u)
    BY FS_Subset DEF Picks
  <2>5. Of(t)[u] = Of(u)[u]
    BY <2>2, <2>4, SumsAgree
  <2> QED BY <2>3, <2>5
<1>4. s # {} => V({}) = 0
  <2>1. s # {} => IsSum(Of({}), g, p, {})
    BY <1>2
  <2> QED BY <2>1 DEF IsSum
<1>5. ASSUME NEW t \in SUBSET s
      PROVE  G[t] = IF t = {} THEN 0 ELSE g[p[t]] + G[t \ {p[t]}]
  <2> SUFFICES ASSUME t # {} PROVE G[t] = g[p[t]] + G[t \ {p[t]}]
    OBVIOUS
  <2> DEFINE u == t \ {p[t]}
  <2>1. p[t] \in t
    BY DEF Picks
  <2>2. u \in SUBSET s /\ u # s /\ s # {}
    BY <2>1
  <2>3. G[u] = V(u)
    <3> HIDE DEF V, u
    <3> QED BY <1>4, <2>2
  <2>4. G[t] = g[p[t]] + V(u)
    <3>1. CASE t = s
      <4> HIDE DEF V
      <4> QED BY <3>1
    <3>2. CASE t # s
      <4>1. V(t) = g[p[t]] + V(u)
        BY <1>3, <3>2
      <4> HIDE DEF V, u
      <4> QED BY <3>2, <4>1
    <3> QED BY <3>1, <3>2
  <2> HIDE DEF G, V, u
  <2> QED BY <2>3, <2>4 DEF u
<1>6. IsSum(G, g, p, s)
  <2> HIDE DEF V
  <2>1. G = [t \in SUBSET s |-> G[t]]
    OBVIOUS
  <2> HIDE DEF G
  <2> QED BY <1>5, <2>1 DEF IsSum
<1> QED BY <1>1, <1>6

\* Whichever element is next: any of them can be taken out of the sum.
LEMMA SumTakesAny ==
  ASSUME NEW F, NEW g, NEW p, NEW S, IsFiniteSet(S), Picks(p, S), \A x \in S : g[x] \in Int,
         IsSum(F, g, p, S)
  PROVE  \A s \in SUBSET S : \A x \in s : F[s] = g[x] + F[s \ {x}]
<1> DEFINE B == {s \in SUBSET S : \E y \in s : F[s] # g[y] + F[s \ {y}]}
<1> SUFFICES ASSUME B # {} PROVE FALSE
  OBVIOUS
<1>0. \A s \in B : IsFiniteSet(s)
  BY FS_Subset
<1>1. PICK s \in B : \A t \in B : t \subseteq s => t = s
  <2> HIDE DEF B
  <2> QED BY <1>0, SmallestSet
<1>2. PICK y \in s : F[s] # g[y] + F[s \ {y}]
  OBVIOUS
<1> DEFINE z == p[s]
<1>3. z \in s /\ s \subseteq S /\ F[s] = g[z] + F[s \ {z}]
  BY <1>2 DEF IsSum, Picks
<1>4. y # z
  BY <1>2, <1>3
<1>5. F[s \ {z}] = g[y] + F[(s \ {z}) \ {y}]
  <2>1. s \ {z} \notin B /\ s \ {z} \in SUBSET S /\ y \in s \ {z}
    BY <1>1, <1>3, <1>4
  <2> QED BY <2>1
<1>6. F[s \ {y}] = g[z] + F[(s \ {y}) \ {z}]
  <2>1. s \ {y} \notin B /\ s \ {y} \in SUBSET S /\ z \in s \ {y}
    BY <1>1, <1>3, <1>4
  <2> QED BY <2>1
<1>7. (s \ {y}) \ {z} = (s \ {z}) \ {y}
  OBVIOUS
<1>8. F[(s \ {z}) \ {y}] \in Int /\ g[y] \in Int /\ g[z] \in Int
  BY <1>3, SumIsNumber
<1>9. F[(s \ {y}) \ {z}] = F[(s \ {z}) \ {y}]
  BY <1>7
<1> HIDE DEF z
<1> QED BY <1>2, <1>3, <1>5, <1>6, <1>8, <1>9

\* Two sums of g agree, over whichever sets and in whichever order they add up.
LEMMA SumsEqual ==
  ASSUME NEW F, NEW H, NEW g, NEW p, NEW q, NEW S, NEW T, IsFiniteSet(S), IsFiniteSet(T),
         Picks(p, S), Picks(q, T), \A x \in S \cup T : g[x] \in Int,
         IsSum(F, g, p, S), IsSum(H, g, q, T)
  PROVE  \A u \in (SUBSET S) \cap (SUBSET T) : F[u] = H[u]
<1> DEFINE B == {u \in (SUBSET S) \cap (SUBSET T) : F[u] # H[u]}
<1> SUFFICES ASSUME B # {} PROVE FALSE
  OBVIOUS
<1>0. \A s \in B : IsFiniteSet(s)
  BY FS_Subset
<1>1. PICK s \in B : \A t \in B : t \subseteq s => t = s
  <2> HIDE DEF B
  <2> QED BY <1>0, SmallestSet
<1>2. s # {}
  BY DEF IsSum
<1>3. PICK x \in s : TRUE
  BY <1>2
<1>4. F[s] = g[x] + F[s \ {x}]
  BY <1>3, SumTakesAny
<1>5. H[s] = g[x] + H[s \ {x}]
  BY <1>3, SumTakesAny
<1>6. s \ {x} \notin B /\ s \ {x} \in (SUBSET S) \cap (SUBSET T)
  BY <1>1, <1>3
<1> QED BY <1>4, <1>5, <1>6

\* The sum of g over S, as FiniteSetsExt adds it up.
Total(g, S) == MapThenSumSet(LAMBDA e : g[e], S)

LEMMA TotalIsSum ==
  ASSUME NEW g, NEW S, IsFiniteSet(S)
  PROVE  \E F, p : IsSum(F, g, p, S) /\ Picks(p, S) /\ Total(g, S) = F[S]
<1> DEFINE p == [s \in SUBSET S |-> CHOOSE x \in s : TRUE]
           F == CHOOSE iter :
                  iter = [s \in SUBSET S |->
                            IF s = {} THEN 0
                            ELSE g[CHOOSE x \in s : TRUE] + iter[s \ {CHOOSE x \in s : TRUE}]]
<1>1. Picks(p, S)
  BY DEF Picks
<1>2. PICK H : IsSum(H, g, p, S)
  <2> HIDE DEF p
  <2> QED BY <1>1, SumExists
<1>3. F = [s \in SUBSET S |-> IF s = {} THEN 0
                              ELSE g[CHOOSE x \in s : TRUE] + F[s \ {CHOOSE x \in s : TRUE}]]
  <2>1. H = [s \in SUBSET S |-> IF s = {} THEN 0
                                ELSE g[CHOOSE x \in s : TRUE] + H[s \ {CHOOSE x \in s : TRUE}]]
    BY <1>2 DEF IsSum
  <2> QED BY <2>1
<1>4. IsSum(F, g, p, S)
  <2> HIDE DEF F
  <2> QED BY <1>3 DEF IsSum
<1>5. Total(g, S) = F[S]
  BY DEF Total, MapThenSumSet, MapThenFoldSet
<1> QED BY <1>1, <1>4, <1>5

\* The sum of nothing is 0, the sum over one element more is its value more,
\* and a sum is a number.
LEMMA TotalOfNothing ==
  ASSUME NEW g
  PROVE  Total(g, {}) = 0
<1>1. IsFiniteSet({})
  BY FS_EmptySet
<1>2. PICK F, p : IsSum(F, g, p, {}) /\ Total(g, {}) = F[{}]
  BY <1>1, TotalIsSum
<1>3. {} \in SUBSET {}
  OBVIOUS
<1> HIDE DEF Total
<1> QED BY <1>2, <1>3 DEF IsSum

LEMMA TotalWith ==
  ASSUME NEW g, NEW S, IsFiniteSet(S), \A y \in S : g[y] \in Int, NEW x, x \notin S, g[x] \in Int
  PROVE  Total(g, S \cup {x}) = Total(g, S) + g[x] /\ Total(g, S) \in Int
<1> DEFINE T == S \cup {x}
<1>1. IsFiniteSet(T) /\ S \in SUBSET T /\ x \in T /\ T \ {x} = S
  BY FS_AddElement
<1> HIDE DEF T
<1>2. PICK F, p : IsSum(F, g, p, T) /\ Picks(p, T) /\ Total(g, T) = F[T]
  BY <1>1, TotalIsSum
<1>3. PICK H, q : IsSum(H, g, q, S) /\ Picks(q, S) /\ Total(g, S) = H[S]
  BY TotalIsSum
<1>4. \A y \in S \cup T : g[y] \in Int
  BY DEF T
<1>5. F[T] = g[x] + F[S]
  BY <1>1, <1>2, <1>4, SumTakesAny
<1>6. F[S] = H[S]
  BY <1>1, <1>2, <1>3, <1>4, SumsEqual
<1>7. H[S] \in Int
  BY <1>3, SumIsNumber
<1> QED BY <1>2, <1>3, <1>5, <1>6, <1>7 DEF T

\* The value before or after: the order of the two summands is all the same.
LEMMA SumCommutes ==
  ASSUME NEW F, NEW g, NEW p, NEW S, IsFiniteSet(S), Picks(p, S), \A x \in S : g[x] \in Int,
         F = [s \in SUBSET S |-> IF s = {} THEN 0 ELSE F[s \ {p[s]}] + g[p[s]]]
  PROVE  IsSum(F, g, p, S)
<1>1. \A s \in SUBSET S : F[s] = IF s = {} THEN 0 ELSE F[s \ {p[s]}] + g[p[s]]
  OBVIOUS
<1>2. \A s \in SUBSET S : F[s] \in Int
  <2> DEFINE B == {s \in SUBSET S : F[s] \notin Int}
  <2> SUFFICES ASSUME B # {} PROVE FALSE
    OBVIOUS
  <2>1. \A s \in B : IsFiniteSet(s)
    BY FS_Subset
  <2>2. PICK s \in B : \A t \in B : t \subseteq s => t = s
    <3> HIDE DEF B
    <3> QED BY <2>1, SmallestSet
  <2>3. s # {}
    <3>1. {} \in SUBSET S
      OBVIOUS
    <3>2. F[{}] = 0
      BY <1>1, <3>1
    <3>3. s \in B /\ F[s] \notin Int
      BY <2>2
    <3>4. 0 \in Int
      OBVIOUS
    <3> HIDE DEF B
    <3> QED BY <3>2, <3>3, <3>4
  <2>4. p[s] \in s
    BY <2>3 DEF Picks
  <2>5. s \ {p[s]} \notin B /\ s \ {p[s]} \in SUBSET S
    BY <2>2, <2>4
  <2> QED BY <1>1, <2>3, <2>4, <2>5
<1>3. \A s \in SUBSET S : F[s] = IF s = {} THEN 0 ELSE g[p[s]] + F[s \ {p[s]}]
  <2> TAKE s \in SUBSET S
  <2>1. CASE s = {}
    BY <1>1, <2>1
  <2>2. CASE s # {}
    <3>1. p[s] \in S /\ s \ {p[s]} \in SUBSET S
      BY <2>2 DEF Picks
    <3>2. g[p[s]] \in Int /\ F[s \ {p[s]}] \in Int
      BY <1>2, <3>1
    <3> QED BY <1>1, <2>2, <3>2
  <2> QED BY <2>1, <2>2
<1> QED BY <1>3 DEF IsSum

\* A sum is that of the same values elsewhere.
LEMMA TotalMoved ==
  ASSUME NEW g, NEW h, NEW S, NEW T, NEW b, IsFiniteSet(S), \A x \in S : g[x] \in Int,
         \A x \in S : b[x] \in T /\ h[b[x]] = g[x],
         \A x, y \in S : b[x] = b[y] => x = y, \A z \in T : \E x \in S : b[x] = z
  PROVE  Total(g, S) = Total(h, T)
<1> DEFINE I(s) == {b[x] : x \in s}
           B == {s \in SUBSET S : Total(g, s) # Total(h, I(s))}
<1> SUFFICES ASSUME B # {} PROVE FALSE
  <2>1. T = I(S)
    OBVIOUS
  <2> QED BY <2>1
<1>0. \A s \in B : IsFiniteSet(s)
  BY FS_Subset
<1>1. PICK s \in B : \A t \in B : t \subseteq s => t = s
  <2> HIDE DEF B
  <2> QED BY <1>0, SmallestSet
<1>2. s # {}
  <2>1. I({}) = {}
    OBVIOUS
  <2> QED BY <2>1, TotalOfNothing
<1>3. PICK x \in s : TRUE
  BY <1>2
<1> DEFINE t == s \ {x}
<1>4. IsFiniteSet(t) /\ IsFiniteSet(I(t)) /\ t \subseteq S /\ x \notin t /\ s = t \cup {x}
  <2>1. IsFiniteSet(t)
    BY <1>0, FS_Subset
  <2>2. [z \in t |-> b[z]] \in Surjection(t, I(t))
    BY DEF Surjection
  <2>3. IsFiniteSet(I(t))
    BY <2>1, <2>2, FS_Surjection
  <2> QED BY <1>3, <2>1, <2>3
<1>5. I(s) = I(t) \cup {b[x]} /\ b[x] \notin I(t)
  BY <1>3
<1>6. \A z \in I(t) \cup {b[x]} : h[z] \in Int
  OBVIOUS
<1>7. Total(g, t) = Total(h, I(t))
  BY <1>1, <1>3
<1> HIDE DEF I, t
<1>8. Total(g, t \cup {x}) = Total(g, t) + g[x]
  BY <1>3, <1>4, TotalWith
<1>9. Total(h, I(t) \cup {b[x]}) = Total(h, I(t)) + h[b[x]]
  BY <1>4, <1>5, <1>6, TotalWith
<1> QED BY <1>4, <1>5, <1>7, <1>8, <1>9

\* The sum of a sequence is that over its indices.
SeqTotal(m) == FoldLeft(LAMBDA a, b : a + b, 0, m)

LEMMA SeqTotalIsTotal ==
  ASSUME NEW m \in Seq(Int)
  PROVE  SeqTotal(m) = Total(m, DOMAIN m)
<1> DEFINE D == DOMAIN m
           p == [s \in SUBSET D |-> Max(s)]
           F == CHOOSE iter :
                  iter = [s \in SUBSET D |->
                            IF s = {} THEN 0 ELSE iter[s \ {Max(s)}] + m[Max(s)]]
<1>0. D = 1..Len(m) /\ Len(m) \in Nat /\ IsFiniteSet(D) /\ \A x \in D : m[x] \in Int
  BY FS_Interval
<1>1. Picks(p, D)
  <2> SUFFICES ASSUME NEW s \in SUBSET D, s # {} PROVE Max(s) \in s
    BY DEF Picks
  <2>1. PICK i \in s : \A j \in s : j <= i
    BY <1>0, LastIndex
  <2> QED BY <1>0, <2>1 DEF Max
<1> HIDE DEF D
<1>2. PICK H : IsSum(H, m, p, D)
  <2> HIDE DEF p
  <2> QED BY <1>0, <1>1, SumExists
<1>3. H = [s \in SUBSET D |-> IF s = {} THEN 0 ELSE H[s \ {Max(s)}] + m[Max(s)]]
  <2>1. \A s \in SUBSET D : H[s] \in Int
    <3> HIDE DEF p
    <3> QED BY <1>0, <1>1, <1>2, SumIsNumber
  <2>2. H = [s \in SUBSET D |-> IF s = {} THEN 0 ELSE m[Max(s)] + H[s \ {Max(s)}]]
    BY <1>2 DEF IsSum
  <2>3. \A s \in SUBSET D : s # {} => m[Max(s)] + H[s \ {Max(s)}] = H[s \ {Max(s)}] + m[Max(s)]
    <3> SUFFICES ASSUME NEW s \in SUBSET D, s # {}
                 PROVE  m[Max(s)] + H[s \ {Max(s)}] = H[s \ {Max(s)}] + m[Max(s)]
      OBVIOUS
    <3>1. Max(s) \in D /\ s \ {Max(s)} \in SUBSET D
      BY <1>1 DEF Picks
    <3>2. m[Max(s)] \in Int /\ H[s \ {Max(s)}] \in Int
      BY <1>0, <2>1, <3>1
    <3> QED BY <3>2
  <2> QED BY <2>2, <2>3
<1>4. F = [s \in SUBSET D |-> IF s = {} THEN 0 ELSE F[s \ {Max(s)}] + m[Max(s)]]
  BY <1>3
<1> HIDE DEF F
<1>5. F = [s \in SUBSET D |-> IF s = {} THEN 0 ELSE F[s \ {p[s]}] + m[p[s]]]
  BY <1>4
<1>6. SeqTotal(m) = F[D]
  BY DEF SeqTotal, FoldLeft, MapThenFoldSet, F, D
<1> HIDE DEF p
<1>7. IsSum(F, m, p, D)
  BY <1>0, <1>1, <1>5, SumCommutes
<1>8. PICK G, q : IsSum(G, m, q, D) /\ Picks(q, D) /\ Total(m, D) = G[D]
  BY <1>0, TotalIsSum
<1>9. F[D] = G[D]
  BY <1>0, <1>1, <1>7, <1>8, SumsEqual
<1> QED BY <1>6, <1>8, <1>9 DEF D

LEMMA SeqTotalType == ASSUME NEW m \in Seq(Int) PROVE SeqTotal(m) \in Int
<1>1. IsFiniteSet(DOMAIN m) /\ \A i \in DOMAIN m : m[i] \in Int
  <2>1. DOMAIN m = 1..Len(m) /\ Len(m) \in Nat
    OBVIOUS
  <2> QED BY <2>1, FS_Interval
<1>2. PICK F, p : IsSum(F, m, p, DOMAIN m) /\ Picks(p, DOMAIN m) /\ Total(m, DOMAIN m) = F[DOMAIN m]
  BY <1>1, TotalIsSum
<1>3. F[DOMAIN m] \in Int
  BY <1>1, <1>2, SumIsNumber
<1> QED BY <1>2, <1>3, SeqTotalIsTotal

\* A sequence without its k-th element, and where it has the value v.
Without(m, k) == [i \in 1..(Len(m) - 1) |-> IF k <= i THEN m[i + 1] ELSE m[i]]
Places(m, v) == {i \in DOMAIN m : m[i] = v}

LEMMA PlacesFinite ==
  ASSUME NEW S, NEW m \in Seq(S), NEW v
  PROVE  IsFiniteSet(Places(m, v)) /\ Cardinality(Places(m, v)) \in Nat
<1>1. IsFiniteSet(1..Len(m)) /\ Places(m, v) \subseteq 1..Len(m)
  BY FS_Interval DEF Places
<1> QED BY <1>1, FS_Subset, FS_CardinalityType

\* An element less takes its value from the sum, and one place of its value.
LEMMA WithoutElement ==
  ASSUME NEW m \in Seq(Int), NEW k \in DOMAIN m
  PROVE  /\ Without(m, k) \in Seq(Int)
         /\ SeqTotal(Without(m, k)) = SeqTotal(m) - m[k] /\ SeqTotal(m) \in Int
         /\ \A v : Cardinality(Places(m, v)) =
                     Cardinality(Places(Without(m, k), v)) + (IF m[k] = v THEN 1 ELSE 0)
<1> DEFINE D == DOMAIN m
           w == Without(m, k)
           E == DOMAIN w
           b == [i \in E |-> IF k <= i THEN i + 1 ELSE i]
<1>1. /\ Len(m) \in Nat \ {0} /\ D = 1..Len(m) /\ E = 1..(Len(m) - 1) /\ k \in D
      /\ \A i \in D : m[i] \in Int
      /\ \A i \in E : w[i] = IF k <= i THEN m[i + 1] ELSE m[i]
  BY DEF Without
<1>2. w \in Seq(Int)
  <2>1. \A i \in 1..(Len(m) - 1) : (IF k <= i THEN m[i + 1] ELSE m[i]) \in Int
    BY <1>1
  <2>2. Len(m) - 1 \in Nat
    BY <1>1
  <2>3. w \in [1..(Len(m) - 1) -> Int]
    BY <2>1 DEF Without
  <2> HIDE DEF w
  <2> QED BY <2>2, <2>3
<1> HIDE DEF w, D, E
<1>3. /\ \A i \in E : b[i] \in D \ {k} /\ m[b[i]] = w[i]
      /\ \A i, j \in E : b[i] = b[j] => i = j
  <2>1. ASSUME NEW i \in E PROVE b[i] = (IF k <= i THEN i + 1 ELSE i) /\ i \in Int /\ k \in Int
    BY <1>1
  <2>2. ASSUME NEW i \in E PROVE b[i] \in D \ {k} /\ m[b[i]] = w[i]
    BY <1>1, <2>1
  <2> HIDE DEF b
  <2>3. ASSUME NEW i \in E, NEW j \in E, b[i] = b[j] PROVE i = j
    BY <2>1, <2>3
  <2> QED BY <2>2, <2>3
<1>4. ASSUME NEW z \in D \ {k} PROVE \E i \in E : b[i] = z
  <2>1. CASE z < k
    BY <1>1, <2>1
  <2>2. CASE z > k
    <3>1. z - 1 \in E /\ k <= z - 1
      BY <1>1, <2>2
    <3> QED BY <1>1, <3>1
  <2> QED BY <1>1, <2>1, <2>2
<1>5. IsFiniteSet(D \ {k}) /\ IsFiniteSet(E) /\ D = (D \ {k}) \cup {k} /\ \A i \in E : w[i] \in Int
  <2>1. IsFiniteSet(1..Len(m)) /\ IsFiniteSet(1..(Len(m) - 1))
    BY <1>1, FS_Interval
  <2>2. D = (D \ {k}) \cup {k} /\ \A i \in E : w[i] \in Int
    <3>1. ASSUME NEW i \in E PROVE w[i] \in Int
      <4>1. i \in D /\ i + 1 \in D
        BY <1>1
      <4>2. w[i] = m[i] \/ w[i] = m[i + 1]
        BY <1>1
      <4> QED BY <1>1, <4>1, <4>2
    <3>2. D = (D \ {k}) \cup {k}
      BY <1>1
    <3> QED BY <3>1, <3>2
  <2>3. IsFiniteSet(D) /\ IsFiniteSet(E) /\ D \ {k} \subseteq D
    BY <1>1, <2>1
  <2> QED BY <2>2, <2>3, FS_Subset
<1>6. Total(w, E) = Total(m, D \ {k})
  <2> HIDE DEF b
  <2> QED BY <1>3, <1>4, <1>5, TotalMoved
<1>7. Total(m, (D \ {k}) \cup {k}) = Total(m, D \ {k}) + m[k] /\ Total(m, D \ {k}) \in Int
  BY <1>1, <1>5, TotalWith
<1>8. SeqTotal(w) = SeqTotal(m) - m[k] /\ SeqTotal(m) \in Int
  <2>1. SeqTotal(w) = Total(w, E) /\ SeqTotal(m) = Total(m, D)
    BY <1>2, SeqTotalIsTotal DEF D, E
  <2>2. Total(m, D) = Total(m, D \ {k}) + m[k]
    BY <1>5, <1>7
  <2>3. m[k] \in Int /\ Total(m, D \ {k}) \in Int
    BY <1>1, <1>7
  <2> QED BY <1>6, <2>1, <2>2, <2>3
<1>9. ASSUME NEW v
      PROVE  Cardinality(Places(m, v)) = Cardinality(Places(w, v)) + (IF m[k] = v THEN 1 ELSE 0)
  <2> DEFINE P == Places(m, v) \ {k}
             Q == Places(w, v)
             c == [i \in Q |-> b[i]]
  <2>1. P = {i \in D \ {k} : m[i] = v} /\ Q = {i \in E : w[i] = v}
    BY DEF Places, D, E
  <2>2. c \in Bijection(Q, P)
    <3>1. \A i \in Q : b[i] \in P
      BY <1>3, <2>1
    <3>2. \A z \in P : \E i \in Q : b[i] = z
      BY <1>3, <1>4, <2>1
    <3>3. \A i, j \in Q : b[i] = b[j] => i = j
      BY <1>3, <2>1
    <3> HIDE DEF b, P, Q
    <3> QED BY <3>1, <3>2, <3>3 DEF Bijection, Injection, Surjection, IsInjective
  <2>3. IsFiniteSet(Q) /\ Cardinality(Q) \in Nat /\ IsFiniteSet(Places(m, v))
    BY <1>2, PlacesFinite
  <2>4. Cardinality(P) = Cardinality(Q)
    BY <2>2, <2>3, FS_Bijection DEF ExistsBijection
  <2>5. Cardinality(P) = IF k \in Places(m, v) THEN Cardinality(Places(m, v)) - 1
                         ELSE Cardinality(Places(m, v))
    BY <2>3, FS_RemoveElement
  <2>6. k \in Places(m, v) <=> m[k] = v
    BY DEF Places
  <2>7. Cardinality(Places(m, v)) \in Nat
    BY <2>3, FS_CardinalityType
  <2> QED BY <2>3, <2>4, <2>5, <2>6, <2>7
<1> QED BY <1>2, <1>8, <1>9 DEF w

\* An element more adds its value to the sum, and one place of it.
LEMMA AppendedElement ==
  ASSUME NEW m \in Seq(Int), NEW e \in Int
  PROVE  /\ SeqTotal(Append(m, e)) = SeqTotal(m) + e
         /\ \A v : Cardinality(Places(Append(m, e), v)) =
                     Cardinality(Places(m, v)) + (IF e = v THEN 1 ELSE 0)
<1> DEFINE a == Append(m, e)
           k == Len(a)
<1>1. a \in Seq(Int) /\ k \in DOMAIN a /\ a[k] = e
  OBVIOUS
<1>2. Without(a, k) = m
  <2>1. /\ Len(m) \in Nat /\ Len(a) = Len(m) + 1 /\ DOMAIN m = 1..Len(m)
        /\ \A i \in 1..Len(m) : a[i] = m[i]
    OBVIOUS
  <2>2. m = [i \in 1..Len(m) |-> m[i]]
    OBVIOUS
  <2> HIDE DEF a
  <2>3. Without(a, k) = [i \in 1..Len(m) |-> m[i]]
    BY <2>1 DEF Without
  <2> QED BY <2>2, <2>3
<1> HIDE DEF a, k
<1>3. /\ SeqTotal(m) = SeqTotal(a) - e /\ SeqTotal(a) \in Int
      /\ \A v : Cardinality(Places(a, v)) = Cardinality(Places(m, v)) + (IF e = v THEN 1 ELSE 0)
  BY <1>1, <1>2, WithoutElement
<1> QED BY <1>3 DEF a
=============================================================================
