--------------------------- MODULE CountingProofs ---------------------------
(* Lemmas about sums over finite sets, for the proofs about stock figures. *)
EXTENDS Counting, FiniteSetTheorems, TLAPS

\* The units of a finite set of lines are finitely many.
LEMMA UnitsFinite ==
  ASSUME NEW S, IsFiniteSet(S), NEW quantity, \A x \in S : quantity[x] \in Nat
  PROVE  IsFiniteSet(UnitsOn(quantity, S)) /\ TotalOver(quantity, S) \in Nat
<1> DEFINE units == [x \in S |-> {x} \X (1 .. quantity[x])]
           parts == {{x} \X (1 .. quantity[x]) : x \in S}
<1>1. units \in Surjection(S, parts)
  BY DEF Surjection
<1>2. IsFiniteSet(parts)
  BY <1>1, FS_Surjection
<1>3. ASSUME NEW x \in S
      PROVE  IsFiniteSet({x} \X (1 .. quantity[x]))
  <2>1. IsFiniteSet({x})
    BY FS_Singleton
  <2>2. IsFiniteSet(1 .. quantity[x])
    BY FS_Interval
  <2>. QED
    BY <2>1, <2>2, FS_Product
<1>4. IsFiniteSet(UNION parts)
  BY <1>2, <1>3, FS_UNION
<1>. QED
  BY <1>4, FS_CardinalityType DEF UnitsOn, TotalOver

\* Nothing counts nothing.
LEMMA TotalOfNone ==
  ASSUME NEW quantity
  PROVE  TotalOver(quantity, {}) = 0
BY FS_EmptySet DEF TotalOver, UnitsOn

\* A line more counts its quantity more.
LEMMA TotalOfOneMore ==
  ASSUME NEW S, IsFiniteSet(S), NEW quantity, NEW y, y \notin S,
         \A x \in S \cup {y} : quantity[x] \in Nat
  PROVE  TotalOver(quantity, S \cup {y}) = TotalOver(quantity, S) + quantity[y]
<1> DEFINE old == UnitsOn(quantity, S)
           new == {y} \X (1 .. quantity[y])
<1>1. UnitsOn(quantity, S \cup {y}) = old \cup new
  BY DEF UnitsOn
<1>2. old \cap new = {}
  BY DEF UnitsOn
<1>3. IsFiniteSet({y}) /\ Cardinality({y}) = 1
  BY FS_Singleton
<1>4. IsFiniteSet(new) /\ Cardinality(new) = quantity[y]
  <2>1. quantity[y] \in Nat
    OBVIOUS
  <2>2. /\ IsFiniteSet(1 .. quantity[y])
        /\ Cardinality(1 .. quantity[y]) = quantity[y]
    BY <2>1, FS_Interval
  <2>3. /\ IsFiniteSet(new)
        /\ Cardinality(new) = Cardinality({y}) * Cardinality(1 .. quantity[y])
    BY <1>3, <2>2, FS_Product
  <2>. QED
    BY <1>3, <2>1, <2>2, <2>3
<1>5. IsFiniteSet(old) /\ Cardinality(old) \in Nat
  BY UnitsFinite, FS_CardinalityType
<1>6. Cardinality(old \cup new) = Cardinality(old) + Cardinality(new)
                                    - Cardinality(old \cap new)
  BY <1>4, <1>5, FS_Union
<1>7. Cardinality(old \cap new) = 0
  BY <1>2, FS_EmptySet
<1>8. Cardinality(old \cup new) = Cardinality(old) + quantity[y]
  BY <1>4, <1>5, <1>6, <1>7
<1>. QED
  BY <1>1, <1>8 DEF TotalOver

\* A line less counts its quantity less.
LEMMA TotalOfOneLess ==
  ASSUME NEW S, IsFiniteSet(S), NEW quantity, NEW y \in S,
         \A x \in S : quantity[x] \in Nat
  PROVE  /\ TotalOver(quantity, S \ {y}) = TotalOver(quantity, S) - quantity[y]
         /\ TotalOver(quantity, S) >= quantity[y]
<1> DEFINE rest == S \ {y}
<1>1. IsFiniteSet(rest)
  BY FS_RemoveElement
<1>2. S = rest \cup {y} /\ y \notin rest
  OBVIOUS
<1>3. TotalOver(quantity, S) = TotalOver(quantity, rest) + quantity[y]
  <2>1. \A x \in rest \cup {y} : quantity[x] \in Nat
    OBVIOUS
  <2> HIDE DEF rest
  <2>2. TotalOver(quantity, rest \cup {y}) = TotalOver(quantity, rest) + quantity[y]
    BY <1>1, <1>2, <2>1, TotalOfOneMore
  <2>. QED
    BY <1>2, <2>2
<1>4. TotalOver(quantity, S \ {y}) \in Nat /\ quantity[y] \in Nat
  BY <1>1, UnitsFinite
<1>. QED
  BY <1>3, <1>4

\* Fewer lines do not count more.
LEMMA TotalOfFewer ==
  ASSUME NEW S, IsFiniteSet(S), NEW T \in SUBSET S, NEW quantity,
         \A x \in S : quantity[x] \in Nat
  PROVE  TotalOver(quantity, T) <= TotalOver(quantity, S)
<1>1. UnitsOn(quantity, T) \subseteq UnitsOn(quantity, S)
  BY DEF UnitsOn
<1>. QED
  BY <1>1, UnitsFinite, FS_Subset DEF TotalOver

\* Only the quantities of the lines counted matter.
LEMMA TotalOfSame ==
  ASSUME NEW S, NEW quantity, NEW other,
         \A x \in S : quantity[x] = other[x]
  PROVE  TotalOver(quantity, S) = TotalOver(other, S)
<1>1. UnitsOn(quantity, S) = UnitsOn(other, S)
  BY DEF UnitsOn
<1>. QED
  BY <1>1 DEF TotalOver

\* A line whose quantity changes changes the count by as much.
LEMMA TotalOfOneChanged ==
  ASSUME NEW S, IsFiniteSet(S), NEW quantity, NEW other, NEW y \in S,
         \A x \in S : quantity[x] \in Nat /\ other[x] \in Nat,
         \A x \in S \ {y} : other[x] = quantity[x]
  PROVE  TotalOver(other, S) = TotalOver(quantity, S) - quantity[y] + other[y]
<1> DEFINE rest == S \ {y}
<1>1. TotalOver(other, rest) = TotalOver(quantity, rest)
  BY TotalOfSame
<1>2. TotalOver(quantity, rest) = TotalOver(quantity, S) - quantity[y]
  BY TotalOfOneLess
<1>3. TotalOver(other, rest) = TotalOver(other, S) - other[y]
  BY TotalOfOneLess
<1>4. /\ TotalOver(quantity, S) \in Nat /\ TotalOver(other, S) \in Nat
      /\ quantity[y] \in Nat /\ other[y] \in Nat
  BY UnitsFinite
<1>. HIDE DEF rest
<1>. QED
  BY <1>1, <1>2, <1>3, <1>4

-----------------------------------------------------------------------------
(* Induction over finite sets, for a property given as a set of sets.      *)

\* A set of natural numbers has a least one.
LEMMA LeastNatural ==
  ASSUME NEW T, T \subseteq Nat, T # {}
  PROVE  \E m \in T : \A k \in T : m <= k
<1>1. PICK m \in T : \A k \in T : ~(<<k, m>> \in OpToRel(<, Nat))
  BY NatLessThanWellFounded, WFMin
<1>2. ASSUME NEW k \in T PROVE m <= k
  <2>1. m \in Nat /\ k \in Nat
    OBVIOUS
  <2>2. ~(k < m)
    BY <1>1, <2>1 DEF OpToRel
  <2>. QED
    BY <2>1, <2>2
<1>. QED
  BY <1>2

\* What a set inherits from its proper subsets every finite set has.
LEMMA BySmallerSets ==
  ASSUME NEW S, IsFiniteSet(S), NEW P,
         \A T \in SUBSET S : (\A U \in SUBSET T : U # T => U \in P) => T \in P
  PROVE  S \in P
<1> DEFINE failing == {T \in SUBSET S : T \notin P}
           sizes == {Cardinality(T) : T \in failing}
<1>1. SUFFICES ASSUME S \notin P PROVE FALSE
  OBVIOUS
<1>2. \A T \in SUBSET S : IsFiniteSet(T) /\ Cardinality(T) \in Nat
  BY FS_Subset, FS_CardinalityType
<1>3. sizes \subseteq Nat /\ sizes # {}
  BY <1>1, <1>2
<1>4. PICK least \in sizes : \A n \in sizes : least <= n
  BY <1>3, LeastNatural
<1>5. PICK T \in failing : Cardinality(T) = least
  OBVIOUS
<1>6. ASSUME NEW U \in SUBSET T, U # T PROVE U \in P
  <2>1. Cardinality(U) < Cardinality(T)
    BY <1>2, <1>6, FS_Subset
  <2>2. Cardinality(U) \in Nat /\ Cardinality(T) \in Nat
    BY <1>2
  <2>3. Cardinality(U) \notin sizes
    BY <1>4, <1>5, <2>1, <2>2
  <2>. QED
    BY <2>3
<1>. QED
  BY <1>5, <1>6

\* What the empty set has, and a set keeps when it gets a member, every finite
\* set has.
LEMMA ByOneMore ==
  ASSUME NEW S, IsFiniteSet(S), NEW P, {} \in P,
         \A T \in SUBSET S : \A x \in S \ T : T \in P => T \cup {x} \in P
  PROVE  S \in P
<1>1. ASSUME NEW T \in SUBSET S, \A U \in SUBSET T : U # T => U \in P
      PROVE  T \in P
  <2>1. CASE T = {}
    BY <2>1
  <2>2. CASE T # {}
    <3>1. PICK x \in T : TRUE
      BY <2>2
    <3> DEFINE U == T \ {x}
    <3>2. U \in SUBSET S /\ x \in S \ U /\ T = U \cup {x}
      OBVIOUS
    <3>3. U \in P
      BY <1>1
    <3>. HIDE DEF U
    <3>. QED
      BY <3>2, <3>3
  <2>. QED
    BY <2>1, <2>2
<1>. QED
  BY <1>1, BySmallerSets

-----------------------------------------------------------------------------
(* The sum of the community modules, which is a fold.                      *)

\* A sum of natural numbers is the count of the units summed, in whatever order
\* the fold takes them.
LEMMA SumIsTotal ==
  ASSUME NEW f, NEW S, IsFiniteSet(S), \A x \in S : f[x] \in Nat
  PROVE  SumFunctionOnSet(f, S) = TotalOver(f, S)
<1> DEFINE taken(s) == CHOOSE x \in s : TRUE
           Recurs(g) == g = [s \in SUBSET S |->
                               IF s = {} THEN 0
                               ELSE f[taken(s)] + g[s \ {taken(s)}]]
           iter == CHOOSE g : Recurs(g)
           total == [s \in SUBSET S |-> TotalOver(f, s)]
<1>1. SumFunctionOnSet(f, S) = iter[S]
  BY DEF SumFunctionOnSet, FoldFunctionOnSet, MapThenFoldSet
<1>2. ASSUME NEW s \in SUBSET S, s # {}
      PROVE  /\ taken(s) \in s
             /\ TotalOver(f, s) = f[taken(s)] + TotalOver(f, s \ {taken(s)})
  <2>1. taken(s) \in s
    BY <1>2
  <2> HIDE DEF taken
  <2>2. IsFiniteSet(s) /\ \A x \in s : f[x] \in Nat
    BY FS_Subset
  <2>3. TotalOver(f, s \ {taken(s)}) = TotalOver(f, s) - f[taken(s)]
    BY <2>1, <2>2, TotalOfOneLess
  <2>4. TotalOver(f, s) \in Nat /\ f[taken(s)] \in Nat
    BY <2>1, <2>2, UnitsFinite
  <2>. QED
    BY <2>1, <2>3, <2>4
<1>3. Recurs(total)
  <2> HIDE DEF taken
  <2>1. ASSUME NEW s \in SUBSET S
        PROVE  total[s] = IF s = {} THEN 0 ELSE f[taken(s)] + total[s \ {taken(s)}]
    <3>1. s \ {taken(s)} \in SUBSET S
      OBVIOUS
    <3>. QED
      BY <1>2, <3>1, TotalOfNone
  <2>. QED
    BY <2>1
<1>4. Recurs(iter)
  <2> HIDE DEF total
  <2> HIDE DEF Recurs
  <2>. QED
    BY <1>3
<1> DEFINE P == {s \in SUBSET S : iter[s] = TotalOver(f, s)}
<1>5. ASSUME NEW s \in SUBSET S, \A U \in SUBSET s : U # s => U \in P
      PROVE  s \in P
  <2> HIDE DEF iter
  <2>1. CASE s = {}
    BY <1>4, <2>1, TotalOfNone
  <2>2. CASE s # {}
    <3>1. taken(s) \in s
      BY <1>2, <2>2
    <3>2. iter[s] = f[taken(s)] + iter[s \ {taken(s)}]
      BY <1>4, <2>2
    <3> HIDE DEF taken
    <3>3. s \ {taken(s)} \in P
      BY <1>5, <3>1
    <3>. QED
      BY <1>2, <2>2, <3>2, <3>3
  <2>. QED
    BY <2>1, <2>2
<1>6. S \in P
  <2> HIDE DEF P
  <2>. QED
    BY <1>5, BySmallerSets
<1>. QED
  BY <1>1, <1>6

LEMMA SumType ==
  ASSUME NEW f, NEW S, IsFiniteSet(S), \A x \in S : f[x] \in Nat
  PROVE  SumFunctionOnSet(f, S) \in Nat
BY SumIsTotal, UnitsFinite

LEMMA SumOfNone ==
  ASSUME NEW f
  PROVE  SumFunctionOnSet(f, {}) = 0
BY SumIsTotal, TotalOfNone, FS_EmptySet

\* A sum over one member more.
LEMMA SumOfOneMore ==
  ASSUME NEW f, NEW S, IsFiniteSet(S), NEW y, y \notin S,
         \A x \in S \cup {y} : f[x] \in Nat
  PROVE  SumFunctionOnSet(f, S \cup {y}) = SumFunctionOnSet(f, S) + f[y]
<1>1. IsFiniteSet(S \cup {y})
  BY FS_AddElement
<1>2. SumFunctionOnSet(f, S \cup {y}) = TotalOver(f, S \cup {y})
  BY <1>1, SumIsTotal
<1>3. SumFunctionOnSet(f, S) = TotalOver(f, S)
  BY SumIsTotal
<1>4. TotalOver(f, S \cup {y}) = TotalOver(f, S) + f[y]
  BY TotalOfOneMore
<1>. QED
  BY <1>2, <1>3, <1>4

\* A sum is no less than any of its values.
LEMMA SumHasEach ==
  ASSUME NEW S, IsFiniteSet(S), NEW f, \A x \in S : f[x] \in Nat, NEW y \in S
  PROVE  f[y] <= SumFunctionOnSet(f, S)
<1>1. TotalOver(f, S) >= f[y] /\ f[y] \in Nat /\ TotalOver(f, S) \in Nat
  BY TotalOfOneLess, UnitsFinite
<1>2. SumFunctionOnSet(f, S) = TotalOver(f, S)
  BY SumIsTotal
<1>. QED
  BY <1>1, <1>2

\* Only the values summed matter.
LEMMA SumOfSame ==
  ASSUME NEW S, IsFiniteSet(S), NEW f, NEW g,
         \A x \in S : f[x] \in Nat /\ g[x] = f[x]
  PROVE  SumFunctionOnSet(f, S) = SumFunctionOnSet(g, S)
<1>1. \A x \in S : g[x] \in Nat
  OBVIOUS
<1>. QED
  BY <1>1, SumIsTotal, TotalOfSame

\* A sum over fewer members is no greater.
LEMMA SumOfFewer ==
  ASSUME NEW S, IsFiniteSet(S), NEW T \in SUBSET S, NEW f,
         \A x \in S : f[x] \in Nat
  PROVE  SumFunctionOnSet(f, T) <= SumFunctionOnSet(f, S)
<1>1. IsFiniteSet(T) /\ \A x \in T : f[x] \in Nat
  BY FS_Subset
<1>. QED
  BY <1>1, SumIsTotal, TotalOfFewer

\* A sum over two disjoint sets is two sums.
LEMMA SumOfDisjoint ==
  ASSUME NEW S, IsFiniteSet(S), NEW T, IsFiniteSet(T), S \cap T = {}, NEW f,
         \A x \in S \cup T : f[x] \in Nat
  PROVE  SumFunctionOnSet(f, S \cup T) = SumFunctionOnSet(f, S) + SumFunctionOnSet(f, T)
<1>1. IsFiniteSet(S \cup T)
  BY FS_Union
<1>2. /\ UnitsOn(f, S \cup T) = UnitsOn(f, S) \cup UnitsOn(f, T)
      /\ UnitsOn(f, S) \cap UnitsOn(f, T) = {}
  BY DEF UnitsOn
<1>3. /\ IsFiniteSet(UnitsOn(f, S)) /\ TotalOver(f, S) \in Nat
      /\ IsFiniteSet(UnitsOn(f, T)) /\ TotalOver(f, T) \in Nat
  BY UnitsFinite
<1>4. TotalOver(f, S \cup T) = TotalOver(f, S) + TotalOver(f, T) - Cardinality({})
  <2> DEFINE A == UnitsOn(f, S)
             B == UnitsOn(f, T)
  <2>1. IsFiniteSet(A) /\ IsFiniteSet(B) /\ A \cap B = {}
    BY <1>2, <1>3
  <2> HIDE DEF A, B
  <2>2. Cardinality(A \cup B) = Cardinality(A) + Cardinality(B) - Cardinality(A \cap B)
    BY <2>1, FS_Union
  <2>. QED
    BY <1>2, <2>1, <2>2 DEF TotalOver, A, B
<1>5. TotalOver(f, S \cup T) = TotalOver(f, S) + TotalOver(f, T)
  BY <1>3, <1>4, FS_EmptySet
<1>. QED
  BY <1>1, <1>5, SumIsTotal

\* A sum of ones counts.
LEMMA SumOfOnes ==
  ASSUME NEW S, IsFiniteSet(S)
  PROVE  SumFunctionOnSet([x \in S |-> 1], S) = Cardinality(S)
<1> DEFINE one == [x \in S |-> 1]
           P == {T \in SUBSET S : SumFunctionOnSet(one, T) = Cardinality(T)}
<1>1. {} \in P
  BY SumOfNone, FS_EmptySet
<1>2. ASSUME NEW T \in SUBSET S, NEW x \in S \ T, T \in P
      PROVE  T \cup {x} \in P
  <2>1. IsFiniteSet(T) /\ Cardinality(T \cup {x}) = Cardinality(T) + 1
    BY FS_Subset, FS_AddElement
  <2>2. SumFunctionOnSet(one, T \cup {x}) = SumFunctionOnSet(one, T) + one[x]
    <3>1. \A y \in T \cup {x} : one[y] \in Nat
      OBVIOUS
    <3> HIDE DEF one
    <3>. QED
      BY <2>1, <3>1, SumOfOneMore
  <2>. QED
    BY <1>2, <2>1, <2>2
<1> HIDE DEF P
<1>3. S \in P
  BY <1>1, <1>2, ByOneMore
<1>. QED
  BY <1>3 DEF P

\* A sum of values that each add up from two others does too.
LEMMA SumOfSums ==
  ASSUME NEW S, IsFiniteSet(S), NEW f, NEW g, NEW h, NEW a \in Nat, NEW b \in Nat,
         \A x \in S : f[x] \in Nat /\ g[x] \in Nat /\ h[x] = a * f[x] + b * g[x]
  PROVE  SumFunctionOnSet(h, S)
           = a * SumFunctionOnSet(f, S) + b * SumFunctionOnSet(g, S)
<1> DEFINE P == {T \in SUBSET S : SumFunctionOnSet(h, T)
                   = a * SumFunctionOnSet(f, T) + b * SumFunctionOnSet(g, T)}
<1>1. {} \in P
  BY SumOfNone
<1>2. ASSUME NEW T \in SUBSET S, NEW x \in S \ T, T \in P
      PROVE  T \cup {x} \in P
  <2>1. IsFiniteSet(T) /\ \A y \in T \cup {x} : f[y] \in Nat /\ g[y] \in Nat /\ h[y] \in Nat
    BY FS_Subset
  <2>2. /\ SumFunctionOnSet(f, T \cup {x}) = SumFunctionOnSet(f, T) + f[x]
        /\ SumFunctionOnSet(g, T \cup {x}) = SumFunctionOnSet(g, T) + g[x]
        /\ SumFunctionOnSet(h, T \cup {x}) = SumFunctionOnSet(h, T) + h[x]
    BY <2>1, SumOfOneMore
  <2>3. SumFunctionOnSet(f, T) \in Nat /\ SumFunctionOnSet(g, T) \in Nat
    BY <2>1, SumType
  <2>4. \A m, n, k \in Nat : k * (m + n) = k * m + k * n
    OBVIOUS
  <2>5. /\ a * SumFunctionOnSet(f, T \cup {x}) = a * SumFunctionOnSet(f, T) + a * f[x]
        /\ b * SumFunctionOnSet(g, T \cup {x}) = b * SumFunctionOnSet(g, T) + b * g[x]
    BY <2>1, <2>2, <2>3, <2>4
  <2>6. /\ a * SumFunctionOnSet(f, T) \in Nat /\ b * SumFunctionOnSet(g, T) \in Nat
        /\ a * f[x] \in Nat /\ b * g[x] \in Nat
    BY <2>1, <2>3
  <2>7. SumFunctionOnSet(h, T)
          = a * SumFunctionOnSet(f, T) + b * SumFunctionOnSet(g, T)
    BY <1>2
  <2>8. h[x] = a * f[x] + b * g[x]
    OBVIOUS
  <2>9. SumFunctionOnSet(h, T \cup {x}) = a * SumFunctionOnSet(f, T \cup {x})
                                             + b * SumFunctionOnSet(g, T \cup {x})
    <3>1. SumFunctionOnSet(h, T \cup {x})
            = (a * SumFunctionOnSet(f, T) + b * SumFunctionOnSet(g, T))
              + (a * f[x] + b * g[x])
      BY <2>2, <2>7, <2>8
    <3>2. \A k, l, m, n \in Nat : (k + l) + (m + n) = (k + m) + (l + n)
      OBVIOUS
    <3>3. SumFunctionOnSet(h, T \cup {x})
            = (a * SumFunctionOnSet(f, T) + a * f[x])
              + (b * SumFunctionOnSet(g, T) + b * g[x])
      BY <2>6, <3>1, <3>2
    <3>. QED
      BY <2>5, <3>3
  <2>. QED
    BY <2>9
<1> HIDE DEF P
<1>3. S \in P
  BY <1>1, <1>2, ByOneMore
<1>. QED
  BY <1>3 DEF P

\* A sum of values none of which is greater is no greater.
LEMMA SumOfNoMore ==
  ASSUME NEW S, IsFiniteSet(S), NEW f, NEW g,
         \A x \in S : f[x] \in Nat /\ g[x] \in Nat /\ f[x] <= g[x]
  PROVE  SumFunctionOnSet(f, S) <= SumFunctionOnSet(g, S)
<1>1. UnitsOn(f, S) \subseteq UnitsOn(g, S)
  BY DEF UnitsOn
<1>2. TotalOver(f, S) <= TotalOver(g, S)
  BY <1>1, UnitsFinite, FS_Subset DEF TotalOver
<1>. QED
  BY <1>2, SumIsTotal

\* A sum part by part is the sum: every member is in just one part.
LEMMA SumOfParts ==
  ASSUME NEW S, IsFiniteSet(S), NEW f, \A x \in S : f[x] \in Nat,
         NEW G, IsFiniteSet(G), NEW part,
         \A g \in G : part[g] \subseteq S,
         \A x \in S : \E g \in G : x \in part[g],
         \A g, h \in G : g # h => part[g] \cap part[h] = {},
         NEW sums, \A g \in G : sums[g] = SumFunctionOnSet(f, part[g])
  PROVE  SumFunctionOnSet(sums, G) = SumFunctionOnSet(f, S)
<1> DEFINE In(H) == {x \in S : \E g \in H : x \in part[g]}
           P == {H \in SUBSET G : SumFunctionOnSet(sums, H) = SumFunctionOnSet(f, In(H))}
<1>1. {} \in P
  <2>1. In({}) = {}
    OBVIOUS
  <2>. QED
    BY <2>1, SumOfNone
<1>2. \A g \in G : sums[g] \in Nat
  <2>1. ASSUME NEW g \in G PROVE sums[g] \in Nat
    <3>1. IsFiniteSet(part[g]) /\ \A x \in part[g] : f[x] \in Nat
      BY FS_Subset
    <3>. QED
      BY <3>1, SumType
  <2>. QED
    BY <2>1
<1>3. ASSUME NEW H \in SUBSET G, NEW g \in G \ H, H \in P
      PROVE  H \cup {g} \in P
  <2>1. In(H \cup {g}) = In(H) \cup part[g] /\ In(H) \cap part[g] = {}
    OBVIOUS
  <2>2. IsFiniteSet(In(H)) /\ IsFiniteSet(part[g]) /\ IsFiniteSet(H)
    BY FS_Subset
  <2>3. SumFunctionOnSet(f, In(H) \cup part[g])
          = SumFunctionOnSet(f, In(H)) + SumFunctionOnSet(f, part[g])
    <3>1. \A x \in In(H) \cup part[g] : f[x] \in Nat
      OBVIOUS
    <3> HIDE DEF In
    <3>. QED
      BY <2>1, <2>2, <3>1, SumOfDisjoint
  <2>4. SumFunctionOnSet(sums, H \cup {g}) = SumFunctionOnSet(sums, H) + sums[g]
    BY <1>2, <2>2, SumOfOneMore
  <2>5. sums[g] = SumFunctionOnSet(f, part[g])
    OBVIOUS
  <2>6. SumFunctionOnSet(sums, H) = SumFunctionOnSet(f, In(H))
    BY <1>3
  <2> HIDE DEF In
  <2>. QED
    BY <2>1, <2>3, <2>4, <2>5, <2>6
<1>4. G \in P
  <2> HIDE DEF P
  <2>. QED
    BY <1>1, <1>3, ByOneMore
<1>5. In(G) = S
  OBVIOUS
<1> HIDE DEF In
<1>. QED
  BY <1>4, <1>5

\* The sizes of the parts add up to the size of the whole.
LEMMA SizesOfParts ==
  ASSUME NEW S, IsFiniteSet(S), NEW G, IsFiniteSet(G), NEW part,
         \A g \in G : part[g] \subseteq S,
         \A x \in S : \E g \in G : x \in part[g],
         \A g, h \in G : g # h => part[g] \cap part[h] = {},
         NEW sizes, \A g \in G : sizes[g] = Cardinality(part[g])
  PROVE  SumFunctionOnSet(sizes, G) = Cardinality(S)
<1> DEFINE one == [x \in S |-> 1]
<1>1. ASSUME NEW T \in SUBSET S PROVE SumFunctionOnSet(one, T) = Cardinality(T)
  <2>1. IsFiniteSet(T)
    BY FS_Subset
  <2>2. SumFunctionOnSet([x \in T |-> 1], T) = Cardinality(T)
    BY <2>1, SumOfOnes
  <2>3. \A x \in T : [y \in T |-> 1][x] \in Nat /\ one[x] = [y \in T |-> 1][x]
    OBVIOUS
  <2>. QED
    BY <2>1, <2>2, <2>3, SumOfSame
<1>2. \A x \in S : one[x] \in Nat
  OBVIOUS
<1> HIDE DEF one
<1>3. \A g \in G : sizes[g] = SumFunctionOnSet(one, part[g])
  BY <1>1
<1>4. SumFunctionOnSet(sizes, G) = SumFunctionOnSet(one, S)
  BY <1>2, <1>3, SumOfParts
<1>. QED
  BY <1>1, <1>4
=============================================================================
