----------------------------- MODULE FiniteSums -----------------------------
(***************************************************************************)
(* What the sum of a function over a finite set of its arguments is.  The  *)
(* fold that defines it is a recursive function on the subsets of the set; *)
(* what holds of every finite set is proved by looking at a smallest one   *)
(* of which it does not hold.                                              *)
(***************************************************************************)
EXTENDS Integers, Functions, FiniteSetTheorems, WellFoundedInduction, TLAPS

\* What the fold says of the sum g of a set s.
Rule(f, g, s) == IF s = {} THEN 0 ELSE LET x == CHOOSE y \in s : TRUE IN f[x] + g[s \ {x}]

\* g sums f over every set of D.
Sums(f, g, D) == g = [s \in D |-> Rule(f, g, s)]
Fold(f, S) == CHOOSE g : Sums(f, g, SUBSET S)

LEMMA Unfolded ==
    ASSUME NEW f, NEW S
    PROVE  SumFunctionOnSet(f, S) = Fold(f, S)[S]
BY DEF SumFunctionOnSet, FoldFunctionOnSet, MapThenFoldSet, Fold, Sums, Rule

LEMMA LeastNat ==
    ASSUME NEW T \in SUBSET Nat, T # {}
    PROVE  \E n \in T : \A m \in T : n <= m
<1>1. \E n \in T : \A m \in T : <<m, n>> \notin OpToRel(<, Nat)
  BY NatLessThanWellFounded, WFMin
<1>2. PICK n \in T : \A m \in T : <<m, n>> \notin OpToRel(<, Nat)
  BY <1>1
<1>3. OpToRel(<, Nat) = {ss \in Nat \X Nat : ss[1] < ss[2]}
  BY DEF OpToRel
<1>4. ASSUME NEW m \in T PROVE n <= m
  <2>1. m \in Nat /\ n \in Nat
    OBVIOUS
  <2>2. <<m, n>> \in Nat \X Nat /\ <<m, n>>[1] = m /\ <<m, n>>[2] = n
    BY <2>1
  <2>3. ~(m < n)
    BY <1>2, <1>3, <2>2
  <2>4. QED
    BY <2>1, <2>3
<1>5. QED
  BY <1>4

LEMMA SmallestSet ==
    ASSUME NEW C, C # {}, \A s \in C : IsFiniteSet(s)
    PROVE  \E s \in C : \A t \in C : Cardinality(s) <= Cardinality(t)
<1> DEFINE T == {Cardinality(s) : s \in C}
<1>1. T \in SUBSET Nat /\ T # {}
  BY FS_CardinalityType
<1>2. PICK n \in T : \A m \in T : n <= m
  <2> HIDE DEF T
  <2> QED
    BY <1>1, LeastNat
<1>3. QED
  BY <1>2

LEMMA Smaller ==
    ASSUME NEW S, IsFiniteSet(S), NEW x \in S
    PROVE  /\ IsFiniteSet(S \ {x}) /\ Cardinality(S \ {x}) \in Nat
           /\ Cardinality(S) = Cardinality(S \ {x}) + 1
<1>1. /\ IsFiniteSet(S \ {x})
      /\ Cardinality(S \ {x}) = Cardinality(S) - 1
  BY FS_RemoveElement
<1>2. Cardinality(S) \in Nat /\ Cardinality(S \ {x}) \in Nat
  BY <1>1, FS_CardinalityType
<1>3. QED
  BY <1>1, <1>2

\* The sums of the subsets with at most n elements can be written down, for every n.
LEMMA FoldExists ==
    ASSUME NEW f, NEW S, IsFiniteSet(S)
    PROVE  Sums(f, Fold(f, S), SUBSET S)
<1> DEFINE Level(n) == {s \in SUBSET S : Cardinality(s) <= n}
           Bad == {n \in Nat : ~ \E g : Sums(f, g, Level(n))}
<1>1. \A s \in SUBSET S : IsFiniteSet(s) /\ Cardinality(s) \in Nat /\ Cardinality(s) <= Cardinality(S)
  BY FS_Subset, FS_CardinalityType
<1>2. Cardinality(S) \in Nat
  BY FS_CardinalityType
<1>3. Bad = {}
  <2> SUFFICES ASSUME Bad # {} PROVE FALSE
    OBVIOUS
  <2>1. PICK n \in Bad : \A m \in Bad : n <= m
    <3>1. Bad \in SUBSET Nat
      OBVIOUS
    <3> HIDE DEF Bad
    <3> QED
      BY <3>1, LeastNat
  <2>2. n # 0
    <3> SUFFICES ASSUME n = 0 PROVE FALSE
      OBVIOUS
    <3>1. \A s \in Level(0) : s = {}
      BY <1>1, FS_EmptySet
    <3> DEFINE g == [s \in Level(0) |-> 0]
    <3>2. Sums(f, g, Level(0))
      BY <3>1 DEF Sums, Rule
    <3>3. QED
      BY <3>2
  <2>3. n - 1 \in Nat /\ n - 1 \notin Bad
    <3>1. n \in Nat
      OBVIOUS
    <3>2. n - 1 \in Nat /\ ~(n <= n - 1)
      BY <2>2, <3>1
    <3> HIDE DEF Bad
    <3>3. QED
      BY <2>1, <3>2
  <2>4. PICK g : Sums(f, g, Level(n - 1))
    BY <2>3
  <2> DEFINE h == [s \in Level(n) |-> Rule(f, g, s)]
  <2>5. ASSUME NEW s \in Level(n) PROVE h[s] = Rule(f, h, s)
    <3>1. CASE s = {}
      BY <3>1 DEF Rule
    <3>2. CASE s # {}
      <4> DEFINE x == CHOOSE y \in s : TRUE
      <4>1. x \in s
        BY <3>2
      <4> HIDE DEF x
      <4>2. s \ {x} \in Level(n - 1) /\ s \ {x} \in Level(n)
        <5>1. Cardinality(s) = Cardinality(s \ {x}) + 1 /\ Cardinality(s \ {x}) \in Nat
          BY <1>1, <4>1, Smaller
        <5>2. Cardinality(s) <= n /\ n \in Nat
          BY <2>1
        <5>3. Cardinality(s \ {x}) <= n - 1 /\ Cardinality(s \ {x}) <= n
          BY <5>1, <5>2
        <5>4. QED
          BY <5>3
      <4>3. g[s \ {x}] = Rule(f, g, s \ {x})
        BY <2>4, <4>2 DEF Sums
      <4>4. h[s \ {x}] = g[s \ {x}]
        BY <4>2, <4>3
      <4>5. QED
        BY <3>2, <4>4 DEF Rule, x
    <3>3. QED
      BY <3>1, <3>2
  <2>6. Sums(f, h, Level(n))
    <3>1. [s \in Level(n) |-> Rule(f, h, s)] = h
      BY <2>5
    <3> QED
      BY <3>1 DEF Sums
  <2>7. QED
    BY <2>1, <2>6
<1>4. PICK g : Sums(f, g, Level(Cardinality(S)))
  BY <1>2, <1>3
<1>5. Level(Cardinality(S)) = SUBSET S
  BY <1>1
<1>6. Sums(f, g, SUBSET S)
  BY <1>4, <1>5
<1>7. QED
  BY <1>6 DEF Fold

\* The sum of a set does not depend on the set it is seen as a subset of.
LEMMA FoldIsLocal ==
    ASSUME NEW f, NEW S, IsFiniteSet(S), NEW T \in SUBSET S
    PROVE  Fold(f, S)[T] = SumFunctionOnSet(f, T)
<1> DEFINE g == Fold(f, S)
           h == Fold(f, T)
           Bad == {s \in SUBSET T : g[s] # h[s]}
<1>1. IsFiniteSet(T) /\ \A s \in SUBSET T : IsFiniteSet(s)
  BY FS_Subset
<1>2. Sums(f, g, SUBSET S) /\ Sums(f, h, SUBSET T)
  BY <1>1, FoldExists
<1> HIDE DEF g, h
<1>3. \A s \in SUBSET T : g[s] = Rule(f, g, s) /\ h[s] = Rule(f, h, s)
  BY <1>2 DEF Sums
<1>4. Bad = {}
  <2> SUFFICES ASSUME Bad # {} PROVE FALSE
    OBVIOUS
  <2>1. PICK s \in Bad : \A t \in Bad : Cardinality(s) <= Cardinality(t)
    <3>1. \A t \in Bad : IsFiniteSet(t)
      BY <1>1
    <3> HIDE DEF Bad
    <3> QED
      BY <3>1, SmallestSet
  <2>2. s \in SUBSET T /\ IsFiniteSet(s)
    BY <1>1
  <2>3. CASE s = {}
    BY <1>3, <2>3 DEF Rule
  <2>4. CASE s # {}
    <3> DEFINE x == CHOOSE y \in s : TRUE
    <3>1. x \in s
      BY <2>4
    <3> HIDE DEF x
    <3>2. Cardinality(s) = Cardinality(s \ {x}) + 1 /\ Cardinality(s \ {x}) \in Nat
      BY <2>2, <3>1, Smaller
    <3>3. s \ {x} \in SUBSET T /\ s \ {x} \notin Bad
      <4>1. s \ {x} \in SUBSET T
        BY <2>2
      <4>2. ~(Cardinality(s) <= Cardinality(s \ {x}))
        BY <3>2
      <4> HIDE DEF Bad
      <4>3. QED
        BY <2>1, <4>1, <4>2
    <3>4. g[s \ {x}] = h[s \ {x}]
      BY <3>3
    <3>5. Rule(f, g, s) = Rule(f, h, s)
      BY <2>4, <3>4 DEF Rule, x
    <3>6. QED
      BY <1>3, <2>2, <3>5
  <2>5. QED
    BY <2>3, <2>4
<1>5. g[T] = h[T]
  BY <1>4
<1>6. QED
  BY <1>5, Unfolded DEF g, h

LEMMA SumOfNone == ASSUME NEW f PROVE SumFunctionOnSet(f, {}) = 0
<1>1. Sums(f, Fold(f, {}), SUBSET {})
  BY FoldExists, FS_EmptySet
<1>2. QED
  BY <1>1, Unfolded DEF Sums, Rule

LEMMA SumStep ==
    ASSUME NEW f, NEW S, IsFiniteSet(S), S # {}
    PROVE  \E x \in S : SumFunctionOnSet(f, S) = f[x] + SumFunctionOnSet(f, S \ {x})
<1> DEFINE x == CHOOSE y \in S : TRUE
<1>1. x \in S
  OBVIOUS
<1>2. Fold(f, S)[S] = Rule(f, Fold(f, S), S)
  <2>1. Sums(f, Fold(f, S), SUBSET S) /\ S \in SUBSET S
    BY FoldExists
  <2>2. QED
    BY <2>1 DEF Sums
<1>3. Fold(f, S)[S] = f[x] + Fold(f, S)[S \ {x}]
  BY <1>2 DEF Rule
<1> HIDE DEF x
<1>4. QED
  BY <1>1, <1>3, Unfolded, FoldIsLocal

LEMMA SumIsNat ==
    ASSUME NEW f, NEW S, IsFiniteSet(S), \A x \in S : f[x] \in Nat
    PROVE  SumFunctionOnSet(f, S) \in Nat
<1> DEFINE Bad == {s \in SUBSET S : SumFunctionOnSet(f, s) \notin Nat}
<1>1. \A s \in SUBSET S : IsFiniteSet(s)
  BY FS_Subset
<1>2. Bad = {}
  <2> SUFFICES ASSUME Bad # {} PROVE FALSE
    OBVIOUS
  <2>1. PICK s \in Bad : \A t \in Bad : Cardinality(s) <= Cardinality(t)
    <3>1. \A t \in Bad : IsFiniteSet(t)
      BY <1>1
    <3> HIDE DEF Bad
    <3> QED
      BY <3>1, SmallestSet
  <2>2. s # {}
    BY SumOfNone
  <2>3. PICK x \in s : SumFunctionOnSet(f, s) = f[x] + SumFunctionOnSet(f, s \ {x})
    BY <1>1, <2>2, SumStep
  <2>4. Cardinality(s) = Cardinality(s \ {x}) + 1 /\ Cardinality(s \ {x}) \in Nat
    BY <1>1, Smaller
  <2>5. s \ {x} \notin Bad
    BY <2>1, <2>4
  <2>6. QED
    BY <2>3, <2>5
<1>3. QED
  BY <1>2

\* Any element can be taken out of a sum.
LEMMA SumWithout ==
    ASSUME NEW f, NEW S, IsFiniteSet(S), \A x \in S : f[x] \in Nat, NEW a \in S
    PROVE  SumFunctionOnSet(f, S) = f[a] + SumFunctionOnSet(f, S \ {a})
<1> DEFINE Good(s) == \A x \in s : SumFunctionOnSet(f, s) = f[x] + SumFunctionOnSet(f, s \ {x})
           Bad == {s \in SUBSET S : ~Good(s)}
<1>1. \A s \in SUBSET S : IsFiniteSet(s) /\ SumFunctionOnSet(f, s) \in Nat
  BY FS_Subset, SumIsNat
<1>2. Bad = {}
  <2> SUFFICES ASSUME Bad # {} PROVE FALSE
    OBVIOUS
  <2>1. PICK s \in Bad : \A t \in Bad : Cardinality(s) <= Cardinality(t)
    <3>1. \A t \in Bad : IsFiniteSet(t)
      BY <1>1
    <3> HIDE DEF Bad
    <3> QED
      BY <3>1, SmallestSet
  <2>2. PICK y \in s : SumFunctionOnSet(f, s) # f[y] + SumFunctionOnSet(f, s \ {y})
    BY <2>1
  <2>3. PICK x \in s : SumFunctionOnSet(f, s) = f[x] + SumFunctionOnSet(f, s \ {x})
    BY <1>1, <2>2, SumStep
  <2>4. \A z \in s : Cardinality(s) = Cardinality(s \ {z}) + 1 /\ Cardinality(s \ {z}) \in Nat
    BY <1>1, Smaller
  <2>5. Good(s \ {x}) /\ Good(s \ {y})
    BY <2>1, <2>2, <2>3, <2>4
  <2>6. y # x /\ y \in s \ {x} /\ x \in s \ {y} /\ (s \ {x}) \ {y} = (s \ {y}) \ {x}
    BY <2>2, <2>3
  <2>7. /\ SumFunctionOnSet(f, s \ {x}) = f[y] + SumFunctionOnSet(f, (s \ {x}) \ {y})
        /\ SumFunctionOnSet(f, s \ {y}) = f[x] + SumFunctionOnSet(f, (s \ {x}) \ {y})
    BY <2>5, <2>6
  <2>8. /\ f[x] \in Nat /\ f[y] \in Nat /\ SumFunctionOnSet(f, (s \ {x}) \ {y}) \in Nat
    BY <1>1
  <2>9. QED
    BY <2>2, <2>3, <2>7, <2>8
<1>3. Good(S)
  BY <1>2
<1>4. QED
  BY <1>3

LEMMA SumWith ==
    ASSUME NEW f, NEW S, IsFiniteSet(S), \A x \in S : f[x] \in Nat, NEW a, a \notin S, f[a] \in Nat
    PROVE  SumFunctionOnSet(f, S \cup {a}) = f[a] + SumFunctionOnSet(f, S)
<1>1. IsFiniteSet(S \cup {a}) /\ (S \cup {a}) \ {a} = S
  BY FS_AddElement
<1>2. QED
  BY <1>1, SumWithout

LEMMA SumIsSame ==
    ASSUME NEW f, NEW g, NEW S, IsFiniteSet(S), \A x \in S : f[x] = g[x]
    PROVE  SumFunctionOnSet(f, S) = SumFunctionOnSet(g, S)
<1> DEFINE Bad == {s \in SUBSET S : SumFunctionOnSet(f, s) # SumFunctionOnSet(g, s)}
<1>1. \A s \in SUBSET S : IsFiniteSet(s)
  BY FS_Subset
<1>2. Bad = {}
  <2> SUFFICES ASSUME Bad # {} PROVE FALSE
    OBVIOUS
  <2>1. PICK s \in Bad : \A t \in Bad : Cardinality(s) <= Cardinality(t)
    <3>1. \A t \in Bad : IsFiniteSet(t)
      BY <1>1
    <3> HIDE DEF Bad
    <3> QED
      BY <3>1, SmallestSet
  <2>2. s # {}
    BY SumOfNone
  <2> DEFINE x == CHOOSE y \in s : TRUE
  <2>3. x \in s
    BY <2>2
  <2>4. /\ SumFunctionOnSet(f, s) = f[x] + SumFunctionOnSet(f, s \ {x})
        /\ SumFunctionOnSet(g, s) = g[x] + SumFunctionOnSet(g, s \ {x})
    <3>1. \A h : SumFunctionOnSet(h, s) = h[x] + SumFunctionOnSet(h, s \ {x})
      <4> SUFFICES ASSUME NEW h PROVE SumFunctionOnSet(h, s) = h[x] + SumFunctionOnSet(h, s \ {x})
        OBVIOUS
      <4>1. Fold(h, s)[s] = Rule(h, Fold(h, s), s)
        <5>1. Sums(h, Fold(h, s), SUBSET s) /\ s \in SUBSET s
          BY <1>1, FoldExists
        <5>2. QED
          BY <5>1 DEF Sums
      <4>2. Fold(h, s)[s] = h[x] + Fold(h, s)[s \ {x}]
        BY <2>2, <4>1 DEF Rule
      <4> HIDE DEF x
      <4>3. QED
        BY <1>1, <4>2, Unfolded, FoldIsLocal
    <3>2. QED
      BY <3>1
  <2> HIDE DEF x
  <2>5. Cardinality(s) = Cardinality(s \ {x}) + 1 /\ Cardinality(s \ {x}) \in Nat
    BY <1>1, <2>3, Smaller
  <2>6. s \ {x} \notin Bad
    BY <2>1, <2>5
  <2>7. QED
    BY <2>1, <2>3, <2>4, <2>6
<1>3. QED
  BY <1>2

LEMMA SumOfFewer ==
    ASSUME NEW f, NEW S, IsFiniteSet(S), \A x \in S : f[x] \in Nat, NEW T \in SUBSET S
    PROVE  SumFunctionOnSet(f, T) <= SumFunctionOnSet(f, S)
<1> DEFINE Bad == {s \in SUBSET S : T \subseteq s /\ ~(SumFunctionOnSet(f, T) <= SumFunctionOnSet(f, s))}
<1>1. \A s \in SUBSET S : IsFiniteSet(s) /\ SumFunctionOnSet(f, s) \in Nat
  BY FS_Subset, SumIsNat
<1>2. Bad = {}
  <2> SUFFICES ASSUME Bad # {} PROVE FALSE
    OBVIOUS
  <2>1. PICK s \in Bad : \A t \in Bad : Cardinality(s) <= Cardinality(t)
    <3>1. \A t \in Bad : IsFiniteSet(t)
      BY <1>1
    <3> HIDE DEF Bad
    <3> QED
      BY <3>1, SmallestSet
  <2>2. s # T
    BY <1>1
  <2>3. PICK x \in s : x \notin T
    BY <2>2
  <2>4. SumFunctionOnSet(f, s) = f[x] + SumFunctionOnSet(f, s \ {x})
    BY <1>1, SumWithout
  <2>5. Cardinality(s) = Cardinality(s \ {x}) + 1 /\ Cardinality(s \ {x}) \in Nat
    BY <1>1, Smaller
  <2>6. s \ {x} \notin Bad /\ s \ {x} \in SUBSET S /\ T \subseteq s \ {x}
    BY <2>1, <2>3, <2>5
  <2>7. /\ SumFunctionOnSet(f, T) \in Nat /\ SumFunctionOnSet(f, s) \in Nat
        /\ SumFunctionOnSet(f, s \ {x}) \in Nat /\ f[x] \in Nat
    BY <1>1, <2>6
  <2>8. QED
    BY <2>1, <2>4, <2>6, <2>7
<1>3. QED
  BY <1>2

LEMMA SumOfZeros ==
    ASSUME NEW f, NEW S, IsFiniteSet(S), \A x \in S : f[x] = 0
    PROVE  SumFunctionOnSet(f, S) = 0
<1> DEFINE Bad == {s \in SUBSET S : SumFunctionOnSet(f, s) # 0}
<1>1. \A s \in SUBSET S : IsFiniteSet(s)
  BY FS_Subset
<1>2. Bad = {}
  <2> SUFFICES ASSUME Bad # {} PROVE FALSE
    OBVIOUS
  <2>1. PICK s \in Bad : \A t \in Bad : Cardinality(s) <= Cardinality(t)
    <3>1. \A t \in Bad : IsFiniteSet(t)
      BY <1>1
    <3> HIDE DEF Bad
    <3> QED
      BY <3>1, SmallestSet
  <2>2. IsFiniteSet(s) /\ s # {}
    BY <1>1, <2>1, SumOfNone
  <2>3. PICK x \in s : SumFunctionOnSet(f, s) = f[x] + SumFunctionOnSet(f, s \ {x})
    BY <2>2, SumStep
  <2>4. Cardinality(s) = Cardinality(s \ {x}) + 1 /\ Cardinality(s \ {x}) \in Nat
    BY <2>2, Smaller
  <2>5. s \ {x} \notin Bad /\ s \ {x} \in SUBSET S
    BY <2>1, <2>4
  <2>6. SumFunctionOnSet(f, s \ {x}) = 0 /\ f[x] = 0
    BY <2>5
  <2>7. QED
    BY <2>1, <2>3, <2>6
<1>3. QED
  BY <1>2

LEMMA SumIsPositive ==
    ASSUME NEW f, NEW S, IsFiniteSet(S), \A x \in S : f[x] \in Nat
    PROVE  SumFunctionOnSet(f, S) > 0 <=> \E x \in S : f[x] > 0
<1>1. ASSUME NEW x \in S, f[x] > 0
      PROVE  SumFunctionOnSet(f, S) > 0
  <2>1. SumFunctionOnSet(f, S) = f[x] + SumFunctionOnSet(f, S \ {x})
    BY SumWithout
  <2>2. IsFiniteSet(S \ {x}) /\ \A y \in S \ {x} : f[y] \in Nat
    BY Smaller
  <2>3. SumFunctionOnSet(f, S \ {x}) \in Nat
    BY <2>2, SumIsNat
  <2>4. QED
    BY <1>1, <2>1, <2>3
<1>2. ASSUME \A x \in S : ~(f[x] > 0)
      PROVE  ~(SumFunctionOnSet(f, S) > 0)
  <2>1. \A x \in S : f[x] = 0
    BY <1>2
  <2>2. SumFunctionOnSet(f, S) = 0
    BY <2>1, SumOfZeros
  <2>3. QED
    BY <2>2
<1>3. QED
  BY <1>1, <1>2

LEMMA SumOfOne ==
    ASSUME NEW f, NEW S, IsFiniteSet(S), \A x \in S : f[x] \in Nat /\ f[x] <= 1,
           \A x, y \in S : f[x] > 0 /\ f[y] > 0 => x = y
    PROVE  SumFunctionOnSet(f, S) \in Nat /\ SumFunctionOnSet(f, S) <= 1
<1>1. SumFunctionOnSet(f, S) \in Nat
  BY SumIsNat
<1>2. CASE \E x \in S : f[x] > 0
  <2>1. PICK x \in S : f[x] > 0
    BY <1>2
  <2>2. SumFunctionOnSet(f, S) = f[x] + SumFunctionOnSet(f, S \ {x})
    BY SumWithout
  <2>3. IsFiniteSet(S \ {x}) /\ \A y \in S \ {x} : f[y] = 0
    BY <2>1, Smaller
  <2>4. SumFunctionOnSet(f, S \ {x}) = 0
    BY <2>3, SumOfZeros
  <2>5. QED
    BY <1>1, <2>2, <2>4
<1>3. CASE \A x \in S : ~(f[x] > 0)
  BY <1>1, <1>3, SumIsPositive
<1>4. QED
  BY <1>2, <1>3
=============================================================================
