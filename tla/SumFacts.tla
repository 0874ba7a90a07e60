------------------------------ MODULE SumFacts ------------------------------
(****************************************************************************)
(* What a sum over a finite set is: SumFunctionOnSet of the community       *)
(* module Functions, which the models add bytes and drops up with.          *)
(*                                                                          *)
(* It is a recursive function over the subsets of the set, an element at a  *)
(* time, each chosen.  That there is such a function, and that two of them  *)
(* agree, is shown by taking a least counterexample: the rule of induction  *)
(* has an operator as parameter, and its first-order form, that each set of *)
(* numbers has a least one (WFMin), serves instead.                         *)
(****************************************************************************)
EXTENDS Integers, FiniteSets, Functions, FiniteSetTheorems, WellFoundedInduction, TLAPS

\* The element that is added first.
Chosen(s) == CHOOSE x \in s : TRUE

\* The sum over s, if a has the sums over its subsets.
Added(f, a, s) == IF s = {} THEN 0 ELSE f[Chosen(s)] + a[s \ {Chosen(s)}]

\* g adds up f over the subsets of S that have at most n elements.
AddsUp(g, f, S, n) ==
  \A s \in SUBSET S :
    Cardinality(s) <= n =>
      g[s] = Added(f, g, s)

\* A set of numbers has a least one.
LEMMA LeastNat ==
  ASSUME NEW B \in SUBSET Nat, B # {}
  PROVE  \E n \in B : \A m \in B : n <= m
<1>1. PICK n \in B : \A m \in B : ~(<<m, n>> \in OpToRel(<, Nat))
  BY NatLessThanWellFounded, WFMin, Zenon
<1>2. ASSUME NEW m \in B PROVE n <= m
  <2>1. ~(<<m, n>> \in {ss \in Nat \X Nat : ss[1] < ss[2]})
    BY <1>1, Zenon DEF OpToRel
  <2> QED
    BY <2>1
<1> QED
  BY <1>2

\* The element chosen is of the set.
LEMMA ChosenIn == ASSUME NEW s, s # {} PROVE Chosen(s) \in s
BY Zenon DEF Chosen

\* Without it the set has one element less.
LEMMA Shrinks ==
  ASSUME NEW s, IsFiniteSet(s), s # {}
  PROVE  /\ IsFiniteSet(s \ {Chosen(s)})
         /\ Cardinality(s) \in Nat \ {0}
         /\ Cardinality(s \ {Chosen(s)}) = Cardinality(s) - 1
BY ChosenIn, FS_RemoveElement, FS_CardinalityType, FS_EmptySet

\* What adds up small sets can be continued to sets with an element more.
LEMMA AdderStep ==
  ASSUME NEW f, NEW S, IsFiniteSet(S), NEW n \in Nat,
         \E g : AddsUp(g, f, S, n)
  PROVE  \E g : AddsUp(g, f, S, n + 1)
<1>1. PICK g : AddsUp(g, f, S, n)
  OBVIOUS
<1> DEFINE v(s) == Added(f, g, s)
           h == [s \in SUBSET S |-> IF Cardinality(s) <= n THEN g[s] ELSE v(s)]
<1>2. ASSUME NEW s \in SUBSET S, Cardinality(s) <= n + 1
      PROVE  h[s] = Added(f, h, s)
  <2>1. h[s] = v(s)
    BY <1>1 DEF AddsUp
  <2>2. CASE s = {}
    BY <2>1, <2>2 DEF Added
  <2>3. CASE s # {}
    <3>1. IsFiniteSet(s)
      BY FS_Subset
    <3>2. /\ Cardinality(s \ {Chosen(s)}) <= n
          /\ s \ {Chosen(s)} \in SUBSET S
      <4>1. /\ Cardinality(s) \in Nat
            /\ Cardinality(s \ {Chosen(s)}) = Cardinality(s) - 1
        BY <2>3, <3>1, Shrinks
      <4> QED
        BY <1>2, <4>1
    <3>3. h[s \ {Chosen(s)}] = g[s \ {Chosen(s)}]
      BY <3>2
    <3> QED
      BY <2>1, <2>3, <3>3 DEF Added
  <2> QED
    BY <2>2, <2>3
<1>3. AddsUp(h, f, S, n + 1)
  BY <1>2 DEF AddsUp
<1> QED
  BY <1>3

\* So there is a function that adds up sets of any size.
LEMMA AdderExists ==
  ASSUME NEW f, NEW S, IsFiniteSet(S)
  PROVE  \A n \in Nat : \E g : AddsUp(g, f, S, n)
<1> DEFINE B == {n \in Nat : ~(\E g : AddsUp(g, f, S, n))}
<1> SUFFICES ASSUME B # {} PROVE FALSE
  OBVIOUS
<1>1. PICK n \in B : \A m \in B : n <= m
  BY LeastNat, Zenon
<1>2. \E g : AddsUp(g, f, S, 0)
  <2>1. AddsUp([s \in {{}} |-> 0], f, S, 0)
    <3> SUFFICES ASSUME NEW s \in SUBSET S, Cardinality(s) <= 0
                 PROVE  s = {}
      BY DEF AddsUp, Added
    <3> QED
      BY FS_Subset, FS_CardinalityType, FS_EmptySet
  <2> QED
    BY <2>1
<1>3. n # 0 /\ n \in Nat
  BY <1>2
<1>4. n - 1 \in Nat /\ n - 1 \notin B /\ (n - 1) + 1 = n
  BY <1>1, <1>3
<1>5. \E g : AddsUp(g, f, S, n - 1)
  BY <1>4
<1>6. \E g : AddsUp(g, f, S, (n - 1) + 1)
  BY <1>4, <1>5, AdderStep
<1> QED
  BY <1>4, <1>6

\* The library's definition.
Adder(f, S) ==
  CHOOSE g : g = [s \in SUBSET S |-> Added(f, g, s)]

\* The sum, by its definition in the library.
LEMMA SumDefinition ==
  ASSUME NEW f, NEW S
  PROVE  SumFunctionOnSet(f, S) = Adder(f, S)[S]
BY Zenon DEF SumFunctionOnSet, FoldFunctionOnSet, MapThenFoldSet, Adder, Added, Chosen

\* For a finite set, there is such a function.
LEMMA AdderAt ==
  ASSUME NEW f, NEW S, IsFiniteSet(S)
  PROVE  \A s \in SUBSET S :
           Adder(f, S)[s] = Added(f, Adder(f, S), s)
<1>1. Cardinality(S) \in Nat
  BY FS_CardinalityType
<1>2. PICK g : AddsUp(g, f, S, Cardinality(S))
  BY <1>1, AdderExists
<1> DEFINE h == [s \in SUBSET S |-> g[s]]
<1>3. ASSUME NEW s \in SUBSET S
      PROVE  h[s] = Added(f, h, s)
  <2>1. Cardinality(s) <= Cardinality(S)
    BY FS_Subset
  <2>2. s \ {Chosen(s)} \in SUBSET S
    OBVIOUS
  <2> QED
    BY <1>2, <2>1, <2>2 DEF AddsUp, Added
<1>4. h = [s \in SUBSET S |-> Added(f, h, s)]
  BY <1>3
<1> HIDE DEF h
<1> DEFINE a == Adder(f, S)
<1>5. a = [s \in SUBSET S |-> Added(f, a, s)]
  BY <1>4, Zenon DEF Adder
<1> HIDE DEF a
<1>6. \A s \in SUBSET S : a[s] = Added(f, a, s)
  BY <1>5
<1> QED
  BY <1>6 DEF a

\* Every set of subsets of a finite set has one with the fewest elements.
LEMMA Fewest ==
  ASSUME NEW S, IsFiniteSet(S), NEW B \in SUBSET SUBSET S, B # {}
  PROVE  \E s \in B : \A t \in B : Cardinality(s) <= Cardinality(t)
<1>1. \A s \in B : Cardinality(s) \in Nat
  BY FS_Subset, FS_CardinalityType
<1>2. {Cardinality(s) : s \in B} \in SUBSET Nat /\ {Cardinality(s) : s \in B} # {}
  BY <1>1
<1>3. PICK n \in {Cardinality(s) : s \in B} : \A m \in {Cardinality(s) : s \in B} : n <= m
  BY <1>2, LeastNat, Zenon
<1> QED
  BY <1>3

\* On what two sets have in common, where the summands agree, so do the sums.
LEMMA AddersAgree ==
  ASSUME NEW f, NEW g, NEW S, NEW T, IsFiniteSet(S), IsFiniteSet(T),
         \A x \in S \cap T : f[x] = g[x]
  PROVE  \A s \in SUBSET (S \cap T) : Adder(f, S)[s] = Adder(g, T)[s]
<1> DEFINE B == {s \in SUBSET (S \cap T) : Adder(f, S)[s] # Adder(g, T)[s]}
<1> SUFFICES ASSUME B # {} PROVE FALSE
  OBVIOUS
<1>1. IsFiniteSet(S \cap T)
  BY FS_Intersection
<1>2. PICK s \in B : \A t \in B : Cardinality(s) <= Cardinality(t)
  BY <1>1, Fewest, Zenon
<1>3. /\ Adder(f, S)[s] = Added(f, Adder(f, S), s)
      /\ Adder(g, T)[s] = Added(g, Adder(g, T), s)
  <2>1. \A u \in SUBSET S :
          Adder(f, S)[u] = Added(f, Adder(f, S), u)
    BY AdderAt, Zenon
  <2>2. \A u \in SUBSET T :
          Adder(g, T)[u] = Added(g, Adder(g, T), u)
    BY AdderAt, Zenon
  <2> QED
    BY <2>1, <2>2
<1>4. s # {}
  BY <1>2, <1>3 DEF Added
<1>5. IsFiniteSet(s) /\ Chosen(s) \in s
  BY <1>1, <1>4, FS_Subset, ChosenIn
<1>6. Cardinality(s) \in Nat /\ Cardinality(s \ {Chosen(s)}) = Cardinality(s) - 1
  BY <1>4, <1>5, Shrinks
<1>7. s \ {Chosen(s)} \notin B
  BY <1>2, <1>6
<1> QED
  BY <1>3, <1>4, <1>5, <1>7 DEF Added

-----------------------------------------------------------------------------
\* Nothing adds up to 0.
LEMMA SumEmpty == \A f : SumFunctionOnSet(f, {}) = 0
<1> SUFFICES ASSUME NEW f PROVE SumFunctionOnSet(f, {}) = 0
  OBVIOUS
<1>1. Adder(f, {})[{}] = 0
  BY FS_EmptySet, AdderAt DEF Added
<1> QED
  BY <1>1, SumDefinition

\* A sum is one summand, the chosen one, and the sum of the rest.
LEMMA SumChosen ==
  ASSUME NEW f, NEW S, IsFiniteSet(S), S # {}
  PROVE  SumFunctionOnSet(f, S) = f[Chosen(S)] + SumFunctionOnSet(f, S \ {Chosen(S)})
<1> DEFINE T == S \ {Chosen(S)}
<1>1. IsFiniteSet(T)
  BY Shrinks
<1>2. Adder(f, S)[S] = f[Chosen(S)] + Adder(f, S)[T]
  BY AdderAt DEF Added
<1>3. Adder(f, S)[T] = Adder(f, T)[T]
  BY <1>1, AddersAgree
<1> QED
  BY <1>2, <1>3, SumDefinition

\* A sum looks at its function only.
LEMMA SumAgrees ==
  ASSUME NEW f, NEW g, NEW S, IsFiniteSet(S), \A x \in S : f[x] = g[x]
  PROVE  SumFunctionOnSet(f, S) = SumFunctionOnSet(g, S)
BY AddersAgree, SumDefinition

\* A sum of integers is one.
LEMMA SumInt ==
  ASSUME NEW f, NEW S, IsFiniteSet(S), \A x \in S : f[x] \in Int
  PROVE  SumFunctionOnSet(f, S) \in Int
<1> DEFINE B == {s \in SUBSET S : SumFunctionOnSet(f, s) \notin Int}
<1> SUFFICES ASSUME B # {} PROVE FALSE
  OBVIOUS
<1>1. PICK s \in B : \A t \in B : Cardinality(s) <= Cardinality(t)
  BY Fewest, Zenon
<1>2. s # {}
  BY SumEmpty
<1>3. IsFiniteSet(s) /\ Chosen(s) \in s
  BY <1>2, FS_Subset, ChosenIn
<1>4. Cardinality(s) \in Nat /\ Cardinality(s \ {Chosen(s)}) = Cardinality(s) - 1
  BY <1>2, <1>3, Shrinks
<1>5. s \ {Chosen(s)} \notin B
  BY <1>1, <1>4
<1>6. SumFunctionOnSet(f, s) = f[Chosen(s)] + SumFunctionOnSet(f, s \ {Chosen(s)})
  BY <1>2, <1>3, SumChosen
<1> QED
  BY <1>3, <1>5, <1>6

\* The order in which it adds makes no difference.
LEMMA SumWithout ==
  ASSUME NEW f, NEW S, IsFiniteSet(S), \A x \in S : f[x] \in Int
  PROVE  \A x \in S : SumFunctionOnSet(f, S) = f[x] + SumFunctionOnSet(f, S \ {x})
<1> DEFINE B == {s \in SUBSET S :
                   \E x \in s : SumFunctionOnSet(f, s) # f[x] + SumFunctionOnSet(f, s \ {x})}
<1> SUFFICES ASSUME B # {} PROVE FALSE
  OBVIOUS
<1>1. PICK s \in B : \A t \in B : Cardinality(s) <= Cardinality(t)
  BY Fewest, Zenon
<1>2. PICK x \in s : SumFunctionOnSet(f, s) # f[x] + SumFunctionOnSet(f, s \ {x})
  OBVIOUS
<1>3. IsFiniteSet(s) /\ s # {}
  BY <1>2, FS_Subset
<1> DEFINE c == Chosen(s)
<1>4. c \in s /\ SumFunctionOnSet(f, s) = f[c] + SumFunctionOnSet(f, s \ {c})
  BY <1>3, SumChosen, ChosenIn
<1>5. \A y \in s : IsFiniteSet(s \ {y}) /\ Cardinality(s \ {y}) = Cardinality(s) - 1
  BY <1>3, FS_RemoveElement
<1>6. \A y \in s : s \ {y} \in SUBSET S /\ s \ {y} \notin B
  <2> SUFFICES ASSUME NEW y \in s PROVE s \ {y} \in SUBSET S /\ s \ {y} \notin B
    OBVIOUS
  <2>1. Cardinality(s) \in Nat
    BY <1>3, FS_CardinalityType
  <2>2. ~(Cardinality(s) <= Cardinality(s \ {y}))
    <3>1. Cardinality(s \ {y}) = Cardinality(s) - 1
      BY <1>5
    <3> QED
      BY <2>1, <3>1
  <2> QED
    BY <1>1, <2>2
<1> HIDE DEF c
<1>7. x # c
  BY <1>2, <1>4
<1>8. SumFunctionOnSet(f, s \ {c}) = f[x] + SumFunctionOnSet(f, (s \ {c}) \ {x})
  BY <1>4, <1>6, <1>7
<1>9. SumFunctionOnSet(f, s \ {x}) = f[c] + SumFunctionOnSet(f, (s \ {x}) \ {c})
  BY <1>4, <1>6, <1>7
<1>10. (s \ {x}) \ {c} = (s \ {c}) \ {x} /\ IsFiniteSet((s \ {x}) \ {c})
  BY <1>5, <1>7, FS_RemoveElement
<1>11. SumFunctionOnSet(f, (s \ {x}) \ {c}) \in Int /\ f[x] \in Int /\ f[c] \in Int
  BY <1>4, <1>10, SumInt
<1> DEFINE r == SumFunctionOnSet(f, (s \ {c}) \ {x})
<1>12. /\ SumFunctionOnSet(f, s) = f[c] + (f[x] + r)
       /\ SumFunctionOnSet(f, s \ {x}) = f[c] + r
       /\ r \in Int
  BY <1>4, <1>8, <1>9, <1>10, <1>11
<1> HIDE DEF r
<1>13. f[c] + (f[x] + r) = f[x] + (f[c] + r)
  BY <1>11, <1>12
<1> QED
  BY <1>2, <1>12, <1>13

\* A sum of numbers that are not negative is not negative.
LEMMA SumNat ==
  ASSUME NEW f, NEW S, IsFiniteSet(S), \A x \in S : f[x] \in Nat
  PROVE  SumFunctionOnSet(f, S) \in Nat
<1> DEFINE B == {s \in SUBSET S : SumFunctionOnSet(f, s) \notin Nat}
<1> SUFFICES ASSUME B # {} PROVE FALSE
  OBVIOUS
<1>1. PICK s \in B : \A t \in B : Cardinality(s) <= Cardinality(t)
  BY Fewest, Zenon
<1>2. s # {}
  BY SumEmpty
<1>3. IsFiniteSet(s) /\ Chosen(s) \in s
  BY <1>2, FS_Subset, ChosenIn
<1>4. Cardinality(s) \in Nat /\ Cardinality(s \ {Chosen(s)}) = Cardinality(s) - 1
  BY <1>2, <1>3, Shrinks
<1>5. s \ {Chosen(s)} \notin B
  BY <1>1, <1>4
<1>6. SumFunctionOnSet(f, s) = f[Chosen(s)] + SumFunctionOnSet(f, s \ {Chosen(s)})
  BY <1>2, <1>3, SumChosen
<1> QED
  BY <1>3, <1>5, <1>6

\* A sum of zeros is zero.
LEMMA SumZero ==
  ASSUME NEW f, NEW S, IsFiniteSet(S), \A x \in S : f[x] = 0
  PROVE  SumFunctionOnSet(f, S) = 0
<1> DEFINE B == {s \in SUBSET S : SumFunctionOnSet(f, s) # 0}
<1> SUFFICES ASSUME B # {} PROVE FALSE
  OBVIOUS
<1>1. PICK s \in B : \A t \in B : Cardinality(s) <= Cardinality(t)
  BY Fewest, Zenon
<1>2. s # {}
  BY SumEmpty
<1>3. IsFiniteSet(s) /\ Chosen(s) \in s
  BY <1>2, FS_Subset, ChosenIn
<1>4. Cardinality(s) \in Nat /\ Cardinality(s \ {Chosen(s)}) = Cardinality(s) - 1
  BY <1>2, <1>3, Shrinks
<1>5. s \ {Chosen(s)} \notin B
  BY <1>1, <1>4
<1>6. SumFunctionOnSet(f, s) = f[Chosen(s)] + SumFunctionOnSet(f, s \ {Chosen(s)})
  BY <1>2, <1>3, SumChosen
<1> QED
  BY <1>3, <1>5, <1>6

\* What one more or one changed summand does to a sum.
LEMMA SumAdded ==
  ASSUME NEW f, NEW S, IsFiniteSet(S), \A x \in S : f[x] \in Int,
         NEW y, y \notin S, f[y] \in Int
  PROVE  SumFunctionOnSet(f, S \cup {y}) = f[y] + SumFunctionOnSet(f, S)
<1>1. IsFiniteSet(S \cup {y}) /\ (S \cup {y}) \ {y} = S
  BY FS_AddElement
<1>2. \A x \in S \cup {y} : f[x] \in Int
  OBVIOUS
<1>3. SumFunctionOnSet(f, S \cup {y}) = f[y] + SumFunctionOnSet(f, (S \cup {y}) \ {y})
  BY <1>1, <1>2, SumWithout
<1> QED
  BY <1>1, <1>3

\* A change of one summand changes the sum by as much.
LEMMA SumChanged ==
  ASSUME NEW f, NEW g, NEW S, IsFiniteSet(S), NEW y \in S,
         \A x \in S : f[x] \in Int,
         \A x \in S : x # y => g[x] = f[x],
         g[y] \in Int
  PROVE  SumFunctionOnSet(g, S) = SumFunctionOnSet(f, S) - f[y] + g[y]
<1>1. IsFiniteSet(S \ {y})
  BY FS_RemoveElement
<1>2. SumFunctionOnSet(f, S) = f[y] + SumFunctionOnSet(f, S \ {y})
  BY SumWithout
<1>3. \A x \in S : g[x] \in Int
  OBVIOUS
<1>4. SumFunctionOnSet(g, S) = g[y] + SumFunctionOnSet(g, S \ {y})
  BY <1>3, SumWithout
<1>5. SumFunctionOnSet(g, S \ {y}) = SumFunctionOnSet(f, S \ {y})
  BY <1>1, SumAgrees
<1>6. SumFunctionOnSet(f, S \ {y}) \in Int
  BY <1>1, SumInt
<1> QED
  BY <1>2, <1>4, <1>5, <1>6
=============================================================================
