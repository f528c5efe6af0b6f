------------------------------- MODULE SumProofs -------------------------------
(***************************************************************************)
(* Sums over finite sets, which the space the dumps take and the running   *)
(* statistics are made of: what the folds of the community modules compute *)
(* for every set, whatever element they choose first.                      *)
(*                                                                         *)
(* The induction principle is stated about a set of numbers, so that it    *)
(* can be used without an operator as its argument.                        *)
(***************************************************************************)
EXTENDS Integers, FiniteSets, FiniteSetTheorems, WellFoundedInduction, TLAPS

(* Every nonempty set of natural numbers has a least element.              *)
LEMMA LeastNatural ==
  ASSUME NEW T \in SUBSET Nat, T # {}
  PROVE  \E n \in T : \A m \in T : n <= m
<1> DEFINE R == {ss \in Nat \X Nat : ss[1] < ss[2]}
<1>1. IsWellFoundedOn(R, Nat)
  BY NatLessThanWellFounded DEF OpToRel
<1>2. \E n \in T : \A m \in T : ~ (<<m, n>> \in R)
  <2> HIDE DEF R
  <2> QED BY <1>1, WFMin, Zenon
<1>3. PICK n \in T : \A m \in T : ~ (<<m, n>> \in R)
  BY <1>2
<1>4. \A m \in T : ~ (m < n)
  BY <1>3
<1> QED
  BY <1>4

(* A set that holds 0, and n + 1 with every n, holds every number.         *)
LEMMA InductionOnNat ==
  ASSUME NEW T, 0 \in T, \A n \in Nat : n \in T => n + 1 \in T
  PROVE  Nat \subseteq T
<1>1. ASSUME Nat \ T # {} PROVE FALSE
  <2>1. PICK n \in Nat \ T : \A m \in Nat \ T : n <= m
    BY <1>1, LeastNatural
  <2>2. n - 1 \in Nat /\ n - 1 \in T
    BY <2>1
  <2> QED
    BY <2>1, <2>2
<1> QED
  BY <1>1

-----------------------------------------------------------------------------
(* The function a fold with + builds over the subsets of S: the total of   *)
(* f over each of them.                                                    *)
Chosen(s) == CHOOSE x \in s : TRUE
SumsUp(g, f, S) ==
  g = [s \in SUBSET S |-> IF s = {} THEN 0 ELSE f[Chosen(s)] + g[s \ {Chosen(s)}]]
Agree(f, h, U) == \A x \in U : f[x] = h[x]
Total(f, S) == (CHOOSE g : SumsUp(g, f, S))[S]

LEMMA ChosenIsElement ==
  ASSUME NEW s, s # {}
  PROVE  Chosen(s) \in s
BY DEF Chosen

(* One element less of a finite set.                                       *)
LEMMA OneLess ==
  ASSUME NEW S, IsFiniteSet(S), NEW s \in SUBSET S, NEW x \in s, NEW n \in Nat,
         Cardinality(s) <= n + 1
  PROVE  /\ IsFiniteSet(s) /\ Cardinality(s) \in Nat
         /\ s \ {x} \in SUBSET S
         /\ Cardinality(s \ {x}) = Cardinality(s) - 1
         /\ Cardinality(s \ {x}) <= n
<1>1. IsFiniteSet(s)
  BY FS_Subset
<1>2. Cardinality(s) \in Nat
  BY <1>1, FS_CardinalityType
<1>3. Cardinality(s \ {x}) = Cardinality(s) - 1
  BY <1>1, FS_RemoveElement
<1> QED
  BY <1>1, <1>2, <1>3

(* There is such a function: it is built for the subsets of at most n      *)
(* elements, for one n after the other.                                    *)
LEMMA SumExists ==
  ASSUME NEW S, IsFiniteSet(S), NEW f \in [S -> Nat]
  PROVE  \E g \in [SUBSET S -> Nat] : SumsUp(g, f, S)
<1> DEFINE Value(g, s) == IF s = {} THEN 0 ELSE f[Chosen(s)] + g[s \ {Chosen(s)}]
           Upto(n) == {g \in [SUBSET S -> Nat] :
                         \A s \in SUBSET S : Cardinality(s) <= n => g[s] = Value(g, s)}
           T == {n \in Nat : Upto(n) # {}}
<1>0. \A s \in SUBSET S : IsFiniteSet(s) /\ Cardinality(s) \in Nat
  BY FS_Subset, FS_CardinalityType
<1>1. 0 \in T
  <2> DEFINE none == [s \in SUBSET S |-> 0]
  <2>1. \A s \in SUBSET S : Cardinality(s) <= 0 => s = {}
    BY <1>0, FS_EmptySet
  <2>2. none \in Upto(0)
    BY <2>1
  <2> QED  BY <2>2
<1>2. ASSUME NEW n \in Nat, n \in T PROVE n + 1 \in T
  <2>1. PICK g \in Upto(n) : TRUE
    BY <1>2
  <2> DEFINE h == [s \in SUBSET S |-> IF Cardinality(s) = n + 1 THEN Value(g, s) ELSE g[s]]
  <2>2. g \in [SUBSET S -> Nat]
    BY <2>1
  <2>3. \A s \in SUBSET S : Cardinality(s) <= n => g[s] = Value(g, s)
    BY <2>1
  <2>4. \A s \in SUBSET S : Value(g, s) \in Nat
    BY <2>2, ChosenIsElement
  <2>5. h \in [SUBSET S -> Nat]
    BY <2>2, <2>4
  <2>6. ASSUME NEW s \in SUBSET S, Cardinality(s) <= n + 1 PROVE h[s] = Value(g, s)
    BY <1>0, <2>3, <2>6
  <2>7. ASSUME NEW s \in SUBSET S, Cardinality(s) <= n + 1 PROVE Value(g, s) = Value(h, s)
    <3>1. CASE s = {}
      BY <3>1
    <3>2. CASE s # {}
      <4>1. Chosen(s) \in s
        BY <3>2, ChosenIsElement
      <4>2. s \ {Chosen(s)} \in SUBSET S /\ Cardinality(s \ {Chosen(s)}) <= n
            /\ Cardinality(s \ {Chosen(s)}) \in Nat
        BY <1>0, <2>7, <4>1, OneLess
      <4>3. h[s \ {Chosen(s)}] = g[s \ {Chosen(s)}]
        BY <4>2
      <4> QED  BY <3>2, <4>3
    <3> QED  BY <3>1, <3>2
  <2>8. \A s \in SUBSET S : Cardinality(s) <= n + 1 => h[s] = Value(h, s)
    BY <2>6, <2>7
  <2>9. h \in Upto(n + 1)
    <3> HIDE DEF h, Value
    <3> QED  BY <2>5, <2>8
  <2> QED
    <3> HIDE DEF Upto, h
    <3> QED  BY <2>9
<1>3. Cardinality(S) \in T
  <2>1. Nat \subseteq T
    <3> HIDE DEF T
    <3> QED  BY <1>1, <1>2, InductionOnNat
  <2> QED  BY <2>1, FS_CardinalityType
<1>4. PICK g \in [SUBSET S -> Nat] :
        \A s \in SUBSET S : Cardinality(s) <= Cardinality(S) => g[s] = Value(g, s)
  BY <1>3
<1>5. \A s \in SUBSET S : g[s] = Value(g, s)
  BY <1>4, FS_Subset
<1> QED  BY <1>4, <1>5 DEF SumsUp

(* What the function is on the empty set and on the others.                *)
LEMMA SumOfNone ==
  ASSUME NEW S, NEW f, NEW g, SumsUp(g, f, S)
  PROVE  g[{}] = 0
BY DEF SumsUp

LEMMA SumOfSome ==
  ASSUME NEW S, NEW f, NEW g, SumsUp(g, f, S),
         NEW s, s \subseteq S, s # {}
  PROVE  g[s] = f[Chosen(s)] + g[s \ {Chosen(s)}]
BY DEF SumsUp

(* There is only one: two functions whose sums are of the same values      *)
(* agree on every subset the two sets share.                               *)
LEMMA SumsAgree ==
  ASSUME NEW S, IsFiniteSet(S), NEW R, NEW f, NEW h, NEW g, NEW k,
         SumsUp(g, f, S), SumsUp(k, h, R), NEW U \in SUBSET (S \cap R),
         Agree(f, h, U)
  PROVE  \A s \in SUBSET U : g[s] = k[s]
<1> DEFINE T == {n \in Nat : \A s \in SUBSET U : Cardinality(s) <= n => g[s] = k[s]}
<1>0. IsFiniteSet(U) /\ \A s \in SUBSET U : IsFiniteSet(s) /\ Cardinality(s) \in Nat
  BY FS_Subset, FS_CardinalityType
<1>1. 0 \in T
  <2>1. \A s \in SUBSET U : Cardinality(s) <= 0 => s = {}
    BY <1>0, FS_EmptySet
  <2>2. g[{}] = k[{}]
    BY SumOfNone
  <2> QED  BY <2>1, <2>2
<1>2. ASSUME NEW n \in Nat, n \in T PROVE n + 1 \in T
  <2>1. ASSUME NEW s \in SUBSET U, Cardinality(s) <= n + 1, s # {} PROVE g[s] = k[s]
    <3> DEFINE x == Chosen(s)
    <3>1. x \in s
      BY <2>1, ChosenIsElement
    <3>2. s \ {x} \in SUBSET U /\ Cardinality(s \ {x}) <= n
      <4> HIDE DEF x
      <4> QED  BY <1>0, <2>1, <3>1, OneLess
    <3>3. g[s \ {x}] = k[s \ {x}]
      BY <1>2, <3>2
    <3>4. g[s] = f[x] + g[s \ {x}] /\ k[s] = h[x] + k[s \ {x}]
      <4>1. s \subseteq S
        OBVIOUS
      <4>2. s \subseteq R
        OBVIOUS
      <4>3. s # {}
        BY <2>1
      <4>4. g[s] = f[Chosen(s)] + g[s \ {Chosen(s)}]
        BY <4>1, <4>3, SumOfSome
      <4>5. k[s] = h[Chosen(s)] + k[s \ {Chosen(s)}]
        BY <4>2, <4>3, SumOfSome
      <4> QED  BY <4>4, <4>5
    <3> QED  BY <3>1, <3>3, <3>4 DEF Agree
  <2>2. g[{}] = k[{}]
    BY SumOfNone
  <2> QED  BY <2>1, <2>2
<1>3. Nat \subseteq T
  <2> HIDE DEF T
  <2> QED  BY <1>1, <1>2, InductionOnNat
<1> QED  BY <1>0, <1>3

(* Every such function ends in the total.                                  *)
LEMMA TotalIs ==
  ASSUME NEW S, IsFiniteSet(S), NEW f \in [S -> Nat], NEW g, SumsUp(g, f, S)
  PROVE  g[S] = Total(f, S)
<1> DEFINE c == CHOOSE k : SumsUp(k, f, S)
<1>1. SumsUp(c, f, S)
  OBVIOUS
<1>2. Agree(f, f, S) /\ S \in SUBSET (S \cap S)
  BY DEF Agree
<1>3. c[S] = Total(f, S)
  BY DEF Total
<1> HIDE DEF c
<1>4. \A s \in SUBSET S : c[s] = g[s]
  BY <1>1, <1>2, SumsAgree
<1> QED  BY <1>3, <1>4

(* Of any subset, and of any function that goes further.                   *)
LEMMA TotalOfSubset ==
  ASSUME NEW S, IsFiniteSet(S), NEW f \in [S -> Nat], NEW g, SumsUp(g, f, S),
         NEW U \in SUBSET S, NEW h \in [U -> Nat], Agree(f, h, U)
  PROVE  g[U] = Total(h, U)
<1>1. IsFiniteSet(U)
  BY FS_Subset
<1>2. PICK k \in [SUBSET U -> Nat] : SumsUp(k, h, U)
  BY <1>1, SumExists
<1>3. \A s \in SUBSET U : g[s] = k[s]
  BY <1>2, SumsAgree
<1> QED  BY <1>1, <1>2, <1>3, TotalIs

(* Whichever element is taken off first.                                   *)
Splits(g, f, S) == \A s \in SUBSET S : \A x \in s : g[s] = f[x] + g[s \ {x}]

LEMMA SumWithout ==
  ASSUME NEW S, IsFiniteSet(S), NEW f \in [S -> Nat],
         NEW g \in [SUBSET S -> Nat], SumsUp(g, f, S)
  PROVE  Splits(g, f, S)
<1> DEFINE T == {n \in Nat : \A s \in SUBSET S : Cardinality(s) <= n =>
                               \A x \in s : g[s] = f[x] + g[s \ {x}]}
<1>0. \A s \in SUBSET S : IsFiniteSet(s) /\ Cardinality(s) \in Nat
  BY FS_Subset, FS_CardinalityType
<1>1. 0 \in T
  <2>1. \A s \in SUBSET S : Cardinality(s) <= 0 => s = {}
    BY <1>0, FS_EmptySet
  <2> QED  BY <2>1
<1>2. ASSUME NEW n \in Nat, n \in T PROVE n + 1 \in T
  <2>1. ASSUME NEW s \in SUBSET S, Cardinality(s) <= n + 1, NEW x \in s
        PROVE  g[s] = f[x] + g[s \ {x}]
    <3>1. PICK y \in s : g[s] = f[y] + g[s \ {y}]
      <4>1. s # {} /\ s \subseteq S
        OBVIOUS
      <4>2. Chosen(s) \in s
        BY <4>1, ChosenIsElement
      <4>3. g[s] = f[Chosen(s)] + g[s \ {Chosen(s)}]
        BY <4>1, SumOfSome
      <4> QED  BY <4>2, <4>3
    <3>2. CASE x = y
      BY <3>1, <3>2
    <3>3. CASE x # y
      <4>1. /\ s \ {x} \in SUBSET S /\ Cardinality(s \ {x}) <= n
            /\ s \ {y} \in SUBSET S /\ Cardinality(s \ {y}) <= n
        BY <2>1, OneLess
      <4>2. y \in s \ {x} /\ x \in s \ {y}
        BY <3>3
      <4>3. g[s \ {x}] = f[y] + g[(s \ {x}) \ {y}]
        BY <1>2, <4>1, <4>2
      <4>4. g[s \ {y}] = f[x] + g[(s \ {y}) \ {x}]
        BY <1>2, <4>1, <4>2
      <4>5. (s \ {x}) \ {y} = (s \ {y}) \ {x} /\ (s \ {x}) \ {y} \in SUBSET S
        OBVIOUS
      <4>6. /\ f[x] \in Nat /\ f[y] \in Nat /\ g[(s \ {x}) \ {y}] \in Nat
            /\ g[s \ {x}] \in Nat /\ g[s \ {y}] \in Nat /\ g[s] \in Nat
        BY <4>5
      <4> HIDE <4>5
      <4>7. g[(s \ {x}) \ {y}] = g[(s \ {y}) \ {x}]
        BY <4>5
      <4> QED  BY <3>1, <4>3, <4>4, <4>6, <4>7
    <3> QED  BY <3>2, <3>3
  <2> QED  BY <2>1
<1>3. Nat \subseteq T
  <2> HIDE DEF T
  <2> QED  BY <1>1, <1>2, InductionOnNat
<1> SUFFICES ASSUME NEW s \in SUBSET S, NEW x \in s PROVE g[s] = f[x] + g[s \ {x}]
  BY DEF Splits
<1>4. Cardinality(s) \in T /\ Cardinality(s) <= Cardinality(s)
  BY <1>0, <1>3
<1> QED  BY <1>4

-----------------------------------------------------------------------------
(* What the modules that add things up need                                *)

(* An empty loop adds up to nothing.                                       *)
THEOREM TotalOfNone ==
  ASSUME NEW f \in [{} -> Nat]
  PROVE  Total(f, {}) = 0
<1>1. IsFiniteSet({})
  BY FS_EmptySet
<1>2. PICK g \in [SUBSET {} -> Nat] : SumsUp(g, f, {})
  BY <1>1, SumExists
<1>3. g[{}] = 0
  BY <1>2, SumOfNone
<1>4. g[{}] = Total(f, {})
  BY <1>1, <1>2, TotalIs
<1> QED  BY <1>3, <1>4

(* One element more, whatever it is.                                       *)
THEOREM TotalOfOneMore ==
  ASSUME NEW S, IsFiniteSet(S), NEW x \in S, NEW f \in [S -> Nat],
         NEW h \in [S \ {x} -> Nat], Agree(f, h, S \ {x})
  PROVE  Total(f, S) = f[x] + Total(h, S \ {x})
<1>1. PICK g \in [SUBSET S -> Nat] : SumsUp(g, f, S)
  BY SumExists
<1>2. g[S] = f[x] + g[S \ {x}]
  <2>1. Splits(g, f, S)
    BY <1>1, SumWithout
  <2> QED  BY <2>1 DEF Splits
<1>3. g[S] = Total(f, S)
  BY <1>1, TotalIs
<1>4. g[S \ {x}] = Total(h, S \ {x})
  BY <1>1, TotalOfSubset
<1> QED  BY <1>2, <1>3, <1>4

(* A total of numbers is a number.                                         *)
THEOREM TotalIsNatural ==
  ASSUME NEW S, IsFiniteSet(S), NEW f \in [S -> Nat]
  PROVE  Total(f, S) \in Nat
<1>1. PICK g \in [SUBSET S -> Nat] : SumsUp(g, f, S)
  BY SumExists
<1>2. g[S] = Total(f, S)
  BY <1>1, TotalIs
<1> QED  BY <1>2

(* Each element of S has one number in I.                                  *)
Numbers(b, I, S) ==
  /\ \A i, j \in I : b[i] = b[j] => i = j
  /\ \A x \in S : \E i \in I : b[i] = x

(* The total does not depend on what the summands are counted by.          *)
THEOREM TotalReindexed ==
  ASSUME NEW I, IsFiniteSet(I), NEW S, NEW b \in [I -> S],
         Numbers(b, I, S), NEW f \in [S -> Nat], NEW h \in [I -> Nat], Agree(h, [i \in I |-> f[b[i]]], I)
  PROVE  Total(h, I) = Total(f, S)
<1> DEFINE Image(J) == {b[i] : i \in J}
<1>1. Image(I) = S
  BY DEF Numbers
<1>2. IsFiniteSet(S)
  <2>1. b \in Surjection(I, S)
    BY DEF Surjection, Numbers
  <2> QED  BY <2>1, FS_Surjection
<1>3. PICK g \in [SUBSET I -> Nat] : SumsUp(g, h, I)
  BY SumExists
<1>4. PICK k \in [SUBSET S -> Nat] : SumsUp(k, f, S)
  BY <1>2, SumExists
<1> DEFINE T == {n \in Nat : \A J \in SUBSET I : Cardinality(J) <= n => g[J] = k[Image(J)]}
<1>7. \A J \in SUBSET I : IsFiniteSet(J) /\ Cardinality(J) \in Nat
  BY FS_Subset, FS_CardinalityType
<1>5. Splits(g, h, I)
  BY <1>3, SumWithout
<1>6. Splits(k, f, S)
  BY <1>2, <1>4, SumWithout
<1>8. g[{}] = 0 /\ k[{}] = 0
  BY <1>3, <1>4, SumOfNone
<1>9. 0 \in T
  <2>1. \A J \in SUBSET I : Cardinality(J) <= 0 => J = {}
    BY <1>7, FS_EmptySet
  <2>2. Image({}) = {}
    OBVIOUS
  <2> QED  BY <1>8, <2>1, <2>2
<1>10. ASSUME NEW n \in Nat, n \in T PROVE n + 1 \in T
  <2>1. ASSUME NEW J \in SUBSET I, Cardinality(J) <= n + 1, NEW x \in J
        PROVE  g[J] = k[Image(J)]
    <3>1. J \in SUBSET I /\ Image(J) \in SUBSET S /\ b[x] \in Image(J)
      BY <1>1
    <3>2. g[J] = h[x] + g[J \ {x}]
      BY <1>5, <3>1 DEF Splits
    <3>3. k[Image(J)] = f[b[x]] + k[Image(J) \ {b[x]}]
      <4> HIDE DEF Image
      <4> QED  BY <1>6, <3>1 DEF Splits
    <3>4. Image(J) \ {b[x]} = Image(J \ {x})
      BY DEF Numbers
    <3>5. J \ {x} \in SUBSET I /\ Cardinality(J \ {x}) <= n
      BY <2>1, OneLess
    <3>6. g[J \ {x}] = k[Image(J \ {x})]
      <4> HIDE DEF Image
      <4> QED  BY <1>10, <3>5
    <3>7. h[x] = f[b[x]]
      BY DEF Agree
    <3> HIDE DEF Image
    <3> QED  BY <3>2, <3>3, <3>4, <3>6, <3>7
  <2>2. \A J \in SUBSET I : J = {} => g[J] = k[Image(J)]
    <3>1. Image({}) = {}
      OBVIOUS
    <3> QED  BY <1>8, <3>1
  <2> HIDE DEF Image
  <2> QED  BY <2>1, <2>2
<1>11. Nat \subseteq T
  <2> HIDE DEF T
  <2> QED  BY <1>9, <1>10, InductionOnNat
<1>12. g[I] = k[S]
  <2>1. Cardinality(I) \in T
    BY <1>7, <1>11
  <2> QED  BY <1>7, <1>1, <2>1
<1>13. g[I] = Total(h, I) /\ k[S] = Total(f, S)
  BY <1>2, <1>3, <1>4, TotalIs
<1> QED  BY <1>12, <1>13
================================================================================
