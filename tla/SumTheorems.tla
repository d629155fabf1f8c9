---------------------------- MODULE SumTheorems ----------------------------
(***************************************************************************)
(* The sum over a finite function, as FoldFunction computes it: that it is *)
(* defined, a natural number, and what an update does to it.  The library  *)
(* states induction with an operator as parameter; here every induction is *)
(* the choice of a smallest counterexample instead.                        *)
(***************************************************************************)
EXTENDS Integers, FiniteSets, Functions, FiniteSetTheorems, TLAPS

SumOf(f) == FoldFunction(+, 0, f)

\* The element FoldFunction takes out of s first.
Taken(s) == CHOOSE x \in s : TRUE

\* g holds the sums of f over the members of D, a set of sets.
Sums(g, f, D) ==
  g = [s \in D |-> IF s = {} THEN 0 ELSE f[Taken(s)] + g[s \ {Taken(s)}]]

LEMMA LeastExists ==
    ASSUME NEW T \in SUBSET Nat, T # {}
    PROVE  \E m \in T : \A n \in T : m <= n
<1> DEFINE R == {ss \in Nat \X Nat : ss[1] < ss[2]}
<1>1. IsWellFoundedOn(R, Nat)
  BY NatLessThanWellFounded DEF OpToRel
<1>2. PICK m \in T : \A n \in T : ~(<<n, m>> \in R)
  <2> HIDE DEF R
  <2> QED BY <1>1, WFMin
<1>3. \A n \in T : ~(n < m)
  BY <1>2
<1> QED BY <1>3

LEMMA SumUnfolds ==
    ASSUME NEW f
    PROVE  SumOf(f) = (CHOOSE g : Sums(g, f, SUBSET (DOMAIN f)))[DOMAIN f]
BY DEF SumOf, FoldFunction, FoldFunctionOnSet, MapThenFoldSet, Sums, Taken

LEMMA TakenIn == ASSUME NEW s, s # {} PROVE Taken(s) \in s
BY DEF Taken

\* The recursion of FoldFunction has a solution: one for the small sets
\* extends to those with one element more.
LEMMA SumsExist ==
    ASSUME NEW S, IsFiniteSet(S), NEW f \in [S -> Nat]
    PROVE  \E g : Sums(g, f, SUBSET S)
<1> DEFINE D(n) == {s \in SUBSET S : Cardinality(s) <= n}
           Bad == {n \in Nat : ~\E g : Sums(g, f, D(n))}
<1>1. \A s \in SUBSET S : /\ IsFiniteSet(s) /\ Cardinality(s) \in Nat
                          /\ Cardinality(s) <= Cardinality(S)
                          /\ s # {} => Cardinality(s) # 0
  BY FS_Subset, FS_CardinalityType, FS_EmptySet
<1>2. \A s \in SUBSET S : s # {} =>
        /\ Taken(s) \in s
        /\ s \ {Taken(s)} \in SUBSET S
        /\ Cardinality(s \ {Taken(s)}) = Cardinality(s) - 1
  BY <1>1, TakenIn, FS_RemoveElement
<1>3. Bad = {}
  <2> SUFFICES ASSUME Bad # {} PROVE FALSE
    OBVIOUS
  <2>1. PICK m \in Bad : \A n \in Bad : m <= n
    <3>1. Bad \in SUBSET Nat
      OBVIOUS
    <3> HIDE DEF Bad
    <3> QED BY <3>1, LeastExists
  <2>2. m # 0
    <3> SUFFICES ASSUME m = 0 PROVE FALSE
      OBVIOUS
    <3>1. \A s \in D(0) : s = {}
      BY <1>1
    <3>2. Sums([s \in D(0) |-> 0], f, D(0))
      BY <3>1 DEF Sums
    <3> QED BY <2>1, <3>2
  <2>3. m - 1 \in Nat /\ m - 1 \notin Bad
    <3>1. m \in Nat
      OBVIOUS
    <3> HIDE DEF Bad
    <3> QED BY <2>1, <2>2, <3>1
  <2>4. PICK g : Sums(g, f, D(m - 1))
    BY <2>3
  <2> DEFINE h == [s \in D(m) |-> IF s = {} THEN 0 ELSE f[Taken(s)] + g[s \ {Taken(s)}]]
  <2>5. \A s \in D(m - 1) : s \in D(m) /\ h[s] = g[s]
    <3> SUFFICES ASSUME NEW s \in D(m - 1) PROVE s \in D(m) /\ h[s] = g[s]
      OBVIOUS
    <3>1. s \in D(m)
      BY <1>1, <2>1
    <3>2. g[s] = IF s = {} THEN 0 ELSE f[Taken(s)] + g[s \ {Taken(s)}]
      <4> HIDE DEF D
      <4> QED BY <2>4 DEF Sums
    <3> QED BY <3>1, <3>2
  <2>6. \A s \in D(m) : s # {} => s \ {Taken(s)} \in D(m - 1)
    BY <1>1, <1>2, <2>1
  <2>7. Sums(h, f, D(m))
    <3>1. ASSUME NEW s \in D(m)
          PROVE  h[s] = IF s = {} THEN 0 ELSE f[Taken(s)] + h[s \ {Taken(s)}]
      <4>1. CASE s = {}
        BY <4>1
      <4>2. CASE s # {}
        <5>1. h[s \ {Taken(s)}] = g[s \ {Taken(s)}]
          BY <2>5, <2>6, <4>2
        <5> QED BY <4>2, <5>1
      <4> QED BY <4>1, <4>2
    <3>2. h = [s \in D(m) |-> h[s]]
      OBVIOUS
    <3> HIDE DEF h, D
    <3> QED BY <3>1, <3>2 DEF Sums
  <2> QED BY <2>1, <2>7
<1>4. Cardinality(S) \in Nat /\ D(Cardinality(S)) = SUBSET S
  BY <1>1, FS_CardinalityType
<1> QED BY <1>3, <1>4

LEMMA SumsDefined ==
    ASSUME NEW S, IsFiniteSet(S), NEW f \in [S -> Nat]
    PROVE  \E g : Sums(g, f, SUBSET S) /\ SumOf(f) = g[S]
<1> DEFINE g == CHOOSE g : Sums(g, f, SUBSET S)
<1>1. Sums(g, f, SUBSET S)
  BY SumsExist
<1>2. SumOf(f) = g[S]
  BY SumUnfolds
<1> QED BY <1>1, <1>2

\* The sum over every subset is a natural number.
LEMMA SumsType ==
    ASSUME NEW S, IsFiniteSet(S), NEW f \in [S -> Nat], NEW g, Sums(g, f, SUBSET S)
    PROVE  \A s \in SUBSET S : g[s] \in Nat
<1> DEFINE Bad == {Cardinality(s) : s \in {t \in SUBSET S : g[t] \notin Nat}}
<1> SUFFICES ASSUME Bad # {} PROVE FALSE
  OBVIOUS
<1>1. Bad \in SUBSET Nat
  BY FS_Subset, FS_CardinalityType
<1>2. PICK m \in Bad : \A n \in Bad : m <= n
  <2> HIDE DEF Bad
  <2> QED BY <1>1, LeastExists
<1>3. PICK s \in SUBSET S : g[s] \notin Nat /\ Cardinality(s) = m
  OBVIOUS
<1>4. g[s] = IF s = {} THEN 0 ELSE f[Taken(s)] + g[s \ {Taken(s)}]
  BY DEF Sums
<1>5. s # {}
  BY <1>3, <1>4
<1>6. Taken(s) \in S /\ s \ {Taken(s)} \in SUBSET S
  BY <1>5, TakenIn
<1>7. Cardinality(s \ {Taken(s)}) = m - 1 /\ m \in Nat
  BY <1>1, <1>3, <1>5, TakenIn, FS_RemoveElement, FS_Subset
<1>8. g[s \ {Taken(s)}] \in Nat
  <2> SUFFICES ASSUME g[s \ {Taken(s)}] \notin Nat PROVE FALSE
    OBVIOUS
  <2>1. Cardinality(s \ {Taken(s)}) \in Bad
    BY <1>6
  <2> HIDE DEF Bad
  <2> QED BY <1>2, <1>7, <2>1
<1> QED BY <1>3, <1>4, <1>5, <1>6, <1>8

\* The sum of a finite function of naturals is a natural number.
THEOREM SumType ==
    ASSUME NEW S, IsFiniteSet(S), NEW f \in [S -> Nat]
    PROVE  SumOf(f) \in Nat
<1>1. PICK g : Sums(g, f, SUBSET S) /\ SumOf(f) = g[S]
  BY SumsDefined
<1> QED BY <1>1, SumsType

\* Overwriting one value changes the sum by the difference: an update moves
\* the sums over the sets that hold the changed element.
THEOREM SumUpdate ==
    ASSUME NEW S, IsFiniteSet(S), NEW f \in [S -> Nat], NEW k \in S, NEW n \in Nat
    PROVE  SumOf([f EXCEPT ![k] = n]) = SumOf(f) - f[k] + n
<1> DEFINE e == [f EXCEPT ![k] = n]
<1>1. e \in [S -> Nat]
  OBVIOUS
<1>2. PICK g : Sums(g, f, SUBSET S) /\ SumOf(f) = g[S]
  BY SumsDefined
<1>3. PICK h : Sums(h, e, SUBSET S) /\ SumOf(e) = h[S]
  <2> HIDE DEF e
  <2> QED BY <1>1, SumsDefined
<1>4. \A s \in SUBSET S : h[s] = IF k \in s THEN g[s] - f[k] + n ELSE g[s]
  <2> DEFINE Right(s) == h[s] = IF k \in s THEN g[s] - f[k] + n ELSE g[s]
             Bad == {Cardinality(s) : s \in {t \in SUBSET S : ~Right(t)}}
  <2> SUFFICES ASSUME Bad # {} PROVE FALSE
    OBVIOUS
  <2>1. Bad \in SUBSET Nat
    BY FS_Subset, FS_CardinalityType
  <2>2. PICK m \in Bad : \A i \in Bad : m <= i
    <3> HIDE DEF Bad
    <3> QED BY <2>1, LeastExists
  <2>3. PICK s \in SUBSET S : ~Right(s) /\ Cardinality(s) = m
    <3> HIDE DEF Right
    <3> QED OBVIOUS
  <2> DEFINE x == Taken(s)
             r == s \ {Taken(s)}
  <2>4. /\ g[s] = IF s = {} THEN 0 ELSE f[x] + g[r]
        /\ h[s] = IF s = {} THEN 0 ELSE e[x] + h[r]
    BY <1>2, <1>3 DEF Sums
  <2>5. s # {}
    BY <2>3, <2>4
  <2>6. x \in s /\ x \in S /\ r \in SUBSET S
    BY <2>5, TakenIn
  <2>7. Cardinality(r) = m - 1 /\ m \in Nat
    BY <2>1, <2>3, <2>5, TakenIn, FS_RemoveElement, FS_Subset
  <2>8. Right(r)
    <3> SUFFICES ASSUME ~Right(r) PROVE FALSE
      OBVIOUS
    <3>1. Cardinality(r) \in Bad
      <4> HIDE DEF Right, r
      <4> QED BY <2>6
    <3> HIDE DEF Bad, r
    <3> QED BY <2>2, <2>7, <3>1
  <2>9. g[r] \in Nat /\ f[k] \in Nat /\ f[x] \in Nat
    BY <1>2, <2>6, SumsType
  <2>10. CASE x = k
    <3>1. e[x] = n /\ k \in s /\ k \notin r
      BY <2>6, <2>10
    <3>2. h[r] = g[r]
      BY <2>8, <3>1
    <3> QED BY <2>3, <2>4, <2>5, <2>9, <2>10, <3>1, <3>2
  <2>11. CASE x # k
    <3>1. e[x] = f[x] /\ (k \in s <=> k \in r)
      BY <2>6, <2>11
    <3> HIDE DEF x, r
    <3> QED BY <2>3, <2>4, <2>5, <2>8, <2>9, <3>1
  <2> QED BY <2>10, <2>11
<1>5. h[S] = g[S] - f[k] + n
  BY <1>4
<1> QED BY <1>2, <1>3, <1>5

\* The order in which elements are taken out does not matter.
AnyOrder(g, f, S) == \A s \in SUBSET S : \A x \in s : g[s] = f[x] + g[s \ {x}]

LEMMA SumsRemove ==
    ASSUME NEW S, IsFiniteSet(S), NEW f \in [S -> Nat], NEW g, Sums(g, f, SUBSET S)
    PROVE  AnyOrder(g, f, S)
<1> DEFINE Right(s) == \A x \in s : g[s] = f[x] + g[s \ {x}]
           Bad == {Cardinality(s) : s \in {t \in SUBSET S : ~Right(t)}}
<1> SUFFICES ASSUME Bad # {} PROVE FALSE
  BY DEF AnyOrder
<1>1. Bad \in SUBSET Nat
  BY FS_Subset, FS_CardinalityType
<1>2. PICK m \in Bad : \A n \in Bad : m <= n
  <2> HIDE DEF Bad
  <2> QED BY <1>1, LeastExists
<1>3. PICK s \in SUBSET S : ~Right(s) /\ Cardinality(s) = m
  <2> HIDE DEF Right
  <2> QED OBVIOUS
<1>4. PICK x \in s : g[s] # f[x] + g[s \ {x}]
  BY <1>3
<1> DEFINE y == Taken(s)
<1>5. y \in s /\ g[s] = f[y] + g[s \ {y}]
  BY <1>4, TakenIn DEF Sums
<1> HIDE DEF y
<1>6. y # x
  BY <1>4, <1>5
<1>7. ASSUME NEW z \in s PROVE Right(s \ {z})
  <2>1. Cardinality(s \ {z}) = m - 1 /\ m \in Nat /\ s \ {z} \in SUBSET S
    BY <1>1, <1>3, FS_RemoveElement, FS_Subset
  <2> SUFFICES ASSUME ~Right(s \ {z}) PROVE FALSE
    OBVIOUS
  <2>2. Cardinality(s \ {z}) \in Bad
    <3> HIDE DEF Right
    <3> QED BY <2>1
  <2> HIDE DEF Bad, Right
  <2> QED BY <1>2, <2>1, <2>2
<1>8. g[s \ {y}] = f[x] + g[(s \ {y}) \ {x}]
  BY <1>5, <1>6, <1>7
<1>9. g[s \ {x}] = f[y] + g[(s \ {x}) \ {y}]
  BY <1>5, <1>6, <1>7
<1>10. (s \ {y}) \ {x} = (s \ {x}) \ {y}
  OBVIOUS
<1>11. f[x] \in Nat /\ f[y] \in Nat /\ g[(s \ {x}) \ {y}] \in Nat
  BY <1>5, SumsType
<1> DEFINE r == g[(s \ {x}) \ {y}]
<1>12. /\ g[s] = f[y] + g[s \ {y}] /\ g[s \ {y}] = f[x] + r /\ g[s \ {x}] = f[y] + r
       /\ r \in Nat /\ f[x] \in Nat /\ f[y] \in Nat
  BY <1>5, <1>8, <1>9, <1>10, <1>11
<1> HIDE DEF r, Bad, Right
<1>13. g[s] = f[x] + g[s \ {x}]
  BY <1>12
<1> QED BY <1>4, <1>13

THEOREM SumEmpty ==
    ASSUME NEW f \in [{} -> Nat]
    PROVE  SumOf(f) = 0
<1>1. PICK g : Sums(g, f, SUBSET {}) /\ SumOf(f) = g[{}]
  BY SumsDefined, FS_EmptySet
<1> QED BY <1>1 DEF Sums

\* e is f with one element more.
OneMore(e, f, S, k) ==
    /\ IsFiniteSet(S) /\ f \in [S -> Nat] /\ k \notin S
    /\ e \in [S \cup {k} -> Nat] /\ \A x \in S : e[x] = f[x]

\* It adds its value.
THEOREM SumExtend ==
    ASSUME NEW S, NEW f, NEW k, NEW e, OneMore(e, f, S, k)
    PROVE  SumOf(e) = SumOf(f) + e[k]
<1>0. PICK T : T = S \cup {k}
  OBVIOUS
<1> USE DEF OneMore
<1>1. IsFiniteSet(T) /\ T \ {k} = S /\ S \in SUBSET T
  BY <1>0, FS_AddElement
<1>2. PICK g : Sums(g, f, SUBSET S) /\ SumOf(f) = g[S]
  BY SumsDefined
<1>3. PICK h : Sums(h, e, SUBSET T) /\ SumOf(e) = h[T]
  BY <1>0, <1>1, SumsDefined
<1>4. h[T] = e[k] + h[S]
  <2>1. e \in [T -> Nat] /\ T \in SUBSET T /\ k \in T
    BY <1>0
  <2>2. \A s \in SUBSET T : \A x \in s : h[s] = e[x] + h[s \ {x}]
    <3>1. IsFiniteSet(T) /\ e \in [T -> Nat] /\ Sums(h, e, SUBSET T)
      BY <1>1, <1>3, <2>1
    <3>2. AnyOrder(h, e, T)
      BY <3>1, SumsRemove
    <3> QED BY <3>2 DEF AnyOrder
  <2>3. \A x \in T : h[T] = e[x] + h[T \ {x}]
    BY <2>1, <2>2, Zenon
  <2>4. h[T] = e[k] + h[T \ {k}]
    BY <2>1, <2>3, Zenon
  <2> QED BY <1>1, <2>4
<1>5. \A s \in SUBSET S : h[s] = g[s]
  <2> DEFINE Bad == {Cardinality(s) : s \in {t \in SUBSET S : h[t] # g[t]}}
  <2> SUFFICES ASSUME Bad # {} PROVE FALSE
    OBVIOUS
  <2>1. Bad \in SUBSET Nat
    BY FS_Subset, FS_CardinalityType
  <2>2. PICK m \in Bad : \A n \in Bad : m <= n
    <3> HIDE DEF Bad
    <3> QED BY <2>1, LeastExists
  <2>3. PICK s \in SUBSET S : h[s] # g[s] /\ Cardinality(s) = m
    OBVIOUS
  <2>4. /\ g[s] = IF s = {} THEN 0 ELSE f[Taken(s)] + g[s \ {Taken(s)}]
        /\ h[s] = IF s = {} THEN 0 ELSE e[Taken(s)] + h[s \ {Taken(s)}]
    BY <1>1, <1>2, <1>3 DEF Sums
  <2>5. s # {}
    BY <2>3, <2>4
  <2>6. Taken(s) \in s /\ s \ {Taken(s)} \in SUBSET S
    BY <2>5, TakenIn
  <2>7. Cardinality(s \ {Taken(s)}) = m - 1 /\ m \in Nat
    BY <2>1, <2>3, <2>5, TakenIn, FS_RemoveElement, FS_Subset
  <2>8. h[s \ {Taken(s)}] = g[s \ {Taken(s)}]
    <3> SUFFICES ASSUME h[s \ {Taken(s)}] # g[s \ {Taken(s)}] PROVE FALSE
      OBVIOUS
    <3>1. Cardinality(s \ {Taken(s)}) \in Bad
      BY <2>6
    <3> HIDE DEF Bad
    <3> QED BY <2>2, <2>7, <3>1
  <2> QED BY <2>3, <2>4, <2>5, <2>6, <2>8
<1>6. g[S] \in Nat /\ e[k] \in Nat
  BY <1>2, SumsType
<1> QED BY <1>2, <1>3, <1>4, <1>5, <1>6
=============================================================================
