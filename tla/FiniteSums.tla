----------------------------- MODULE FiniteSums -----------------------------
(***************************************************************************)
(* Facts about sums over finite sets, which count stock and money.  The     *)
(* library's induction theorems take an operator as a parameter; here the   *)
(* set of the numbers a claim holds for stands in for it.                   *)
(***************************************************************************)
EXTENDS FiniteSetsExt, FiniteSetTheorems, TLAPS

\* Induction: a set of naturals with 0 and every successor holds them all.
LEMMA Induction ==
  ASSUME NEW S, 0 \in S, \A n \in Nat : n \in S => n + 1 \in S
  PROVE  Nat \subseteq S
<1> DEFINE T == Nat \ S
<1>1. SUFFICES ASSUME T # {} PROVE FALSE
  OBVIOUS
<1>2. T \subseteq Nat /\ 0 \notin T
  OBVIOUS
<1>3. \A n \in Nat : n + 1 \in T => n \in T
  OBVIOUS
<1> HIDE DEF T
<1>4. PICK m \in T : \A n \in T : ~(<<n, m>> \in OpToRel(<, Nat))
  BY <1>1, <1>2, NatLessThanWellFounded, WFMin
<1>5. m - 1 \in Nat /\ (m - 1) + 1 = m /\ m - 1 < m
  <2>1. m \in Nat /\ m # 0
    BY <1>2
  <2> QED BY <2>1
<1>6. m - 1 \in T
  BY <1>3, <1>4, <1>5
<1>7. <<m - 1, m>> \in OpToRel(<, Nat)
  BY <1>2, <1>4, <1>5 DEF OpToRel
<1> QED BY <1>4, <1>6, <1>7

------------------------------------------------------------------------------
(* The sum of f over a set is the value of a recursive function at the set. *)

Pick(s) == CHOOSE x \in s : TRUE
Entry(f, g, s) == IF s = {} THEN 0 ELSE f[Pick(s)] + g[s \ {Pick(s)}]
Tabulates(f, g, S) == g = [s \in SUBSET S |-> Entry(f, g, s)]

\* The sum is what any such function holds for the whole set.
LEMMA SumIsTabulated ==
  ASSUME NEW f, NEW S
  PROVE  SumFunctionOnSet(f, S) = (CHOOSE g : Tabulates(f, g, S))[S]
BY DEF SumFunctionOnSet, FoldFunctionOnSet, MapThenFoldSet, Tabulates, Entry, Pick

\* For a finite set there is such a function: tabulated up to n elements, it can
\* be tabulated up to n + 1.
LEMMA TabulationExists ==
  ASSUME NEW f, NEW S, IsFiniteSet(S)
  PROVE  \E g : Tabulates(f, g, S)
<1> DEFINE Upto(n) ==
      \E g : /\ g = [s \in SUBSET S |-> g[s]]
             /\ \A s \in SUBSET S : Cardinality(s) <= n => g[s] = Entry(f, g, s)
           N == {n \in Nat : Upto(n)}
<1>1. \A s \in SUBSET S : IsFiniteSet(s) /\ Cardinality(s) \in Nat
  BY FS_Subset, FS_CardinalityType
<1>2. \A s \in SUBSET S : s # {} =>
        /\ Pick(s) \in s
        /\ s \ {Pick(s)} \in SUBSET S
        /\ Cardinality(s \ {Pick(s)}) = Cardinality(s) - 1
  BY <1>1, FS_RemoveElement DEF Pick
<1>3. Upto(0)
  <2> DEFINE g == [s \in SUBSET S |-> 0]
  <2>1. \A s \in SUBSET S : Cardinality(s) <= 0 => s = {}
    BY <1>1, FS_EmptySet
  <2>2. \A s \in SUBSET S : Cardinality(s) <= 0 => g[s] = Entry(f, g, s)
    BY <2>1 DEF Entry
  <2>3. g = [s \in SUBSET S |-> g[s]]
    OBVIOUS
  <2> HIDE DEF g
  <2> QED BY <2>2, <2>3
<1>4. ASSUME NEW n \in Nat, Upto(n)
      PROVE  Upto(n + 1)
  <2>1. PICK g : /\ g = [s \in SUBSET S |-> g[s]]
                 /\ \A s \in SUBSET S : Cardinality(s) <= n => g[s] = Entry(f, g, s)
    BY <1>4
  <2> DEFINE h == [s \in SUBSET S |-> Entry(f, g, s)]
  <2>2. \A s \in SUBSET S : Cardinality(s) <= n => h[s] = g[s]
    BY <2>1
  <2>3. ASSUME NEW s \in SUBSET S, Cardinality(s) <= n + 1
        PROVE  h[s] = Entry(f, h, s)
    <3>1. CASE s = {}
      BY <3>1 DEF Entry
    <3>2. CASE s # {}
      <4>1. s \ {Pick(s)} \in SUBSET S /\ Cardinality(s \ {Pick(s)}) <= n
        BY <3>2, <1>1, <1>2, <2>3
      <4>2. h[s \ {Pick(s)}] = g[s \ {Pick(s)}]
        BY <4>1, <2>2
      <4>3. h[s] = Entry(f, g, s)
        OBVIOUS
      <4> HIDE DEF h
      <4> QED BY <4>2, <4>3 DEF Entry
    <3> QED BY <3>1, <3>2
  <2>4. h = [s \in SUBSET S |-> h[s]]
    OBVIOUS
  <2> HIDE DEF h
  <2> QED BY <2>3, <2>4
<1>5. Cardinality(S) \in N
  <2> HIDE DEF Upto
  <2>1. 0 \in N /\ \A n \in Nat : n \in N => n + 1 \in N
    BY <1>3, <1>4
  <2> HIDE DEF N
  <2> QED BY <2>1, <1>1, Induction
<1>6. PICK g : /\ g = [s \in SUBSET S |-> g[s]]
               /\ \A s \in SUBSET S : Cardinality(s) <= Cardinality(S) => g[s] = Entry(f, g, s)
  BY <1>5
<1>7. \A s \in SUBSET S : g[s] = Entry(f, g, s)
  BY <1>6, FS_Subset
<1>8. g = [s \in SUBSET S |-> Entry(f, g, s)]
  BY <1>6, <1>7
<1> QED BY <1>8 DEF Tabulates

\* Two such functions agree wherever both are defined.
LEMMA TabulationsAgree ==
  ASSUME NEW f, NEW S, NEW T \in SUBSET S, IsFiniteSet(S),
         NEW g, Tabulates(f, g, S), NEW h, Tabulates(f, h, T)
  PROVE  \A s \in SUBSET T : g[s] = h[s]
<1> DEFINE N == {n \in Nat : \A s \in SUBSET T : Cardinality(s) = n => g[s] = h[s]}
<1>1. \A s \in SUBSET T :
        /\ s \in SUBSET S /\ IsFiniteSet(s) /\ Cardinality(s) \in Nat
        /\ s # {} => /\ s \ {Pick(s)} \in SUBSET T
                     /\ Cardinality(s \ {Pick(s)}) = Cardinality(s) - 1
  BY FS_Subset, FS_CardinalityType, FS_RemoveElement DEF Pick
<1>2. \A s \in SUBSET T : g[s] = Entry(f, g, s) /\ h[s] = Entry(f, h, s)
  BY <1>1 DEF Tabulates
<1>3. 0 \in N
  BY <1>1, <1>2, FS_EmptySet DEF Entry
<1>4. ASSUME NEW n \in Nat, n \in N
      PROVE  n + 1 \in N
  <2> SUFFICES ASSUME NEW s \in SUBSET T, Cardinality(s) = n + 1
               PROVE  g[s] = h[s]
    OBVIOUS
  <2>1. s # {}
    BY <1>1, FS_EmptySet
  <2>2. g[s \ {Pick(s)}] = h[s \ {Pick(s)}]
    BY <1>1, <1>4, <2>1
  <2> QED BY <1>2, <2>2 DEF Entry
<1>5. Nat \subseteq N
  <2> HIDE DEF N
  <2> QED BY <1>3, <1>4, Induction
<1> QED BY <1>1, <1>5

\* The sum of nothing, and the sum with one chosen element taken out.
LEMMA SumOfPicked ==
  ASSUME NEW f, NEW S, IsFiniteSet(S)
  PROVE  /\ S = {} => SumFunctionOnSet(f, S) = 0
         /\ S # {} => SumFunctionOnSet(f, S) = f[Pick(S)] + SumFunctionOnSet(f, S \ {Pick(S)})
<1> DEFINE T == S \ {Pick(S)}
           g == CHOOSE x : Tabulates(f, x, S)
           h == CHOOSE x : Tabulates(f, x, T)
<1>1. IsFiniteSet(T) /\ T \in SUBSET S
  BY FS_RemoveElement
<1>2. Tabulates(f, g, S)
  BY TabulationExists, Zenon
<1>3. Tabulates(f, h, T)
  BY <1>1, TabulationExists, Zenon
<1>4. SumFunctionOnSet(f, S) = g[S] /\ SumFunctionOnSet(f, T) = h[T]
  BY SumIsTabulated
<1> HIDE DEF g, h
<1>5. g[S] = Entry(f, g, S)
  BY <1>2 DEF Tabulates
<1>6. g[T] = h[T]
  BY <1>1, <1>2, <1>3, TabulationsAgree
<1> QED BY <1>4, <1>5, <1>6 DEF Entry

------------------------------------------------------------------------------
(* The facts to cite. *)

\* Induction over a finite set: a family of its subsets that has the empty set,
\* and with a set also the set and one more element, has them all.
LEMMA SetInduction ==
  ASSUME NEW S, IsFiniteSet(S), NEW C, {} \in C,
         \A T \in SUBSET S : \A x \in S \ T : T \in C => T \cup {x} \in C
  PROVE  S \in C
<1> DEFINE N == {n \in Nat : \A T \in SUBSET S : Cardinality(T) = n => T \in C}
<1>1. \A T \in SUBSET S : IsFiniteSet(T) /\ Cardinality(T) \in Nat
  BY FS_Subset, FS_CardinalityType
<1>2. 0 \in N
  BY <1>1, FS_EmptySet
<1>3. ASSUME NEW n \in Nat, n \in N
      PROVE  n + 1 \in N
  <2> SUFFICES ASSUME NEW T \in SUBSET S, Cardinality(T) = n + 1
               PROVE  T \in C
    OBVIOUS
  <2>1. PICK x \in T : TRUE
    BY <1>1, FS_EmptySet
  <2>2. Cardinality(T \ {x}) = n
    <3>1. IsFiniteSet(T) /\ x \in T
      BY <1>1
    <3>2. Cardinality(T \ {x}) = Cardinality(T) - 1
      BY <3>1, FS_RemoveElement
    <3> QED BY <3>2
  <2>3. T \ {x} \in C
    BY <1>3, <2>2
  <2>4. (T \ {x}) \cup {x} = T
    BY <2>1
  <2>5. x \in S \ (T \ {x}) /\ T \ {x} \in SUBSET S
    BY <2>1
  <2> QED BY <2>3, <2>4, <2>5
<1>4. Nat \subseteq N
  <2> HIDE DEF N
  <2> QED BY <1>2, <1>3, Induction
<1> QED BY <1>1, <1>4

\* A sum of integers is an integer.
LEMMA SumType ==
  ASSUME NEW S, IsFiniteSet(S), NEW f, \A x \in S : f[x] \in Int
  PROVE  \A T \in SUBSET S : SumFunctionOnSet(f, T) \in Int
<1> DEFINE N == {n \in Nat : \A T \in SUBSET S : Cardinality(T) = n => SumFunctionOnSet(f, T) \in Int}
<1>1. \A T \in SUBSET S :
        /\ IsFiniteSet(T) /\ Cardinality(T) \in Nat
        /\ T # {} => Pick(T) \in T /\ Cardinality(T \ {Pick(T)}) = Cardinality(T) - 1
  BY FS_Subset, FS_CardinalityType, FS_RemoveElement DEF Pick
<1>2. 0 \in N
  <2>1. SumFunctionOnSet(f, {}) = 0
    BY FS_EmptySet, SumOfPicked
  <2>2. \A T \in SUBSET S : Cardinality(T) = 0 => T = {}
    BY <1>1, FS_EmptySet
  <2> QED BY <2>1, <2>2
<1>3. ASSUME NEW n \in Nat, n \in N
      PROVE  n + 1 \in N
  <2> SUFFICES ASSUME NEW T \in SUBSET S, Cardinality(T) = n + 1
               PROVE  SumFunctionOnSet(f, T) \in Int
    OBVIOUS
  <2>1. T # {}
    BY <1>1, FS_EmptySet
  <2>2. f[Pick(T)] \in Int /\ SumFunctionOnSet(f, T \ {Pick(T)}) \in Int
    BY <1>1, <1>3, <2>1
  <2>3. SumFunctionOnSet(f, T) = f[Pick(T)] + SumFunctionOnSet(f, T \ {Pick(T)})
    BY <1>1, <2>1, SumOfPicked
  <2> QED BY <2>2, <2>3
<1>4. Nat \subseteq N
  <2> HIDE DEF N
  <2> QED BY <1>2, <1>3, Induction
<1> QED BY <1>1, <1>4

\* A sum of integers is an integer, whichever element is taken out first.
LEMMA SumOfElement ==
  ASSUME NEW S, IsFiniteSet(S), NEW f, \A x \in S : f[x] \in Int
  PROVE  /\ SumFunctionOnSet(f, S) \in Int
         /\ \A x \in S : SumFunctionOnSet(f, S) = f[x] + SumFunctionOnSet(f, S \ {x})
<1> DEFINE Sum(T) == SumFunctionOnSet(f, T)
           Good(T) == Sum(T) \in Int /\ \A x \in T : Sum(T) = f[x] + Sum(T \ {x})
           N == {n \in Nat : \A T \in SUBSET S : Cardinality(T) = n => Good(T)}
<1>1. \A T \in SUBSET S : IsFiniteSet(T) /\ Cardinality(T) \in Nat
  BY FS_Subset, FS_CardinalityType
<1>2. \A T \in SUBSET S :
        /\ T = {} => Sum(T) = 0
        /\ T # {} => Sum(T) = f[Pick(T)] + Sum(T \ {Pick(T)})
  BY <1>1, SumOfPicked
<1> HIDE DEF Sum
<1>3. 0 \in N
  BY <1>1, <1>2, FS_EmptySet
<1>4. ASSUME NEW n \in Nat, n \in N
      PROVE  n + 1 \in N
  <2> SUFFICES ASSUME NEW T \in SUBSET S, Cardinality(T) = n + 1
               PROVE  Good(T)
    OBVIOUS
  <2> DEFINE p == Pick(T)
  <2>1. T # {} /\ p \in T
    BY <1>1, FS_EmptySet DEF Pick
  <2> HIDE DEF p
  <2>2. \A x \in T : Cardinality(T \ {x}) = n /\ T \ {x} \in SUBSET S
    BY <1>1, FS_RemoveElement
  <2>3. \A x \in T : Good(T \ {x})
    BY <1>4, <2>2
  <2>4. Sum(T) = f[p] + Sum(T \ {p}) /\ Sum(T) \in Int
    BY <1>2, <2>1, <2>3 DEF p
  <2>5. ASSUME NEW x \in T, x # p
        PROVE  Sum(T) = f[x] + Sum(T \ {x})
    <3>1. x \in T \ {p} /\ p \in T \ {x}
      BY <2>1, <2>5
    <3> DEFINE R == (T \ {p}) \ {x}
    <3>2. Sum(T \ {p}) = f[x] + Sum(R)
      BY <2>1, <2>3, <3>1
    <3>3. Sum(T \ {x}) = f[p] + Sum(R)
      <4>1. (T \ {x}) \ {p} = R
        OBVIOUS
      <4>2. Sum(T \ {x}) = f[p] + Sum((T \ {x}) \ {p})
        BY <2>3, <3>1
      <4> QED BY <4>1, <4>2
    <3>4. Sum(R) \in Int /\ f[x] \in Int /\ f[p] \in Int
      BY <2>1, SumType DEF Sum
    <3> HIDE DEF R
    <3> QED BY <2>4, <3>2, <3>3, <3>4
  <2> QED BY <2>1, <2>4, <2>5
<1>5. Nat \subseteq N
  <2> HIDE DEF N
  <2> QED BY <1>3, <1>4, Induction
<1> QED BY <1>1, <1>5 DEF Sum

\* One more element, of a set that need not be part of a larger one.
LEMMA SumOfOneMore ==
  ASSUME NEW S, IsFiniteSet(S), NEW x, x \notin S, NEW f,
         \A y \in S \cup {x} : f[y] \in Int
  PROVE  SumFunctionOnSet(f, S \cup {x}) = SumFunctionOnSet(f, S) + f[x]
<1>1. IsFiniteSet(S \cup {x})
  BY FS_AddElement
<1>2. (S \cup {x}) \ {x} = S
  OBVIOUS
<1>3. SumFunctionOnSet(f, S \cup {x}) = f[x] + SumFunctionOnSet(f, (S \cup {x}) \ {x})
  BY <1>1, SumOfElement
<1>4. SumFunctionOnSet(f, S) \in Int /\ f[x] \in Int
  BY SumType
<1>5. SumFunctionOnSet(f, S \cup {x}) = f[x] + SumFunctionOnSet(f, S)
  BY <1>2, <1>3, Zenon
<1> QED BY <1>4, <1>5

\* The empty sum.
LEMMA SumOfNothing == \A f : SumFunctionOnSet(f, {}) = 0
BY FS_EmptySet, SumOfPicked

\* Sums grow with their terms.
LEMMA SumIsMonotone ==
  ASSUME NEW S, IsFiniteSet(S), NEW f, NEW g,
         \A x \in S : f[x] \in Int /\ g[x] \in Int /\ f[x] <= g[x]
  PROVE  SumFunctionOnSet(f, S) <= SumFunctionOnSet(g, S)
<1> DEFINE C == {T \in SUBSET S : SumFunctionOnSet(f, T) <= SumFunctionOnSet(g, T)}
<1>1. {} \in C
  BY SumOfNothing
<1>2. ASSUME NEW T \in SUBSET S, NEW x \in S \ T, T \in C
      PROVE  T \cup {x} \in C
  <2>1. IsFiniteSet(T)
    BY FS_Subset
  <2>2. /\ SumFunctionOnSet(f, T \cup {x}) = SumFunctionOnSet(f, T) + f[x]
        /\ SumFunctionOnSet(g, T \cup {x}) = SumFunctionOnSet(g, T) + g[x]
    BY <2>1, SumOfOneMore
  <2>3. /\ SumFunctionOnSet(f, T) \in Int /\ f[x] \in Int
        /\ SumFunctionOnSet(g, T) \in Int /\ g[x] \in Int
    BY SumType
  <2> QED BY <1>2, <2>2, <2>3
<1> HIDE DEF C
<1>3. S \in C
  BY <1>1, <1>2, SetInduction
<1> QED BY <1>3 DEF C

\* A sum looks at its terms only.
LEMMA SumOfEqualTerms ==
  ASSUME NEW S, IsFiniteSet(S), NEW f, NEW g, \A x \in S : f[x] \in Int /\ f[x] = g[x]
  PROVE  SumFunctionOnSet(f, S) = SumFunctionOnSet(g, S)
<1>1. SumFunctionOnSet(f, S) \in Int /\ SumFunctionOnSet(g, S) \in Int
  BY SumType
<1>2. SumFunctionOnSet(f, S) <= SumFunctionOnSet(g, S)
  BY SumIsMonotone
<1>3. SumFunctionOnSet(g, S) <= SumFunctionOnSet(f, S)
  BY SumIsMonotone
<1> QED BY <1>1, <1>2, <1>3

\* A sum of naturals is a natural number.
LEMMA SumOfNaturals ==
  ASSUME NEW S, IsFiniteSet(S), NEW f, \A x \in S : f[x] \in Nat
  PROVE  SumFunctionOnSet(f, S) \in Nat
<1> DEFINE C == {T \in SUBSET S : SumFunctionOnSet(f, T) \in Nat}
<1>1. {} \in C
  BY SumOfNothing
<1>2. ASSUME NEW T \in SUBSET S, NEW x \in S \ T, T \in C
      PROVE  T \cup {x} \in C
  <2>1. IsFiniteSet(T) /\ \A y \in T \cup {x} : f[y] \in Int
    BY FS_Subset
  <2>2. SumFunctionOnSet(f, T \cup {x}) = SumFunctionOnSet(f, T) + f[x]
    BY <2>1, SumOfOneMore
  <2> QED BY <1>2, <2>2
<1> HIDE DEF C
<1>3. S \in C
  BY <1>1, <1>2, SetInduction
<1> QED BY <1>3 DEF C

\* A sum of zeros is zero.
LEMMA SumOfZeros ==
  ASSUME NEW S, IsFiniteSet(S), NEW f, \A x \in S : f[x] = 0
  PROVE  SumFunctionOnSet(f, S) = 0
<1> DEFINE C == {T \in SUBSET S : SumFunctionOnSet(f, T) = 0}
<1>1. {} \in C
  BY SumOfNothing
<1>2. ASSUME NEW T \in SUBSET S, NEW x \in S \ T, T \in C
      PROVE  T \cup {x} \in C
  <2>1. IsFiniteSet(T) /\ \A y \in T \cup {x} : f[y] \in Int
    BY FS_Subset
  <2>2. SumFunctionOnSet(f, T \cup {x}) = SumFunctionOnSet(f, T) + f[x]
    BY <2>1, SumOfOneMore
  <2> QED BY <1>2, <2>2
<1> HIDE DEF C
<1>3. S \in C
  BY <1>1, <1>2, SetInduction
<1> QED BY <1>3 DEF C

\* More natural numbers make no smaller sum.
LEMMA SumOfMore ==
  ASSUME NEW S, IsFiniteSet(S), NEW R \in SUBSET S, NEW f, \A x \in S : f[x] \in Nat
  PROVE  SumFunctionOnSet(f, R) <= SumFunctionOnSet(f, S)
<1> DEFINE C == {T \in SUBSET (S \ R) : SumFunctionOnSet(f, R) <= SumFunctionOnSet(f, R \cup T)}
<1>1. SumFunctionOnSet(f, R) \in Int
  BY SumType
<1>2. {} \in C
  <2>1. R \cup {} = R
    OBVIOUS
  <2> QED BY <1>1, <2>1
<1>3. ASSUME NEW T \in SUBSET (S \ R), NEW x \in (S \ R) \ T, T \in C
      PROVE  T \cup {x} \in C
  <2>1. IsFiniteSet(R \cup T) /\ x \notin R \cup T /\ \A y \in (R \cup T) \cup {x} : f[y] \in Int
    BY FS_Subset
  <2>2. SumFunctionOnSet(f, (R \cup T) \cup {x}) = SumFunctionOnSet(f, R \cup T) + f[x]
    BY <2>1, SumOfOneMore
  <2>3. (R \cup T) \cup {x} = R \cup (T \cup {x})
    OBVIOUS
  <2>4. SumFunctionOnSet(f, R \cup T) \in Int /\ f[x] \in Nat
    BY SumType
  <2>5. SumFunctionOnSet(f, R \cup (T \cup {x})) = SumFunctionOnSet(f, R \cup T) + f[x]
    BY <2>2, <2>3, Zenon
  <2> QED BY <1>1, <1>3, <2>4, <2>5
<1> HIDE DEF C
<1>4. IsFiniteSet(S \ R)
  BY FS_Subset
<1>5. S \ R \in C
  BY <1>2, <1>3, <1>4, SetInduction
<1>6. R \cup (S \ R) = S
  OBVIOUS
<1> QED BY <1>5, <1>6 DEF C

\* Terms may be summed under other names.
LEMMA SumOverImage ==
  ASSUME NEW S, IsFiniteSet(S), NEW k, \A x, y \in S : k[x] = k[y] => x = y,
         NEW f, NEW g, \A x \in S : f[x] \in Int /\ f[x] = g[k[x]]
  PROVE  SumFunctionOnSet(f, S) = SumFunctionOnSet(g, {k[x] : x \in S})
<1> DEFINE Image(T) == {k[x] : x \in T}
           C == {T \in SUBSET S : /\ IsFiniteSet(Image(T))
                                  /\ SumFunctionOnSet(f, T) = SumFunctionOnSet(g, Image(T))}
<1>1. {} \in C
  <2>1. Image({}) = {}
    OBVIOUS
  <2> QED BY <2>1, SumOfNothing, FS_EmptySet
<1>2. ASSUME NEW T \in SUBSET S, NEW x \in S \ T, T \in C
      PROVE  T \cup {x} \in C
  <2>1. Image(T \cup {x}) = Image(T) \cup {k[x]} /\ k[x] \notin Image(T)
    OBVIOUS
  <2>2. IsFiniteSet(T) /\ IsFiniteSet(Image(T))
    BY <1>2, FS_Subset
  <2>3. SumFunctionOnSet(f, T \cup {x}) = SumFunctionOnSet(f, T) + f[x]
    BY <2>2, SumOfOneMore
  <2>4. \A y \in Image(T) \cup {k[x]} : g[y] \in Int
    OBVIOUS
  <2> HIDE DEF Image
  <2>5. SumFunctionOnSet(g, Image(T) \cup {k[x]}) = SumFunctionOnSet(g, Image(T)) + g[k[x]]
    <3> DEFINE I == Image(T)
               v == k[x]
    <3>1. IsFiniteSet(I) /\ v \notin I /\ \A y \in I \cup {v} : g[y] \in Int
      BY <2>1, <2>2, <2>4
    <3> HIDE DEF I, v
    <3>2. SumFunctionOnSet(g, I \cup {v}) = SumFunctionOnSet(g, I) + g[v]
      BY <3>1, SumOfOneMore
    <3> QED BY <3>2 DEF I, v
  <2>6. IsFiniteSet(Image(T) \cup {k[x]})
    BY <2>2, FS_AddElement
  <2> QED BY <1>2, <2>1, <2>3, <2>5, <2>6
<1> HIDE DEF C
<1>3. S \in C
  BY <1>1, <1>2, SetInduction
<1> QED BY <1>3 DEF C

\* The image of a finite set is finite.
LEMMA ImageIsFinite ==
  ASSUME NEW S, IsFiniteSet(S), NEW k
  PROVE  IsFiniteSet({k[x] : x \in S})
<1> DEFINE h == [x \in S |-> k[x]]
           T == {k[x] : x \in S}
<1>1. h \in Surjection(S, T)
  BY DEF Surjection
<1> HIDE DEF h, T
<1>2. IsFiniteSet(T)
  BY <1>1, FS_Surjection
<1> QED BY <1>2 DEF T

\* Every set of naturals that is not empty has a least element.
LEMMA LeastNatural ==
  ASSUME NEW S, S \subseteq Nat, S # {}
  PROVE  \E m \in S : \A n \in S : m <= n
<1> DEFINE N == {n \in Nat : (\E m \in S : m <= n) => \E m \in S : \A x \in S : m <= x}
<1>1. 0 \in N
  OBVIOUS
<1>2. ASSUME NEW n \in Nat, n \in N
      PROVE  n + 1 \in N
  <2> SUFFICES ASSUME NEW m \in S, m <= n + 1
               PROVE  \E l \in S : \A x \in S : l <= x
    OBVIOUS
  <2>1. CASE \E l \in S : l <= n
    BY <1>2, <2>1
  <2>2. CASE ~ \E l \in S : l <= n
    BY <2>2
  <2> QED BY <2>1, <2>2
<1>3. Nat \subseteq N
  <2> HIDE DEF N
  <2> QED BY <1>1, <1>2, Induction
<1>4. PICK n \in S : TRUE
  OBVIOUS
<1>5. n \in N /\ n <= n
  BY <1>3, <1>4
<1> QED BY <1>4, <1>5
==============================================================================
