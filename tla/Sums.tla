-------------------------------- MODULE Sums --------------------------------
(***************************************************************************)
(* Facts about SumFunctionOnSet of the community modules, in which the     *)
(* balances of creators are written: the sum of a function over a finite   *)
(* set.  It is a recursive function on the subsets of the set, and takes   *)
(* one element after the other in an order that CHOOSE decides.            *)
(***************************************************************************)
EXTENDS Integers, FiniteSets, Functions, WellFoundedInduction, FiniteSetTheorems, TLAPS

(***************************************************************************)
(* Induction, for sets of numbers and of subsets                           *)
(***************************************************************************)

Below == {ss \in Nat \X Nat : ss[1] < ss[2]}

LEMMA BelowWellFounded == IsWellFoundedOn(Below, Nat)
BY NatLessThanWellFounded DEF OpToRel, Below

\* A set of numbers with 0 that is closed under successor has every number.
LEMMA NumbersInduct ==
  ASSUME NEW T, T \subseteq Nat, 0 \in T, \A n \in T : n + 1 \in T
  PROVE  T = Nat
<1> SUFFICES ASSUME Nat \ T # {} PROVE FALSE
  OBVIOUS
<1>1. PICK x \in Nat \ T : \A y \in Nat \ T : ~ (<<y, x>> \in Below)
  BY BelowWellFounded, WFMin
<1>2. x \in Nat /\ x # 0 /\ x - 1 \in Nat /\ x - 1 < x
  BY <1>1
<1>3. <<x - 1, x>> \in Below
  BY <1>2, SMT DEF Below
<1>4. x - 1 \in T
  BY <1>1, <1>2, <1>3
<1> QED BY <1>1, <1>2, <1>4

\* A set that has every subset of a finite set whose parts with an element less
\* it has, has all the subsets.
LEMMA SubsetsInduct ==
  ASSUME NEW S, IsFiniteSet(S), NEW T,
         \A s \in SUBSET S : (\A x \in s : s \ {x} \in T) => s \in T
  PROVE  SUBSET S \subseteq T
<1> DEFINE Sizes == {n \in Nat : \A s \in SUBSET S : Cardinality(s) = n => s \in T}
<1>1. \A s \in SUBSET S : IsFiniteSet(s) /\ Cardinality(s) \in Nat
  BY FS_Subset, FS_CardinalityType
<1>2. 0 \in Sizes
  BY <1>1, FS_EmptySet
<1>3. ASSUME NEW n \in Sizes PROVE n + 1 \in Sizes
  <2> SUFFICES ASSUME NEW s \in SUBSET S, Cardinality(s) = n + 1 PROVE s \in T
    OBVIOUS
  <2>1. \A x \in s : Cardinality(s \ {x}) = n
    BY <1>1, FS_RemoveElement
  <2>2. \A x \in s : s \ {x} \in T
    BY <1>3, <2>1
  <2> QED BY <2>2
<1> HIDE DEF Sizes
<1>4. Sizes = Nat
  <2>1. Sizes \subseteq Nat
    BY DEF Sizes
  <2> QED BY <1>2, <1>3, <2>1, NumbersInduct
<1> QED BY <1>1, <1>4 DEF Sizes

(***************************************************************************)
(* The recursive function exists, and the sum is its value                 *)
(***************************************************************************)

Chosen(s) == CHOOSE x \in s : TRUE

\* One step of the sum: what the function adds up for s, given the smaller sets.
Added(f, s, it) == IF s = {} THEN 0 ELSE f[Chosen(s)] + it[s \ {Chosen(s)}]

Summing(f, D, it) == it = [s \in D |-> Added(f, s, it)]

LEMMA ChosenIn == \A s : s # {} => Chosen(s) \in s
BY DEF Chosen

LEMMA SummingExists ==
  ASSUME NEW f, NEW S, IsFiniteSet(S)
  PROVE  \E it : Summing(f, SUBSET S, it)
<1> DEFINE Upto(n) == {s \in SUBSET S : Cardinality(s) <= n}
           Sizes   == {n \in Nat : \E it : Summing(f, Upto(n), it)}
<1>1. \A s \in SUBSET S : IsFiniteSet(s) /\ Cardinality(s) \in Nat
  BY FS_Subset, FS_CardinalityType
<1>2. \A s \in SUBSET S : Cardinality(s) = 0 <=> s = {}
  BY <1>1, FS_EmptySet
<1>3. 0 \in Sizes
  <2>1. Upto(0) = {{}}
    BY <1>1, <1>2, FS_EmptySet
  <2>2. Summing(f, Upto(0), [s \in Upto(0) |-> 0])
    BY <2>1 DEF Summing, Added
  <2> QED BY <2>2
<1>4. ASSUME NEW n \in Sizes PROVE n + 1 \in Sizes
  <2>1. PICK it : Summing(f, Upto(n), it)
    OBVIOUS
  <2> DEFINE more == [s \in Upto(n + 1) |-> Added(f, s, it)]
  <2>2. \A s \in Upto(n) : s \in Upto(n + 1) /\ more[s] = it[s]
    BY <1>1, <2>1 DEF Summing
  <2>3. \A s \in Upto(n + 1) : s # {} => s \ {Chosen(s)} \in Upto(n)
    BY <1>1, ChosenIn, FS_RemoveElement
  <2>4. \A s \in Upto(n + 1) : Added(f, s, it) = Added(f, s, more)
    BY <2>2, <2>3 DEF Added
  <2>5. Summing(f, Upto(n + 1), more)
    BY <2>4 DEF Summing
  <2> QED BY <2>5
<1>5. Sizes = Nat
  <2> HIDE DEF Upto
  <2>1. Sizes \subseteq Nat
    OBVIOUS
  <2> HIDE DEF Sizes
  <2> QED BY <1>3, <1>4, <2>1, NumbersInduct
<1>6. Upto(Cardinality(S)) = SUBSET S
  BY <1>1, FS_Subset
<1>7. Cardinality(S) \in Sizes
  BY <1>1, <1>5
<1>8. PICK it : Summing(f, Upto(Cardinality(S)), it)
  BY <1>7
<1> HIDE DEF Upto
<1> QED BY <1>6, <1>8

\* The function whose value for S the sum is.
Iterates(f, S, it) == Summing(f, SUBSET S, it)

LEMMA SumIsValue ==
  ASSUME NEW f, NEW S, IsFiniteSet(S)
  PROVE  \E it : Iterates(f, S, it) /\ SumFunctionOnSet(f, S) = it[S]
<1>1. SumFunctionOnSet(f, S) = (CHOOSE it : Iterates(f, S, it))[S]
  BY DEF SumFunctionOnSet, FoldFunctionOnSet, MapThenFoldSet, Iterates, Summing, Added, Chosen
<1> QED BY <1>1, SummingExists DEF Iterates

\* Two such functions agree on the sets on which their summands do.
LEMMA SummingsAgree ==
  ASSUME NEW f, NEW S, NEW F, Iterates(f, S, F),
         NEW g, NEW R, NEW G, Iterates(g, R, G),
         NEW s, s \subseteq S, s \subseteq R, IsFiniteSet(s), \A x \in s : f[x] = g[x]
  PROVE  F[s] = G[s]
<1> DEFINE Agreed == {r \in SUBSET s : F[r] = G[r]}
<1>1. ASSUME NEW r \in SUBSET s, \A x \in r : r \ {x} \in Agreed PROVE r \in Agreed
  <2>1. CASE r = {}
    BY <2>1 DEF Iterates, Summing, Added
  <2>2. CASE r # {}
    <3>1. Chosen(r) \in r
      BY <2>2, ChosenIn
    <3>2. F[r] = f[Chosen(r)] + F[r \ {Chosen(r)}] /\ G[r] = g[Chosen(r)] + G[r \ {Chosen(r)}]
      BY <2>2 DEF Iterates, Summing, Added
    <3> QED BY <1>1, <3>1, <3>2
  <2> QED BY <2>1, <2>2
<1> HIDE DEF Agreed
<1>2. SUBSET s \subseteq Agreed
  BY <1>1, SubsetsInduct
<1> QED BY <1>2 DEF Agreed

\* The value of such a function for a set does not depend on the set it is for.
LEMMA SumIs ==
  ASSUME NEW f, NEW S, NEW it, Iterates(f, S, it), NEW s \in SUBSET S, IsFiniteSet(s)
  PROVE  SumFunctionOnSet(f, s) = it[s]
<1>1. PICK own : Iterates(f, s, own) /\ SumFunctionOnSet(f, s) = own[s]
  BY SumIsValue
<1>2. s \subseteq s /\ s \subseteq S /\ \A x \in s : f[x] = f[x]
  OBVIOUS
<1>3. own[s] = it[s]
  BY <1>1, <1>2, SummingsAgree
<1> QED BY <1>1, <1>3

(***************************************************************************)
(* What follows for sums                                                   *)
(***************************************************************************)

LEMMA SumEmpty ==
  ASSUME NEW f
  PROVE  SumFunctionOnSet(f, {}) = 0
<1>1. PICK it : Iterates(f, {}, it) /\ SumFunctionOnSet(f, {}) = it[{}]
  BY SumIsValue, FS_EmptySet
<1> QED BY <1>1 DEF Iterates, Summing, Added

\* The sum is of the values at the members alone.
LEMMA SumAgrees ==
  ASSUME NEW f, NEW g, NEW S, IsFiniteSet(S), \A x \in S : f[x] = g[x]
  PROVE  SumFunctionOnSet(f, S) = SumFunctionOnSet(g, S)
<1>1. PICK F : Iterates(f, S, F) /\ SumFunctionOnSet(f, S) = F[S]
  BY SumIsValue
<1>2. PICK G : Iterates(g, S, G) /\ SumFunctionOnSet(g, S) = G[S]
  BY SumIsValue
<1>3. S \subseteq S
  OBVIOUS
<1>4. F[S] = G[S]
  BY <1>1, <1>2, <1>3, SummingsAgree
<1> QED BY <1>1, <1>2, <1>4

LEMMA SummingNatural ==
  ASSUME NEW f, NEW S, IsFiniteSet(S), \A x \in S : f[x] \in Nat,
         NEW it, Iterates(f, S, it)
  PROVE  \A s \in SUBSET S : it[s] \in Nat
<1> DEFINE Natural == {s \in SUBSET S : it[s] \in Nat}
<1>1. ASSUME NEW s \in SUBSET S, \A x \in s : s \ {x} \in Natural PROVE s \in Natural
  <2>1. CASE s = {}
    BY <2>1 DEF Iterates, Summing, Added
  <2>2. CASE s # {}
    <3>1. Chosen(s) \in s
      BY <2>2, ChosenIn
    <3>2. it[s] = f[Chosen(s)] + it[s \ {Chosen(s)}]
      BY <2>2 DEF Iterates, Summing, Added
    <3> QED BY <1>1, <3>1, <3>2
  <2> QED BY <2>1, <2>2
<1> HIDE DEF Natural
<1>2. SUBSET S \subseteq Natural
  BY <1>1, SubsetsInduct
<1> QED BY <1>2 DEF Natural

\* Whatever order CHOOSE takes, any element can be taken off.
LEMMA SumSplit ==
  ASSUME NEW f, NEW S, IsFiniteSet(S), \A x \in S : f[x] \in Nat
  PROVE  /\ SumFunctionOnSet(f, S) \in Nat
         /\ \A x \in S : SumFunctionOnSet(f, S) = f[x] + SumFunctionOnSet(f, S \ {x})
<1>1. PICK it : Iterates(f, S, it) /\ SumFunctionOnSet(f, S) = it[S]
  BY SumIsValue
<1>2. \A s \in SUBSET S : it[s] \in Nat
  BY <1>1, SummingNatural
<1> DEFINE Splits == {s \in SUBSET S : \A x \in s : it[s] = f[x] + it[s \ {x}]}
<1>3. ASSUME NEW s \in SUBSET S, \A x \in s : s \ {x} \in Splits PROVE s \in Splits
  <2> SUFFICES ASSUME NEW x \in s PROVE it[s] = f[x] + it[s \ {x}]
    OBVIOUS
  <2>1. PICK c : c \in s /\ it[s] = f[c] + it[s \ {c}]
    BY <1>1, ChosenIn DEF Iterates, Summing, Added
  <2>2. CASE x = c
    BY <2>1, <2>2
  <2>3. CASE x # c
    <3>1. it[s \ {c}] = f[x] + it[(s \ {c}) \ {x}]
      BY <1>3, <2>1, <2>3
    <3>2. it[s \ {x}] = f[c] + it[(s \ {c}) \ {x}]
      <4>1. it[s \ {x}] = f[c] + it[(s \ {x}) \ {c}]
        BY <1>3, <2>1, <2>3
      <4>2. (s \ {c}) \ {x} = (s \ {x}) \ {c}
        OBVIOUS
      <4> QED BY <4>1, <4>2
    <3>3. /\ it[s \ {c}] \in Nat /\ it[s \ {x}] \in Nat /\ it[(s \ {c}) \ {x}] \in Nat
          /\ it[s] \in Nat /\ f[x] \in Nat /\ f[c] \in Nat
      BY <1>2, <2>1
    <3> QED BY <2>1, <3>1, <3>2, <3>3
  <2> QED BY <2>2, <2>3
<1> HIDE DEF Splits
<1>4. S \in Splits
  BY <1>3, SubsetsInduct
<1>5. \A x \in S : SumFunctionOnSet(f, S \ {x}) = it[S \ {x}]
  BY <1>1, SumIs, FS_Subset
<1> QED BY <1>1, <1>2, <1>4, <1>5 DEF Splits

LEMMA SumAdd ==
  ASSUME NEW f, NEW S, IsFiniteSet(S), NEW x, x \notin S, \A y \in S \cup {x} : f[y] \in Nat
  PROVE  SumFunctionOnSet(f, S \cup {x}) = f[x] + SumFunctionOnSet(f, S)
<1>1. IsFiniteSet(S \cup {x}) /\ (S \cup {x}) \ {x} = S
  BY FS_AddElement
<1> QED BY <1>1, SumSplit

\* Fewer elements sum up to no more.
LEMMA SumOfFewer ==
  ASSUME NEW f, NEW S, IsFiniteSet(S), \A x \in S : f[x] \in Nat, NEW R \in SUBSET S
  PROVE  SumFunctionOnSet(f, R) <= SumFunctionOnSet(f, S)
<1> DEFINE Less == {s \in SUBSET S : SumFunctionOnSet(f, s \cap R) <= SumFunctionOnSet(f, s)}
<1>1. \A s \in SUBSET S : IsFiniteSet(s) /\ SumFunctionOnSet(f, s) \in Nat
  BY FS_Subset, SumSplit
<1>2. ASSUME NEW s \in SUBSET S, \A x \in s : s \ {x} \in Less PROVE s \in Less
  <2>1. CASE s = {}
    <3>1. s \cap R = s
      BY <2>1
    <3> QED BY <1>1, <3>1
  <2>2. CASE s # {}
    <3>1. PICK x : x \in s
      BY <2>2
    <3>2. SumFunctionOnSet(f, s) = f[x] + SumFunctionOnSet(f, s \ {x})
      BY <1>1, <3>1, SumSplit
    <3>3. SumFunctionOnSet(f, (s \ {x}) \cap R) <= SumFunctionOnSet(f, s \ {x})
      BY <1>2, <3>1
    <3>4. CASE x \in R
      <4>1. (s \cap R) \ {x} = (s \ {x}) \cap R /\ x \in s \cap R /\ s \cap R \in SUBSET S
        BY <3>1, <3>4
      <4>2. SumFunctionOnSet(f, s \cap R) = f[x] + SumFunctionOnSet(f, (s \ {x}) \cap R)
        <5>1. SumFunctionOnSet(f, s \cap R) = f[x] + SumFunctionOnSet(f, (s \cap R) \ {x})
          BY <1>1, <4>1, SumSplit
        <5> QED BY <4>1, <5>1
      <4> QED BY <1>1, <3>1, <3>2, <3>3, <4>1, <4>2
    <3>5. CASE x \notin R
      <4>1. (s \ {x}) \cap R = s \cap R /\ s \cap R \in SUBSET S
        BY <3>1, <3>5
      <4>2. /\ SumFunctionOnSet(f, s \cap R) \in Nat /\ SumFunctionOnSet(f, s) \in Nat
            /\ SumFunctionOnSet(f, s \ {x}) \in Nat /\ f[x] \in Nat
        BY <1>1, <3>1, <4>1
      <4>3. SumFunctionOnSet(f, s \cap R) <= SumFunctionOnSet(f, s \ {x})
        BY <3>3, <4>1
      <4>4. SumFunctionOnSet(f, s \cap R) <= SumFunctionOnSet(f, s)
        BY <3>2, <4>2, <4>3
      <4> QED BY <4>4
    <3> QED BY <3>4, <3>5
  <2> QED BY <2>1, <2>2
<1> HIDE DEF Less
<1>3. S \in Less
  BY <1>2, SubsetsInduct
<1>4. S \cap R = R
  OBVIOUS
<1> QED BY <1>3, <1>4 DEF Less
=============================================================================
