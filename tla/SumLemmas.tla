------------------------------ MODULE SumLemmas ------------------------------
(* Sums over finite sets, as the models take them with MapThenSumSet: stock,  *)
(* holds, order items, revenue.  The lemmas speak of the sum of a function;   *)
(* induction over a finite set goes by its smallest counterexample.           *)
EXTENDS Integers, FiniteSets, FiniteSetsExt, FiniteSetTheorems, WellFoundedInduction, TLAPS

\* The sum of f[x] over the elements x of S.
SumOf(f, S) == MapThenSumSet(LAMBDA x : f[x], S)

\* The sum over s when g has those of its subsets, as the fold works it out.
SumStep(f, s, g) ==
  IF s = {} THEN 0 ELSE LET x == CHOOSE y \in s : TRUE IN f[x] + g[s \ {x}]

\* g has the sums over the sets in D.
SumTable(g, f, D) == g = [s \in D |-> SumStep(f, s, g)]

\* g has the sums over all subsets of S.
FullTable(g, f, S) == SumTable(g, f, SUBSET S)

\* f and e have the same values on S.
AgreeOn(f, e, S) == \A x \in S : f[x] = e[x]

\* The subsets of S with n elements at most.
Level(S, n) == {t \in SUBSET S : Cardinality(t) <= n}

-----------------------------------------------------------------------------
(* Induction *)

\* A non-empty set of naturals has a least one.
LEMMA LeastNat ==
  ASSUME NEW T \in SUBSET Nat, T # {}
  PROVE  \E x \in T : \A y \in T : x <= y
<1>1. PICK x \in T : \A y \in T : ~(<<y, x>> \in OpToRel(<, Nat))
  BY NatLessThanWellFounded, WFMin
<1>2. \A y \in T : ~(y < x)
  BY <1>1 DEF OpToRel
<1> QED BY <1>2

\* What holds of the empty set, and of a set once it holds of the set without
\* any one of its elements, holds of every finite set.
LEMMA SetInduction ==
  ASSUME NEW S, IsFiniteSet(S), NEW good \in SUBSET SUBSET S, {} \in good,
         \A T \in SUBSET S : T # {} /\ (\A x \in T : T \ {x} \in good) => T \in good
  PROVE  \A T \in SUBSET S : T \in good
<1> DEFINE bad == (SUBSET S) \ good
           sizes == {Cardinality(T) : T \in bad}
<1>1. \A T \in SUBSET S : IsFiniteSet(T) /\ Cardinality(T) \in Nat
  BY FS_Subset, FS_CardinalityType
<1>2. SUFFICES ASSUME bad # {} PROVE FALSE
  OBVIOUS
<1>3. sizes \in SUBSET Nat /\ sizes # {}
  BY <1>1, <1>2
<1>4. PICK n \in sizes : \A m \in sizes : n <= m
  BY <1>3, LeastNat
<1>5. PICK T \in bad : Cardinality(T) = n
  BY <1>4
<1>6. T # {} /\ T \in SUBSET S
  BY <1>5
<1>7. ASSUME NEW x \in T PROVE T \ {x} \in good
  <2>1. Cardinality(T \ {x}) = n - 1
    BY <1>1, <1>5, <1>6, FS_RemoveElement
  <2>2. n \in Nat /\ T \ {x} \in SUBSET S
    BY <1>3, <1>6
  <2> HIDE DEF bad
  <2>3. T \ {x} \notin bad
    BY <1>4, <2>1, <2>2
  <2> QED BY <2>2, <2>3 DEF bad
<1> QED BY <1>5, <1>6, <1>7

-----------------------------------------------------------------------------
(* The fold is well defined *)

\* A step reads the sums of smaller sets only.
LEMMA StepReads ==
  ASSUME NEW f, NEW s, NEW g, NEW h, \A x \in s : g[s \ {x}] = h[s \ {x}]
  PROVE  SumStep(f, s, g) = SumStep(f, s, h)
<1>1. CASE s = {}
  BY <1>1 DEF SumStep
<1>2. CASE s # {}
  <2> DEFINE c == CHOOSE y \in s : TRUE
  <2>1. c \in s
    BY <1>2
  <2>2. SumStep(f, s, g) = f[c] + g[s \ {c}] /\ SumStep(f, s, h) = f[c] + h[s \ {c}]
    BY <1>2 DEF SumStep
  <2> HIDE DEF c
  <2> QED BY <2>1, <2>2
<1> QED BY <1>1, <1>2

\* The sums over the sets with n elements at most.
LEMMA TableUpTo ==
  ASSUME NEW S, IsFiniteSet(S), NEW f, NEW n \in Nat
  PROVE  \E g : SumTable(g, f, Level(S, n))
<1> DEFINE has(m) == \E g : SumTable(g, f, Level(S, m))
           lacking == {m \in Nat : ~has(m)}
<1>1. \A T \in SUBSET S : IsFiniteSet(T) /\ Cardinality(T) \in Nat
  BY FS_Subset, FS_CardinalityType
<1>2. has(0)
  <2> DEFINE g == [s \in Level(S, 0) |-> 0]
  <2>1. \A s \in Level(S, 0) : s = {}
    BY <1>1, FS_EmptySet DEF Level
  <2>2. \A s \in Level(S, 0) : SumStep(f, s, g) = 0
    BY <2>1 DEF SumStep
  <2>3. g = [s \in Level(S, 0) |-> SumStep(f, s, g)]
    BY <2>2
  <2> QED BY <2>3 DEF SumTable
<1>3. ASSUME NEW m \in Nat, has(m) PROVE has(m + 1)
  <2>1. PICK h : h = [s \in Level(S, m) |-> SumStep(f, s, h)]
    BY <1>3 DEF SumTable
  <2> DEFINE g == [s \in Level(S, m + 1) |-> SumStep(f, s, h)]
  <2>2. \A s \in Level(S, m) : s \in Level(S, m + 1)
    BY <1>1 DEF Level
  <2>3. \A s \in Level(S, m) : g[s] = h[s]
    BY <2>1, <2>2
  <2>4. \A s \in Level(S, m + 1) : \A x \in s : s \ {x} \in Level(S, m)
    <3> TAKE s \in Level(S, m + 1)
    <3> TAKE x \in s
    <3>1. IsFiniteSet(s) /\ Cardinality(s) \in Nat /\ s \in SUBSET S /\ Cardinality(s) <= m + 1
      BY <1>1 DEF Level
    <3>2. Cardinality(s \ {x}) = Cardinality(s) - 1
      BY <3>1, FS_RemoveElement
    <3>3. s \ {x} \in SUBSET S /\ Cardinality(s \ {x}) <= m
      BY <3>1, <3>2
    <3> QED BY <3>3 DEF Level
  <2>5. \A s \in Level(S, m + 1) : SumStep(f, s, g) = SumStep(f, s, h)
    <3> HIDE DEF g
    <3> QED BY <2>3, <2>4, StepReads
  <2>6. g = [s \in Level(S, m + 1) |-> SumStep(f, s, g)]
    BY <2>5
  <2> QED BY <2>6 DEF SumTable
<1> HIDE DEF has
<1>4. lacking = {}
  <2> SUFFICES ASSUME lacking # {} PROVE FALSE
    OBVIOUS
  <2>1. PICK m \in lacking : \A k \in lacking : m <= k
    BY LeastNat
  <2>2. m # 0 /\ m \in Nat
    BY <1>2
  <2>3. m - 1 \in Nat /\ has(m - 1)
    BY <2>1, <2>2
  <2>4. has((m - 1) + 1)
    BY <1>3, <2>3
  <2> QED BY <2>1, <2>2, <2>4
<1>5. has(n)
  BY <1>4
<1> QED BY <1>5 DEF has

\* There is a table of the sums over all subsets.
LEMMA TableExists ==
  ASSUME NEW S, IsFiniteSet(S), NEW f
  PROVE  \E g : FullTable(g, f, S)
<1>1. PICK n \in Nat : n = Cardinality(S)
  BY FS_CardinalityType
<1>2. Level(S, n) = SUBSET S
  BY <1>1, FS_Subset DEF Level
<1>3. \E g : SumTable(g, f, Level(S, n))
  BY TableUpTo
<1> QED BY <1>2, <1>3 DEF FullTable

\* The fold reads its result off a table.
LEMMA SumIsRead ==
  ASSUME NEW S, IsFiniteSet(S), NEW f
  PROVE  \E g : FullTable(g, f, S) /\ SumOf(f, S) = g[S]
<1> DEFINE G == CHOOSE g : FullTable(g, f, S)
<1>1. FullTable(G, f, S)
  BY TableExists
<1>2. SumOf(f, S) = G[S]
  BY DEF SumOf, MapThenSumSet, MapThenFoldSet, FullTable, SumTable, SumStep
<1> QED BY <1>1, <1>2

\* The tables of two functions that agree on a set agree there.
LEMMA TablesAgree ==
  ASSUME NEW S, IsFiniteSet(S), NEW T, T \subseteq S, NEW f, NEW e, AgreeOn(f, e, T),
         NEW g, FullTable(g, f, S), NEW h, FullTable(h, e, T)
  PROVE  g[T] = h[T]
<1> DEFINE good == {t \in SUBSET T : g[t] = h[t]}
<1>1. IsFiniteSet(T)
  BY FS_Subset
<1>2. /\ \A t \in SUBSET T : g[t] = IF t = {} THEN 0 ELSE LET x == CHOOSE y \in t : TRUE IN f[x] + g[t \ {x}]
      /\ \A t \in SUBSET T : h[t] = IF t = {} THEN 0 ELSE LET x == CHOOSE y \in t : TRUE IN e[x] + h[t \ {x}]
  BY DEF FullTable, SumTable, SumStep
<1>3. {} \in good
  BY <1>2
<1>4. ASSUME NEW t \in SUBSET T, t # {}, \A x \in t : t \ {x} \in good PROVE t \in good
  <2> DEFINE c == CHOOSE y \in t : TRUE
  <2>1. c \in t
    BY <1>4
  <2>2. g[t] = f[c] + g[t \ {c}] /\ h[t] = e[c] + h[t \ {c}]
    BY <1>2, <1>4
  <2> HIDE DEF c
  <2>3. g[t \ {c}] = h[t \ {c}] /\ f[c] = e[c]
    BY <1>4, <2>1 DEF AgreeOn
  <2> QED BY <2>2, <2>3
<1> HIDE DEF good
<1>5. \A t \in SUBSET T : t \in good
  <2>1. good \in SUBSET SUBSET T
    BY DEF good
  <2> QED BY <1>1, <1>3, <1>4, <2>1, SetInduction
<1> QED BY <1>5 DEF good

-----------------------------------------------------------------------------
(* What a sum is *)

\* The sum over nothing is zero.
LEMMA SumEmpty ==
  ASSUME NEW f
  PROVE  SumOf(f, {}) = 0
<1>1. PICK g : FullTable(g, f, {}) /\ SumOf(f, {}) = g[{}]
  BY FS_EmptySet, SumIsRead
<1> QED BY <1>1 DEF FullTable, SumTable, SumStep

\* The fold takes some element first.
LEMMA SumSome ==
  ASSUME NEW S, IsFiniteSet(S), NEW f, S # {}
  PROVE  \E x \in S : SumOf(f, S) = f[x] + SumOf(f, S \ {x})
<1> DEFINE c == CHOOSE y \in S : TRUE
<1>1. c \in S
  OBVIOUS
<1>2. PICK g : FullTable(g, f, S) /\ SumOf(f, S) = g[S]
  BY SumIsRead
<1>3. g[S] = f[c] + g[S \ {c}]
  BY <1>2 DEF FullTable, SumTable, SumStep
<1> HIDE DEF c
<1>4. PICK T : T = S \ {c} /\ T \subseteq S /\ IsFiniteSet(T)
  <2>1. IsFiniteSet(S \ {c}) /\ S \ {c} \subseteq S
    BY FS_Subset
  <2> QED BY <2>1
<1>5. PICK h : FullTable(h, f, T) /\ SumOf(f, T) = h[T]
  BY <1>4, SumIsRead
<1>6. g[T] = h[T]
  <2>1. AgreeOn(f, f, T)
    BY DEF AgreeOn
  <2> QED BY <1>2, <1>4, <1>5, <2>1, TablesAgree
<1> QED BY <1>1, <1>2, <1>3, <1>4, <1>5, <1>6

\* Functions that agree on the set have the same sum.
LEMMA SumSame ==
  ASSUME NEW S, IsFiniteSet(S), NEW f, NEW e, \A x \in S : f[x] = e[x]
  PROVE  SumOf(f, S) = SumOf(e, S)
<1>1. PICK g : FullTable(g, f, S) /\ SumOf(f, S) = g[S]
  BY SumIsRead
<1>2. PICK h : FullTable(h, e, S) /\ SumOf(e, S) = h[S]
  BY SumIsRead
<1>3. S \subseteq S /\ AgreeOn(f, e, S)
  BY DEF AgreeOn
<1>4. g[S] = h[S]
  BY <1>1, <1>2, <1>3, TablesAgree
<1> QED BY <1>1, <1>2, <1>4

\* A sum of integers is an integer.
LEMMA SumInt ==
  ASSUME NEW S, IsFiniteSet(S), NEW f, \A x \in S : f[x] \in Int
  PROVE  SumOf(f, S) \in Int
<1> DEFINE good == {T \in SUBSET S : SumOf(f, T) \in Int}
<1>1. {} \in good
  BY SumEmpty
<1>2. ASSUME NEW T \in SUBSET S, T # {}, \A x \in T : T \ {x} \in good PROVE T \in good
  <2>1. IsFiniteSet(T)
    BY FS_Subset
  <2>2. PICK x \in T : SumOf(f, T) = f[x] + SumOf(f, T \ {x})
    BY <1>2, <2>1, SumSome
  <2> QED BY <1>2, <2>2
<1>3. \A T \in SUBSET S : T \in good
  <2>1. good \in SUBSET SUBSET S
    OBVIOUS
  <2> HIDE DEF good
  <2> QED BY <1>1, <1>2, <2>1, SetInduction
<1> QED BY <1>3

\* Any element may be taken first.
LEMMA SumPick ==
  ASSUME NEW S, IsFiniteSet(S), NEW f, \A x \in S : f[x] \in Int, NEW z \in S
  PROVE  SumOf(f, S) = f[z] + SumOf(f, S \ {z})
<1> DEFINE good == {T \in SUBSET S : \A x \in T : SumOf(f, T) = f[x] + SumOf(f, T \ {x})}
<1>1. {} \in good
  OBVIOUS
<1>2. ASSUME NEW T \in SUBSET S, T # {}, \A x \in T : T \ {x} \in good PROVE T \in good
  <2>1. IsFiniteSet(T) /\ \A U \in SUBSET T : IsFiniteSet(U) /\ SumOf(f, U) \in Int
    <3>1. \A U \in SUBSET T : IsFiniteSet(U) /\ \A x \in U : f[x] \in Int
      BY FS_Subset
    <3> QED BY <3>1, SumInt
  <2>2. PICK c \in T : SumOf(f, T) = f[c] + SumOf(f, T \ {c})
    BY <1>2, <2>1, SumSome
  <2>3. ASSUME NEW x \in T, x # c PROVE SumOf(f, T) = f[x] + SumOf(f, T \ {x})
    <3>1. SumOf(f, T \ {c}) = f[x] + SumOf(f, (T \ {c}) \ {x})
      BY <1>2, <2>3
    <3>2. SumOf(f, T \ {x}) = f[c] + SumOf(f, (T \ {x}) \ {c})
      BY <1>2, <2>3
    <3>3. (T \ {c}) \ {x} = (T \ {x}) \ {c} /\ (T \ {c}) \ {x} \in SUBSET T
      OBVIOUS
    <3>4. PICK rest \in Int : rest = SumOf(f, (T \ {c}) \ {x})
      BY <2>1, <3>3
    <3>5. f[x] \in Int /\ f[c] \in Int
      OBVIOUS
    <3>6. /\ SumOf(f, T) = f[c] + (f[x] + rest)
          /\ SumOf(f, T \ {x}) = f[c] + rest
      BY <2>2, <3>1, <3>2, <3>3, <3>4
    <3> QED BY <3>5, <3>6
  <2> QED BY <2>2, <2>3
<1>3. \A T \in SUBSET S : T \in good
  <2>1. good \in SUBSET SUBSET S
    OBVIOUS
  <2> HIDE DEF good
  <2> QED BY <1>1, <1>2, <2>1, SetInduction
<1> QED BY <1>3

\* An element more.
LEMMA SumOneMore ==
  ASSUME NEW S, IsFiniteSet(S), NEW f, NEW z, z \notin S, \A x \in S \cup {z} : f[x] \in Int
  PROVE  SumOf(f, S \cup {z}) = f[z] + SumOf(f, S)
<1>1. IsFiniteSet(S \cup {z}) /\ (S \cup {z}) \ {z} = S
  BY FS_AddElement
<1> QED BY <1>1, SumPick

\* A function that differs in one place.
LEMMA SumChange ==
  ASSUME NEW S, IsFiniteSet(S), NEW f, NEW e, NEW z \in S,
         \A x \in S : f[x] \in Int /\ e[x] \in Int, \A x \in S \ {z} : f[x] = e[x]
  PROVE  SumOf(e, S) = SumOf(f, S) - f[z] + e[z]
<1>1. IsFiniteSet(S \ {z})
  BY FS_Subset
<1>2. SumOf(f, S \ {z}) = SumOf(e, S \ {z})
  BY <1>1, SumSame
<1>3. SumOf(f, S) = f[z] + SumOf(f, S \ {z}) /\ SumOf(e, S) = e[z] + SumOf(e, S \ {z})
  BY SumPick
<1>4. SumOf(f, S \ {z}) \in Int /\ f[z] \in Int /\ e[z] \in Int
  BY <1>1, SumInt
<1> QED BY <1>2, <1>3, <1>4

\* A sum of naturals is a natural, and none of them exceeds it.
LEMMA SumNat ==
  ASSUME NEW S, IsFiniteSet(S), NEW f, \A x \in S : f[x] \in Nat
  PROVE  SumOf(f, S) \in Nat /\ \A x \in S : f[x] <= SumOf(f, S)
<1> DEFINE good == {T \in SUBSET S : SumOf(f, T) \in Nat}
<1>1. {} \in good
  BY SumEmpty
<1>2. ASSUME NEW T \in SUBSET S, T # {}, \A x \in T : T \ {x} \in good PROVE T \in good
  <2>1. IsFiniteSet(T)
    BY FS_Subset
  <2>2. PICK x \in T : SumOf(f, T) = f[x] + SumOf(f, T \ {x})
    BY <1>2, <2>1, SumSome
  <2> QED BY <1>2, <2>2
<1>3. \A T \in SUBSET S : T \in good
  <2>1. good \in SUBSET SUBSET S
    OBVIOUS
  <2> HIDE DEF good
  <2> QED BY <1>1, <1>2, <2>1, SetInduction
<1>4. ASSUME NEW x \in S PROVE f[x] <= SumOf(f, S)
  <2>1. SumOf(f, S) = f[x] + SumOf(f, S \ {x})
    BY SumPick
  <2>2. SumOf(f, S \ {x}) \in Nat /\ f[x] \in Nat
    BY <1>3
  <2> QED BY <2>1, <2>2
<1> QED BY <1>3, <1>4

\* A sum of naturals is zero if all of them are.
LEMMA SumZero ==
  ASSUME NEW S, IsFiniteSet(S), NEW f, \A x \in S : f[x] \in Nat
  PROVE  SumOf(f, S) = 0 <=> \A x \in S : f[x] = 0
<1>1. SumOf(f, S) = 0 => \A x \in S : f[x] = 0
  BY SumNat
<1>2. ASSUME \A x \in S : f[x] = 0 PROVE SumOf(f, S) = 0
  <2> DEFINE good == {T \in SUBSET S : SumOf(f, T) = 0}
  <2>1. {} \in good
    BY SumEmpty
  <2>2. ASSUME NEW T \in SUBSET S, T # {}, \A x \in T : T \ {x} \in good PROVE T \in good
    <3>1. IsFiniteSet(T)
      BY FS_Subset
    <3>2. PICK x \in T : SumOf(f, T) = f[x] + SumOf(f, T \ {x})
      BY <2>2, <3>1, SumSome
    <3> QED BY <1>2, <2>2, <3>2
  <2>3. \A T \in SUBSET S : T \in good
    <3>1. good \in SUBSET SUBSET S
      OBVIOUS
    <3> HIDE DEF good
    <3> QED BY <2>1, <2>2, <3>1, SetInduction
  <2> QED BY <2>3
<1> QED BY <1>1, <1>2

\* Larger summands have a larger sum.
LEMMA SumMono ==
  ASSUME NEW S, IsFiniteSet(S), NEW f, NEW e, \A x \in S : f[x] \in Int /\ e[x] \in Int /\ f[x] <= e[x]
  PROVE  SumOf(f, S) <= SumOf(e, S)
<1> DEFINE good == {T \in SUBSET S : SumOf(f, T) <= SumOf(e, T)}
<1>1. {} \in good
  BY SumEmpty
<1>2. ASSUME NEW T \in SUBSET S, T # {}, \A x \in T : T \ {x} \in good PROVE T \in good
  <2>1. PICK x \in T : SumOf(f, T) = f[x] + SumOf(f, T \ {x})
    <3>1. IsFiniteSet(T)
      BY FS_Subset
    <3> QED BY <1>2, <3>1, SumSome
  <2>2. PICK R \in SUBSET S : R = T \ {x} /\ IsFiniteSet(R) /\ IsFiniteSet(T)
    <3>1. T \ {x} \in SUBSET S /\ IsFiniteSet(T \ {x}) /\ IsFiniteSet(T)
      BY FS_Subset
    <3> QED BY <3>1
  <2>3. \A y \in T : f[y] \in Int /\ e[y] \in Int
    OBVIOUS
  <2>4. SumOf(e, T) = e[x] + SumOf(e, T \ {x})
    BY <2>2, <2>3, SumPick
  <2>5. SumOf(f, R) \in Int /\ SumOf(e, R) \in Int
    BY <2>2, SumInt
  <2>6. SumOf(f, R) <= SumOf(e, R)
    BY <1>2, <2>2
  <2>7. f[x] \in Int /\ e[x] \in Int /\ f[x] <= e[x]
    OBVIOUS
  <2>8. SumOf(f, T) <= SumOf(e, T)
    BY <2>1, <2>2, <2>4, <2>5, <2>6, <2>7
  <2> QED BY <2>8
<1>3. \A T \in SUBSET S : T \in good
  <2> HIDE DEF good
  <2>1. good \in SUBSET SUBSET S
    BY DEF good
  <2> QED BY <1>1, <1>2, <2>1, SetInduction
<1> QED BY <1>3

-----------------------------------------------------------------------------
(* Sums of sums *)

\* The sum over a single element.
LEMMA SumSingle ==
  ASSUME NEW f, NEW z, f[z] \in Int
  PROVE  SumOf(f, {z}) = f[z]
<1>1. IsFiniteSet({z}) /\ {z} \ {z} = {} /\ \A x \in {z} : f[x] \in Int
  BY FS_Singleton
<1>2. SumOf(f, {z}) = f[z] + SumOf(f, {z} \ {z})
  BY <1>1, SumPick
<1>3. SumOf(f, {z} \ {z}) = 0
  BY <1>1, SumEmpty
<1> QED BY <1>2, <1>3

\* Sums add up place by place.
LEMMA SumAdd ==
  ASSUME NEW S, IsFiniteSet(S), NEW f, NEW e, NEW h,
         \A x \in S : f[x] \in Int /\ e[x] \in Int /\ h[x] = f[x] + e[x]
  PROVE  SumOf(h, S) = SumOf(f, S) + SumOf(e, S)
<1> DEFINE good == {T \in SUBSET S : SumOf(h, T) = SumOf(f, T) + SumOf(e, T)}
<1>1. {} \in good
  BY SumEmpty
<1>2. ASSUME NEW T \in SUBSET S, T # {}, \A x \in T : T \ {x} \in good PROVE T \in good
  <2>1. PICK x \in T : TRUE
    BY <1>2
  <2>2. PICK R \in SUBSET S : R = T \ {x} /\ IsFiniteSet(R) /\ IsFiniteSet(T)
    <3>1. T \ {x} \in SUBSET S /\ IsFiniteSet(T \ {x}) /\ IsFiniteSet(T)
      BY FS_Subset
    <3> QED BY <3>1
  <2>3. /\ \A y \in T : f[y] \in Int /\ e[y] \in Int /\ h[y] \in Int
        /\ \A y \in R : f[y] \in Int /\ e[y] \in Int /\ h[y] \in Int
    OBVIOUS
  <2>4. SumOf(f, R) \in Int /\ SumOf(e, R) \in Int
    BY <2>2, <2>3, SumInt
  <2>5. SumOf(f, T) = f[x] + SumOf(f, R)
    BY <2>1, <2>2, <2>3, SumPick
  <2>6. SumOf(e, T) = e[x] + SumOf(e, R)
    BY <2>1, <2>2, <2>3, SumPick
  <2>7. SumOf(h, T) = h[x] + SumOf(h, R)
    BY <2>1, <2>2, <2>3, SumPick
  <2>8. SumOf(h, R) = SumOf(f, R) + SumOf(e, R)
    BY <1>2, <2>1, <2>2
  <2>9. f[x] \in Int /\ e[x] \in Int /\ h[x] = f[x] + e[x]
    BY <2>1
  <2>10. SumOf(h, T) = SumOf(f, T) + SumOf(e, T)
    BY <2>4, <2>5, <2>6, <2>7, <2>8, <2>9
  <2> QED BY <2>10
<1>3. \A T \in SUBSET S : T \in good
  <2> HIDE DEF good
  <2>1. good \in SUBSET SUBSET S
    BY DEF good
  <2> QED BY <1>1, <1>2, <2>1, SetInduction
<1> QED BY <1>3

\* Elements that count for nothing may be left out.
LEMMA SumFilter ==
  ASSUME NEW S, IsFiniteSet(S), NEW T \in SUBSET S, NEW f, NEW e,
         \A x \in T : f[x] \in Int /\ e[x] = f[x], \A x \in S \ T : e[x] = 0
  PROVE  SumOf(e, S) = SumOf(f, T)
<1> DEFINE good == {R \in SUBSET S : SumOf(e, R) = SumOf(f, R \cap T)}
<1>1. {} \in good
  <2>1. {} \cap T = {}
    OBVIOUS
  <2> QED BY <2>1, SumEmpty
<1>2. ASSUME NEW R \in SUBSET S, R # {}, \A x \in R : R \ {x} \in good PROVE R \in good
  <2>1. IsFiniteSet(R) /\ IsFiniteSet(R \cap T)
    BY FS_Subset
  <2>2. PICK x \in R : SumOf(e, R) = e[x] + SumOf(e, R \ {x})
    BY <1>2, <2>1, SumSome
  <2>3. SumOf(e, R \ {x}) = SumOf(f, (R \ {x}) \cap T)
    BY <1>2
  <2>4. IsFiniteSet(R \ {x}) /\ \A y \in R \ {x} : e[y] \in Int
    BY FS_Subset
  <2>5. SumOf(e, R \ {x}) \in Int
    BY <2>4, SumInt
  <2>6. CASE x \in T
    <3>1. SumOf(f, R \cap T) = f[x] + SumOf(f, (R \cap T) \ {x})
      BY <2>1, <2>6, SumPick
    <3>2. (R \cap T) \ {x} = (R \ {x}) \cap T
      OBVIOUS
    <3> QED BY <2>2, <2>3, <2>6, <3>1, <3>2
  <2>7. CASE x \notin T
    <3>1. PICK U : U = (R \ {x}) \cap T /\ U = R \cap T
      <4>1. (R \ {x}) \cap T = R \cap T
        BY <2>7
      <4> QED BY <4>1
    <3>2. SumOf(e, R) = SumOf(f, U)
      BY <2>2, <2>3, <2>5, <2>7, <3>1
    <3> QED BY <3>1, <3>2
  <2> QED BY <2>6, <2>7
<1>3. \A R \in SUBSET S : R \in good
  <2> HIDE DEF good
  <2>1. good \in SUBSET SUBSET S
    BY DEF good
  <2> QED BY <1>1, <1>2, <2>1, SetInduction
<1>4. S \cap T = T
  OBVIOUS
<1> QED BY <1>3, <1>4

\* A sum over a set is the sum over a part of it and over the rest.
LEMMA SumSplit ==
  ASSUME NEW S, IsFiniteSet(S), NEW T \in SUBSET S, NEW f, \A x \in S : f[x] \in Int
  PROVE  SumOf(f, S) = SumOf(f, S \ T) + SumOf(f, T)
<1> DEFINE in == [x \in S |-> IF x \in T THEN f[x] ELSE 0]
           out == [x \in S |-> IF x \in T THEN 0 ELSE f[x]]
<1>1. /\ \A x \in T : f[x] \in Int /\ in[x] = f[x]
      /\ \A x \in S \ T : in[x] = 0
  OBVIOUS
<1>2. /\ \A x \in S \ T : f[x] \in Int /\ out[x] = f[x]
      /\ \A x \in S \ (S \ T) : out[x] = 0
  OBVIOUS
<1>3. \A x \in S : out[x] \in Int /\ in[x] \in Int /\ f[x] = out[x] + in[x]
  OBVIOUS
<1> HIDE DEF in, out
<1>4. SumOf(in, S) = SumOf(f, T)
  BY <1>1, SumFilter
<1>5. SumOf(out, S) = SumOf(f, S \ T)
  <2>1. S \ T \in SUBSET S
    OBVIOUS
  <2> QED BY <1>2, <2>1, SumFilter
<1>6. SumOf(f, S) = SumOf(out, S) + SumOf(in, S)
  BY <1>3, SumAdd
<1> QED BY <1>4, <1>5, <1>6

\* As many ones as there are elements.
LEMMA SumOfOnes ==
  ASSUME NEW S, IsFiniteSet(S), NEW f, \A x \in S : f[x] = 1
  PROVE  SumOf(f, S) = Cardinality(S)
<1> DEFINE good == {T \in SUBSET S : SumOf(f, T) = Cardinality(T)}
<1>1. {} \in good
  BY SumEmpty, FS_EmptySet
<1>2. ASSUME NEW T \in SUBSET S, T # {}, \A x \in T : T \ {x} \in good PROVE T \in good
  <2>1. IsFiniteSet(T)
    BY FS_Subset
  <2>2. PICK x \in T : SumOf(f, T) = f[x] + SumOf(f, T \ {x})
    BY <1>2, <2>1, SumSome
  <2>3. SumOf(f, T \ {x}) = Cardinality(T \ {x}) /\ f[x] = 1
    BY <1>2
  <2>4. Cardinality(T \ {x}) = Cardinality(T) - 1 /\ Cardinality(T) \in Nat
    BY <2>1, FS_RemoveElement, FS_CardinalityType
  <2> QED BY <2>2, <2>3, <2>4
<1>3. \A T \in SUBSET S : T \in good
  <2> HIDE DEF good
  <2>1. good \in SUBSET SUBSET S
    BY DEF good
  <2> QED BY <1>1, <1>2, <2>1, SetInduction
<1> QED BY <1>3

\* A table of numbers with the sums of its rows, and turned with those of its columns.
Table(S, T, g, row, turned, column) ==
  /\ \A x \in S, y \in T : g[x][y] \in Int /\ turned[y][x] = g[x][y]
  /\ \A x \in S : row[x] = SumOf(g[x], T)
  /\ \A y \in T : column[y] = SumOf(turned[y], S)

\* The rows of a table add up to what its columns add up to.
LEMMA SumSwap ==
  ASSUME NEW S, IsFiniteSet(S), NEW T, IsFiniteSet(T), NEW g, NEW row, NEW turned, NEW column,
         Table(S, T, g, row, turned, column)
  PROVE  SumOf(row, S) = SumOf(column, T)
<1>0. /\ \A x \in S, y \in T : g[x][y] \in Int /\ turned[y][x] = g[x][y]
      /\ \A x \in S : row[x] = SumOf(g[x], T)
      /\ \A y \in T : column[y] = SumOf(turned[y], S)
  BY DEF Table
<1> DEFINE part(A) == [y \in T |-> SumOf(turned[y], A)]
           good == {A \in SUBSET S : SumOf(row, A) = SumOf(part(A), T)}
<1>1. \A A \in SUBSET S : IsFiniteSet(A) /\ \A y \in T : SumOf(turned[y], A) \in Int
  <2> TAKE A \in SUBSET S
  <2>1. IsFiniteSet(A)
    BY FS_Subset
  <2>2. ASSUME NEW y \in T PROVE SumOf(turned[y], A) \in Int
    <3>1. \A x \in A : turned[y][x] \in Int
      BY <1>0
    <3> QED BY <2>1, <3>1, SumInt
  <2> QED BY <2>1, <2>2
<1>2. {} \in good
  <2>1. \A y \in T : part({})[y] = 0
    BY SumEmpty
  <2>2. SumOf(part({}), T) = 0
    <3> DEFINE none == part({})
    <3>1. \A y \in T : none[y] \in Nat /\ none[y] = 0
      BY <2>1
    <3> HIDE DEF none
    <3> QED BY <3>1, SumZero DEF none
  <2> QED BY <2>2, SumEmpty
<1>3. ASSUME NEW A \in SUBSET S, A # {}, \A x \in A : A \ {x} \in good PROVE A \in good
  <2>1. PICK x \in A : SumOf(row, A) = row[x] + SumOf(row, A \ {x})
    BY <1>1, <1>3, SumSome
  <2>2. PICK R \in SUBSET S : R = A \ {x}
    OBVIOUS
  <2>3. SumOf(row, R) = SumOf(part(R), T)
    BY <1>3, <2>2
  <2>4. ASSUME NEW y \in T PROVE /\ part(A)[y] = g[x][y] + part(R)[y]
                                 /\ g[x][y] \in Int /\ part(R)[y] \in Int
    <3>1. \A z \in A : turned[y][z] \in Int
      BY <1>0
    <3>2. SumOf(turned[y], A) = turned[y][x] + SumOf(turned[y], A \ {x})
      BY <1>1, <3>1, SumPick
    <3>3. turned[y][x] = g[x][y] /\ g[x][y] \in Int
      BY <1>0
    <3> QED BY <1>1, <2>2, <3>2, <3>3
  <2>5. SumOf(part(A), T) = SumOf(g[x], T) + SumOf(part(R), T)
    <3> DEFINE whole == part(A)
               rest == part(R)
    <3>1. \A y \in T : g[x][y] \in Int /\ rest[y] \in Int /\ whole[y] = g[x][y] + rest[y]
      BY <2>4
    <3> HIDE DEF whole, rest
    <3>2. SumOf(whole, T) = SumOf(g[x], T) + SumOf(rest, T)
      BY <3>1, SumAdd
    <3> QED BY <3>2 DEF whole, rest
  <2>6. row[x] = SumOf(g[x], T)
    BY <1>0
  <2> QED BY <2>1, <2>2, <2>3, <2>5, <2>6
<1>4. \A A \in SUBSET S : A \in good
  <2> HIDE DEF good
  <2>1. good \in SUBSET SUBSET S
    BY DEF good
  <2> QED BY <1>2, <1>3, <2>1, SetInduction
<1>5. SumOf(row, S) = SumOf(part(S), T)
  BY <1>4
<1>6. SumOf(part(S), T) = SumOf(column, T)
  <2> DEFINE whole == part(S)
  <2>1. \A y \in T : whole[y] = column[y]
    BY <1>0
  <2> HIDE DEF whole
  <2>2. SumOf(whole, T) = SumOf(column, T)
    BY <2>1, SumSame
  <2> QED BY <2>2 DEF whole
<1> QED BY <1>5, <1>6

\* Every element of S has a class in K, and c has the sum of each class.
Classes(S, K, f, class, c) ==
  /\ \A x \in S : f[x] \in Int /\ class[x] \in K
  /\ \A k \in K : c[k] = SumOf(f, {x \in S : class[x] = k})

\* A sum taken class by class.
LEMMA SumByClass ==
  ASSUME NEW S, IsFiniteSet(S), NEW K, IsFiniteSet(K), NEW f, NEW class, NEW c, Classes(S, K, f, class, c)
  PROVE  SumOf(f, S) = SumOf(c, K)
<1>0. /\ \A x \in S : f[x] \in Int /\ class[x] \in K
      /\ \A k \in K : c[k] = SumOf(f, {x \in S : class[x] = k})
  BY DEF Classes
<1> DEFINE g == [x \in S |-> [k \in K |-> IF class[x] = k THEN f[x] ELSE 0]]
           turned == [k \in K |-> [x \in S |-> IF class[x] = k THEN f[x] ELSE 0]]
<1>1. \A x \in S, k \in K : g[x][k] = turned[k][x] /\ g[x][k] \in Int
  BY <1>0
<1>2. ASSUME NEW x \in S PROVE f[x] = SumOf(g[x], K)
  <2> DEFINE own == [k \in {class[x]} |-> f[x]]
  <2>1. SumOf(g[x], K) = SumOf(own, {class[x]})
    <3>1. {class[x]} \in SUBSET K
      BY <1>0
    <3>2. \A k \in {class[x]} : own[k] \in Int /\ g[x][k] = own[k]
      BY <1>0
    <3>3. \A k \in K \ {class[x]} : g[x][k] = 0
      OBVIOUS
    <3> HIDE DEF g, own
    <3> QED BY <3>1, <3>2, <3>3, SumFilter
  <2>2. SumOf(own, {class[x]}) = f[x]
    <3>1. own[class[x]] = f[x] /\ f[x] \in Int
      BY <1>0
    <3> HIDE DEF own
    <3> QED BY <3>1, SumSingle
  <2> QED BY <2>1, <2>2
<1>3. ASSUME NEW k \in K PROVE c[k] = SumOf(turned[k], S)
  <2> DEFINE T == {x \in S : class[x] = k}
  <2>1. T \in SUBSET S
    OBVIOUS
  <2>2. /\ \A x \in T : f[x] \in Int /\ turned[k][x] = f[x]
        /\ \A x \in S \ T : turned[k][x] = 0
    BY <1>0
  <2>3. c[k] = SumOf(f, T)
    BY <1>0
  <2> HIDE DEF T, turned
  <2> QED BY <2>1, <2>2, <2>3, SumFilter
<1>4. Table(S, K, g, f, turned, c)
  <2> HIDE DEF g, turned
  <2> QED BY <1>1, <1>2, <1>3 DEF Table
<1> HIDE DEF g, turned
<1> QED BY <1>4, SumSwap

-----------------------------------------------------------------------------
(* The largest and the least of a few *)

\* The larger of two numbers.
LEMMA MaxOfTwo ==
  ASSUME NEW x \in Int, NEW y \in Int
  PROVE  Max({x, y}) = IF x >= y THEN x ELSE y
<1> DEFINE top(z) == z \in {x, y} /\ \A w \in {x, y} : z >= w
<1>1. PICK m \in Int : top(m) /\ m = IF x >= y THEN x ELSE y
  OBVIOUS
<1>2. \A z : top(z) <=> z = m
  BY <1>1
<1>3. Max({x, y}) = CHOOSE z : top(z)
  BY DEF Max
<1> HIDE DEF top
<1> QED BY <1>1, <1>2, <1>3

\* The smallest of three numbers.
LEMMA MinOfThree ==
  ASSUME NEW x \in Int, NEW y \in Int, NEW z \in Int
  PROVE  /\ Min({x, y, z}) \in {x, y, z}
         /\ Min({x, y, z}) <= x /\ Min({x, y, z}) <= y /\ Min({x, y, z}) <= z
<1>1. \E m \in {x, y, z} : \A w \in {x, y, z} : m <= w
  <2>1. CASE x <= y /\ x <= z
    BY <2>1
  <2>2. CASE y <= x /\ y <= z
    BY <2>2
  <2>3. CASE z <= x /\ z <= y
    BY <2>3
  <2> QED BY <2>1, <2>2, <2>3
<1>2. Min({x, y, z}) \in {x, y, z} /\ \A w \in {x, y, z} : Min({x, y, z}) <= w
  BY <1>1 DEF Min
<1> QED BY <1>2
=============================================================================
