-------------------------- MODULE CarlyEconomy_proofs --------------------------
(* Proofs about CarlyEconomy, for any caps, jobs, instants and number of       *)
(* handlers at a time.                                                         *)
EXTENDS CarlyEconomy, FiniteSetTheorems, TLAPS

(***************************************************************************)
(* Sums.                                                                   *)
(***************************************************************************)

\* A set of numbers, or of finite sets, that is not empty has a least member.
LEMMA LeastNumber ==
    ASSUME NEW N \in SUBSET Nat, N # {}
    PROVE  \E m \in N : \A n \in N : m <= n
<1>1. IsWellFoundedOn(OpToRel(<, Nat), Nat)
  BY NatLessThanWellFounded
<1>2. PICK m \in N : \A n \in N : ~ (<<n, m>> \in OpToRel(<, Nat))
  BY <1>1, WFMin
<1>3. \A n \in N : m <= n
  <2> TAKE n \in N
  <2>1. m \in Nat /\ n \in Nat
    OBVIOUS
  <2>2. ~(n < m)
    BY <1>2, <2>1 DEF OpToRel
  <2> QED BY <2>1, <2>2
<1> QED BY <1>3

LEMMA SmallestSet ==
    ASSUME NEW S, IsFiniteSet(S), NEW B \in SUBSET (SUBSET S), B # {}
    PROVE  \E T \in B : \A U \in B : Cardinality(T) <= Cardinality(U)
<1>1. \A U \in B : Cardinality(U) \in Nat
  BY FS_Subset, FS_CardinalityType
<1>2. PICK N : N = {Cardinality(U) : U \in B}
  OBVIOUS
<1>3. N \in SUBSET Nat /\ N # {}
  BY <1>1, <1>2
<1>4. PICK m \in N : \A n \in N : m <= n
  BY <1>3, LeastNumber
<1> QED BY <1>2, <1>4

\* Any element of a set, always the same.
Some(s) == CHOOSE x \in s : TRUE

LEMMA SomeIsElement ==
    ASSUME NEW s, s # {}
    PROVE  Some(s) \in s
BY DEF Some

\* g has the sums of f over the sets of D.
Sums(f, D, g) ==
    g = [s \in D |-> IF s = {} THEN 0 ELSE f[Some(s)] + g[s \ {Some(s)}]]

LEMMA SumsAt ==
    ASSUME NEW f, NEW D, NEW g, Sums(f, D, g), NEW s \in D
    PROVE  g[s] = IF s = {} THEN 0 ELSE f[Some(s)] + g[s \ {Some(s)}]
<1>1. PICK h : h = [t \in D |-> IF t = {} THEN 0 ELSE f[Some(t)] + g[t \ {Some(t)}]]
  OBVIOUS
<1>2. g = h
  BY <1>1 DEF Sums
<1>3. h[s] = IF s = {} THEN 0 ELSE f[Some(s)] + g[s \ {Some(s)}]
  BY <1>1
<1> QED BY <1>2, <1>3

AllSums(f, S, g) == Sums(f, SUBSET S, g)

LEMMA AllSumsAt ==
    ASSUME NEW f, NEW S, NEW g, AllSums(f, S, g), NEW s \in SUBSET S
    PROVE  g[s] = IF s = {} THEN 0 ELSE f[Some(s)] + g[s \ {Some(s)}]
BY SumsAt DEF AllSums

LEMMA SumIsAny ==
    ASSUME NEW f, NEW S
    PROVE  SumFunctionOnSet(f, S) = (CHOOSE g : Sums(f, SUBSET S, g))[S]
BY DEF SumFunctionOnSet, FoldFunctionOnSet, MapThenFoldSet, Sums, Some

LEMMA Without ==
    ASSUME NEW S, IsFiniteSet(S), NEW x \in S
    PROVE  /\ IsFiniteSet(S \ {x}) /\ Cardinality(S) \in Nat
           /\ Cardinality(S \ {x}) \in Nat /\ Cardinality(S) = Cardinality(S \ {x}) + 1
BY FS_RemoveElement, FS_CardinalityType

LEMMA SubsetWithout ==
    ASSUME NEW S, IsFiniteSet(S), NEW T \in SUBSET S, NEW x \in T
    PROVE  ~(Cardinality(T) <= Cardinality(T \ {x})) /\ T \ {x} \in SUBSET S
<1>1. IsFiniteSet(T)
  BY FS_Subset
<1>2. Cardinality(T \ {x}) \in Nat /\ Cardinality(T) = Cardinality(T \ {x}) + 1
  BY <1>1, Without
<1> QED BY <1>2

Upto(S, n) == {s \in SUBSET S : Cardinality(s) <= n}

LEMMA SumsExist ==
    ASSUME NEW S, IsFiniteSet(S), NEW f
    PROVE  \E g : AllSums(f, S, g)
<1>0. \A s \in SUBSET S : IsFiniteSet(s) /\ Cardinality(s) \in Nat
                          /\ Cardinality(s) <= Cardinality(S)
  BY FS_Subset, FS_CardinalityType
<1>1. PICK N : N = {n \in Nat : ~ \E g : Sums(f, Upto(S, n), g)}
  OBVIOUS
<1>2. CASE N = {}
  <2>1. PICK n \in Nat : n = Cardinality(S)
    BY FS_CardinalityType
  <2>2. \E g : Sums(f, Upto(S, n), g)
    BY <1>1, <1>2
  <2>3. Upto(S, n) = SUBSET S
    BY <1>0, <2>1 DEF Upto
  <2> QED BY <2>2, <2>3 DEF AllSums
<1>3. CASE N # {}
  <2>1. PICK m \in N : \A n \in N : m <= n
    BY <1>1, <1>3, LeastNumber
  <2>2. m \in Nat /\ ~ \E g : Sums(f, Upto(S, m), g)
    BY <1>1, <2>1
  <2>3. CASE m = 0
    <3>1. PICK g : g = [s \in Upto(S, 0) |-> 0]
      OBVIOUS
    <3>2. \A s \in Upto(S, 0) : s = {}
      BY <1>0, FS_EmptySet DEF Upto
    <3>3. Sums(f, Upto(S, 0), g)
      BY <3>1, <3>2 DEF Sums
    <3> QED BY <2>2, <2>3, <3>3
  <2>4. CASE m # 0
    <3>1. m - 1 \in Nat /\ m - 1 \notin N
      BY <2>1, <2>2, <2>4
    <3>2. PICK h : Sums(f, Upto(S, m - 1), h)
      BY <1>1, <3>1
    <3> DEFINE Value(s) == IF s = {} THEN 0 ELSE f[Some(s)] + h[s \ {Some(s)}]
    <3>3. PICK g : g = [s \in Upto(S, m) |-> Value(s)]
      OBVIOUS
    <3>4. \A s \in Upto(S, m - 1) : s \in Upto(S, m) /\ h[s] = Value(s)
      <4> TAKE s \in Upto(S, m - 1)
      <4>1. s \in Upto(S, m)
        BY <1>0, <2>2 DEF Upto
      <4> QED BY <3>2, <4>1, SumsAt
    <3>5. \A s \in Upto(S, m - 1) : g[s] = h[s]
      BY <3>3, <3>4
    <3>6. \A s \in Upto(S, m) : s # {} => s \ {Some(s)} \in Upto(S, m - 1)
      <4> SUFFICES ASSUME NEW s \in Upto(S, m), s # {}
                   PROVE  s \ {Some(s)} \in Upto(S, m - 1)
        OBVIOUS
      <4>1. s \in SUBSET S /\ IsFiniteSet(s) /\ Some(s) \in s /\ Cardinality(s) <= m
        BY <1>0, SomeIsElement DEF Upto
      <4>2. Cardinality(s) = Cardinality(s \ {Some(s)}) + 1
            /\ Cardinality(s \ {Some(s)}) \in Nat
        BY <4>1, Without
      <4> QED BY <2>2, <4>1, <4>2 DEF Upto
    <3>7. \A s \in Upto(S, m) :
             Value(s) = IF s = {} THEN 0 ELSE f[Some(s)] + g[s \ {Some(s)}]
      BY <3>5, <3>6
    <3>8. Sums(f, Upto(S, m), g)
      <4> HIDE DEF Value
      <4> QED BY <3>3, <3>7 DEF Sums
    <3> QED BY <2>2, <3>8
  <2> QED BY <2>3, <2>4
<1> QED BY <1>2, <1>3

LEMMA SumsKnown ==
    ASSUME NEW S, IsFiniteSet(S), NEW f
    PROVE  \E g : AllSums(f, S, g) /\ SumFunctionOnSet(f, S) = g[S]
<1>1. PICK g : g = CHOOSE h : AllSums(f, S, h)
  OBVIOUS
<1>2. AllSums(f, S, g)
  BY <1>1, SumsExist
<1>3. SumFunctionOnSet(f, S) = (CHOOSE h : AllSums(f, S, h))[S]
  BY SumIsAny DEF AllSums
<1> QED BY <1>1, <1>2, <1>3

\* A sum is independent of the order in which it is taken.
LEMMA SumsStepwise ==
    ASSUME NEW S, IsFiniteSet(S), NEW f \in [S -> Int], NEW g, AllSums(f, S, g)
    PROVE  /\ \A T \in SUBSET S : T = {} => g[T] = 0
           /\ \A T \in SUBSET S : g[T] \in Int
           /\ \A T \in SUBSET S : \A x \in T : g[T] = f[x] + g[T \ {x}]
<1>0. \A T \in SUBSET S : T = {} => g[T] = 0
  BY AllSumsAt
<1>at. ASSUME NEW T \in SUBSET S, T # {}
       PROVE  /\ Some(T) \in T /\ f[Some(T)] \in Int
              /\ g[T] = f[Some(T)] + g[T \ {Some(T)}]
  <2>1. Some(T) \in T
    BY <1>at, SomeIsElement
  <2>2. g[T] = IF T = {} THEN 0 ELSE f[Some(T)] + g[T \ {Some(T)}]
    BY AllSumsAt
  <2> QED BY <1>at, <2>1, <2>2
<1>1. \A T \in SUBSET S : g[T] \in Int
  <2>1. PICK B : B = {T \in SUBSET S : g[T] \notin Int}
    OBVIOUS
  <2> SUFFICES ASSUME B # {} PROVE FALSE
    BY <2>1
  <2>2. PICK T \in B : \A U \in B : Cardinality(T) <= Cardinality(U)
    BY <2>1, SmallestSet
  <2>3. T \in SUBSET S /\ g[T] \notin Int
    BY <2>1
  <2>t. T # {}
    BY <1>0, <2>3
  <2>4. PICK c : c = Some(T)
    OBVIOUS
  <2>5. c \in T /\ f[c] \in Int /\ g[T] = f[c] + g[T \ {c}]
    BY <1>at, <2>3, <2>t, <2>4
  <2>6. ~(Cardinality(T) <= Cardinality(T \ {c}))
    BY <2>3, <2>5, SubsetWithout
  <2>7. T \ {c} \notin B
    BY <2>2, <2>6
  <2>8. g[T \ {c}] \in Int
    BY <2>1, <2>3, <2>7
  <2> QED BY <2>3, <2>5, <2>8
<1>2. \A T \in SUBSET S : \A x \in T : g[T] = f[x] + g[T \ {x}]
  <2>1. PICK B : B = {T \in SUBSET S : \E x \in T : g[T] # f[x] + g[T \ {x}]}
    OBVIOUS
  <2> SUFFICES ASSUME B # {} PROVE FALSE
    BY <2>1
  <2>2. PICK T \in B : \A U \in B : Cardinality(T) <= Cardinality(U)
    BY <2>1, SmallestSet
  <2>3. T \in SUBSET S
    BY <2>1
  <2>4. PICK x \in T : g[T] # f[x] + g[T \ {x}]
    BY <2>1
  <2>5. PICK c : c = Some(T)
    OBVIOUS
  <2>6. c \in T /\ g[T] = f[c] + g[T \ {c}]
    BY <1>at, <2>3, <2>5
  <2>7. ASSUME NEW y \in T
        PROVE  /\ T \ {y} \in SUBSET S /\ T \ {y} \notin B
               /\ f[y] \in Int
    <3>1. ~(Cardinality(T) <= Cardinality(T \ {y}))
      BY <2>3, SubsetWithout
    <3> QED BY <2>2, <2>3, <3>1
  <2>8. x # c
    BY <2>4, <2>6
  <2>9. g[T \ {c}] = f[x] + g[(T \ {c}) \ {x}]
    BY <2>1, <2>6, <2>7, <2>8
  <2>10. g[T \ {x}] = f[c] + g[(T \ {x}) \ {c}]
    BY <2>1, <2>6, <2>7, <2>8
  <2>11. (T \ {c}) \ {x} = (T \ {x}) \ {c} /\ (T \ {c}) \ {x} \in SUBSET S
    BY <2>3
  <2>12. PICK rest \in Int : rest = g[(T \ {c}) \ {x}]
    BY <1>1, <2>11
  <2>13. PICK a \in Int, b \in Int : a = f[x] /\ b = f[c]
    BY <2>6, <2>7
  <2>14. g[T] = b + (a + rest) /\ g[T \ {x}] = b + rest
    BY <2>6, <2>9, <2>10, <2>11, <2>12, <2>13
  <2>15. g[T] # a + (b + rest)
    BY <2>4, <2>13, <2>14
  <2> QED BY <2>14, <2>15
<1> QED BY <1>0, <1>1, <1>2

LEMMA SumsAtSet ==
    ASSUME NEW S, IsFiniteSet(S), NEW f \in [S -> Int], NEW g, AllSums(f, S, g)
    PROVE  /\ g[S] \in Int
           /\ S = {} => g[S] = 0
           /\ \A x \in S : g[S] = f[x] + g[S \ {x}]
<1>1. PICK T : T = S /\ T \in SUBSET S
  OBVIOUS
<1>2. g[T] \in Int /\ (T = {} => g[T] = 0)
  BY <1>1, SumsStepwise
<1>3. \A x \in T : g[T] = f[x] + g[T \ {x}]
  BY <1>1, SumsStepwise
<1> QED BY <1>1, <1>2, <1>3

\* A sum depends on the terms only.
LEMMA SumsAgree ==
    ASSUME NEW S, IsFiniteSet(S), NEW f \in [S -> Int], NEW g, AllSums(f, S, g),
           NEW R, IsFiniteSet(R), NEW e \in [R -> Int], NEW h, AllSums(e, R, h),
           NEW U \in SUBSET (S \cap R), \A x \in U : f[x] = e[x]
    PROVE  g[U] = h[U]
<1>1. PICK B : B = {T \in SUBSET U : g[T] # h[T]}
  OBVIOUS
<1> SUFFICES ASSUME B # {} PROVE FALSE
  BY <1>1
<1>2. IsFiniteSet(U) /\ B \in SUBSET (SUBSET U)
  BY <1>1, FS_Subset
<1>3. PICK T \in B : \A V \in B : Cardinality(T) <= Cardinality(V)
  BY <1>2, SmallestSet
<1>4. T \in SUBSET U /\ g[T] # h[T] /\ T \in SUBSET S /\ T \in SUBSET R
  BY <1>1
<1>5. /\ T # {}
      /\ \A x \in T : g[T] = f[x] + g[T \ {x}] /\ h[T] = e[x] + h[T \ {x}]
  <2>1. T # {}
    <3>1. T = {} => g[T] = 0 /\ h[T] = 0
      BY <1>4, SumsStepwise
    <3> QED BY <1>4, <3>1
  <2>2. \A x \in T : g[T] = f[x] + g[T \ {x}]
    BY <1>4, SumsStepwise
  <2>3. \A x \in T : h[T] = e[x] + h[T \ {x}]
    BY <1>4, SumsStepwise
  <2> QED BY <2>1, <2>2, <2>3
<1>6. PICK x \in T : TRUE
  BY <1>4, <1>5
<1>7. T \ {x} \notin B
  <2>1. ~(Cardinality(T) <= Cardinality(T \ {x}))
    BY <1>4, SubsetWithout
  <2> QED BY <1>3, <2>1
<1>8. g[T \ {x}] = h[T \ {x}] /\ f[x] = e[x]
  BY <1>1, <1>4, <1>7
<1> QED BY <1>4, <1>5, <1>8

LEMMA SumEmpty ==
    ASSUME NEW f \in [{} -> Int]
    PROVE  SumFunction(f) = 0
<1>1. PICK S : S = {} /\ IsFiniteSet(S)
  BY FS_EmptySet
<1>2. PICK g : AllSums(f, S, g) /\ SumFunctionOnSet(f, S) = g[S]
  BY <1>1, SumsKnown
<1>3. g[S] = 0
  <2>1. f \in [S -> Int]
    BY <1>1
  <2> QED BY <1>1, <1>2, <2>1, SumsAtSet
<1> QED BY <1>1, <1>2, <1>3 DEF SumFunction

\* One more term.
LEMMA SumAdded ==
    ASSUME NEW S, IsFiniteSet(S), NEW h \in [S -> Int], NEW x, x \notin S,
           NEW f \in [S \cup {x} -> Int], \A s \in S : f[s] = h[s]
    PROVE  /\ SumFunction(f) = f[x] + SumFunction(h)
           /\ SumFunction(f) \in Int /\ SumFunction(h) \in Int
<1>1. PICK R : R = S \cup {x} /\ IsFiniteSet(R)
  BY FS_AddElement
<1>2. PICK g : AllSums(h, S, g) /\ SumFunctionOnSet(h, S) = g[S]
  BY SumsKnown
<1>3. PICK k : AllSums(f, R, k) /\ SumFunctionOnSet(f, R) = k[R]
  BY <1>1, SumsKnown
<1>5. R \ {x} = S /\ S \in SUBSET (R \cap S) /\ f \in [R -> Int] /\ x \in R
  BY <1>1
<1>4. k[R] = f[x] + k[R \ {x}] /\ k[R] \in Int
  BY <1>1, <1>3, <1>5, SumsAtSet
<1>6. k[S] = g[S]
  <2>1. \A y \in S : f[y] = h[y]
    OBVIOUS
  <2>2. PICK U : U = S
    OBVIOUS
  <2>3. U \in SUBSET (R \cap S) /\ \A y \in U : f[y] = h[y]
    BY <1>5, <2>1, <2>2
  <2>4. k[U] = g[U]
    BY <1>1, <1>2, <1>3, <1>5, <2>3, SumsAgree
  <2> QED BY <2>2, <2>4
<1>7. g[S] \in Int
  BY <1>2, SumsStepwise
<1>8. SumFunction(f) = k[R] /\ SumFunction(h) = g[S]
  BY <1>1, <1>2, <1>3 DEF SumFunction
<1> QED BY <1>4, <1>5, <1>6, <1>7, <1>8

\* A change of one term.
LEMMA SumChanged ==
    ASSUME NEW S, IsFiniteSet(S), NEW f \in [S -> Int], NEW h \in [S -> Int],
           NEW x \in S, \A s \in S \ {x} : f[s] = h[s]
    PROVE  /\ SumFunction(f) = SumFunction(h) + f[x] - h[x]
           /\ SumFunction(f) \in Int /\ SumFunction(h) \in Int
<1>1. PICK R : R = S \ {x} /\ IsFiniteSet(R)
  BY FS_RemoveElement
<1>2. PICK k : k = [s \in R |-> f[s]]
  OBVIOUS
<1>3. k \in [R -> Int] /\ x \notin R /\ R \cup {x} = S
  BY <1>1, <1>2
<1>4. (\A s \in R : f[s] = k[s]) /\ (\A s \in R : h[s] = k[s])
  BY <1>1, <1>2
<1>5. SumFunction(f) = f[x] + SumFunction(k) /\ SumFunction(f) \in Int
      /\ SumFunction(k) \in Int
  BY <1>1, <1>3, <1>4, SumAdded
<1>6. SumFunction(h) = h[x] + SumFunction(k) /\ SumFunction(h) \in Int
  BY <1>1, <1>3, <1>4, SumAdded
<1> QED BY <1>5, <1>6

\* A sum is in any set of numbers that has 0, the terms and their sums.
LEMMA SumIsAmong ==
    ASSUME NEW S, IsFiniteSet(S), NEW N \in SUBSET Int, 0 \in N,
           \A a \in N : \A b \in N : a + b \in N, NEW f \in [S -> N]
    PROVE  SumFunction(f) \in N
<1>1. PICK g : AllSums(f, S, g) /\ SumFunctionOnSet(f, S) = g[S]
  BY SumsKnown
<1>2. /\ \A T \in SUBSET S : T = {} => g[T] = 0
      /\ \A T \in SUBSET S : \A x \in T : g[T] = f[x] + g[T \ {x}]
  <2>1. f \in [S -> Int]
    OBVIOUS
  <2> QED BY <1>1, <2>1, SumsStepwise
<1>3. PICK B : B = {T \in SUBSET S : g[T] \notin N}
  OBVIOUS
<1>4. ASSUME B # {}
      PROVE  FALSE
  <2>1. PICK T \in B : \A U \in B : Cardinality(T) <= Cardinality(U)
    BY <1>3, <1>4, SmallestSet
  <2>2. T \in SUBSET S /\ g[T] \notin N
    BY <1>3
  <2>3. PICK x \in T : TRUE
    BY <1>2, <2>2
  <2>4. T \ {x} \notin B
    <3>1. ~(Cardinality(T) <= Cardinality(T \ {x}))
      BY <2>2, SubsetWithout
    <3> QED BY <2>1, <3>1
  <2>5. g[T \ {x}] \in N /\ f[x] \in N
    BY <1>3, <2>2, <2>4
  <2>6. f[x] + g[T \ {x}] \in N
    BY <2>5
  <2>7. g[T] = f[x] + g[T \ {x}]
    BY <1>2, <2>2
  <2> QED BY <2>2, <2>6, <2>7
<1>5. g[S] \in N
  BY <1>3, <1>4
<1> QED BY <1>1, <1>5 DEF SumFunction

LEMMA SumIsNat ==
    ASSUME NEW S, IsFiniteSet(S), NEW f \in [S -> Nat]
    PROVE  SumFunction(f) \in Nat
<1>1. Nat \in SUBSET Int /\ 0 \in Nat /\ \A a \in Nat : \A b \in Nat : a + b \in Nat
  OBVIOUS
<1> QED BY <1>1, SumIsAmong

LEMMA SumIsZero ==
    ASSUME NEW S, IsFiniteSet(S), NEW f \in [S -> {0}]
    PROVE  SumFunction(f) = 0
<1>1. PICK N : N = {0}
  OBVIOUS
<1>2. N \in SUBSET Int /\ 0 \in N /\ \A a \in N : \A b \in N : a + b \in N
  BY <1>1
<1>3. f \in [S -> N]
  BY <1>1
<1>4. SumFunction(f) \in N
  BY <1>2, <1>3, SumIsAmong
<1> QED BY <1>1, <1>4

(***************************************************************************)
(* Levels.                                                                 *)
(***************************************************************************)

Low(n) == {s \in Nat \X Nat : s[2] <= n}

\* g climbs from every level with at most n experience.
Climbs(n, g) ==
    g = [s \in Low(n) |->
            IF s[2] >= Threshold(s[1])
            THEN g[<<s[1] + 1, s[2] - Threshold(s[1])>>]
            ELSE s[1]]

LEMMA Thresholds ==
    ASSUME NEW l \in Nat
    PROVE  Threshold(l) \in Nat /\ Threshold(l) >= 75
           /\ \A r \in Nat : r >= Threshold(l) => r - Threshold(l) \in 0..r - 1
BY DEF Threshold

LEMMA ClimbsAt ==
    ASSUME NEW n \in Nat, NEW g, Climbs(n, g), NEW l \in Nat, NEW r \in 0..n
    PROVE  g[<<l, r>>] = IF r >= Threshold(l) THEN g[<<l + 1, r - Threshold(l)>>] ELSE l
<1>1. PICK h : h = [s \in Low(n) |->
            IF s[2] >= Threshold(s[1])
            THEN g[<<s[1] + 1, s[2] - Threshold(s[1])>>]
            ELSE s[1]]
  OBVIOUS
<1>2. g = h
  BY <1>1 DEF Climbs
<1>3. PICK s \in Low(n) : s = <<l, r>> /\ s[1] = l /\ s[2] = r
  <2>1. <<l, r>> \in Low(n)
    BY DEF Low
  <2>2. <<l, r>>[1] = l /\ <<l, r>>[2] = r
    OBVIOUS
  <2> QED BY <2>1, <2>2, Zenon
<1>4. h[s] = IF s[2] >= Threshold(s[1]) THEN g[<<s[1] + 1, s[2] - Threshold(s[1])>>]
             ELSE s[1]
  BY <1>1, <1>3
<1> QED BY <1>2, <1>3, <1>4

LEMMA ClimbsExist ==
    ASSUME NEW n \in Nat
    PROVE  \E g : Climbs(n, g)
<1>1. PICK N : N = {k \in Nat : ~ \E g : Climbs(k, g)}
  OBVIOUS
<1>2. ASSUME N # {}
      PROVE  FALSE
  <2>1. PICK m \in N : \A k \in N : m <= k
    BY <1>1, <1>2, LeastNumber
  <2>2. m \in Nat /\ ~ \E g : Climbs(m, g)
    BY <1>1, <2>1
  <2>3. PICK h : m # 0 => Climbs(m - 1, h)
    <3>1. CASE m = 0
      BY <3>1
    <3>2. CASE m # 0
      <4>1. m - 1 \in Nat /\ m - 1 \notin N
        BY <2>1, <2>2, <3>2
      <4> QED BY <1>1, <4>1
    <3> QED BY <3>1, <3>2
  <2> DEFINE Top(s) == IF s[2] >= Threshold(s[1])
                       THEN h[<<s[1] + 1, s[2] - Threshold(s[1])>>]
                       ELSE s[1]
  <2>4. PICK g : g = [s \in Low(m) |-> Top(s)]
    OBVIOUS
  <2>5. ASSUME NEW l \in Nat, NEW r \in 0..m, m # 0, r <= m - 1
        PROVE  g[<<l, r>>] = h[<<l, r>>]
    <3>1. h[<<l, r>>] = IF r >= Threshold(l) THEN h[<<l + 1, r - Threshold(l)>>] ELSE l
      <4>1. m - 1 \in Nat /\ r \in 0..m - 1
        BY <2>2, <2>5
      <4> QED BY <2>3, <2>5, <4>1, ClimbsAt
    <3>2. PICK s \in Low(m) : s = <<l, r>> /\ s[1] = l /\ s[2] = r
      <4>1. <<l, r>> \in Low(m)
        BY <2>2 DEF Low
      <4>2. <<l, r>>[1] = l /\ <<l, r>>[2] = r
        OBVIOUS
      <4> QED BY <4>1, <4>2, Zenon
    <3>3. g[s] = Top(s)
      BY <2>4
    <3> QED BY <3>1, <3>2, <3>3
  <2>6. ASSUME NEW s \in Low(m)
        PROVE  Top(s) = IF s[2] >= Threshold(s[1])
                        THEN g[<<s[1] + 1, s[2] - Threshold(s[1])>>]
                        ELSE s[1]
    <3>1. CASE s[2] >= Threshold(s[1])
      <4>1. s[1] \in Nat /\ s[2] \in Nat /\ s[2] <= m
        BY DEF Low
      <4>2. PICK l, r : l = s[1] + 1 /\ r = s[2] - Threshold(s[1])
        OBVIOUS
      <4>3. l \in Nat /\ r \in 0..s[2] - 1
        BY <3>1, <4>1, <4>2, Thresholds
      <4>4. r \in 0..m /\ m # 0 /\ r <= m - 1
        BY <2>2, <4>1, <4>3
      <4>5. g[<<l, r>>] = h[<<l, r>>]
        BY <2>5, <4>3, <4>4
      <4> QED BY <3>1, <4>2, <4>5
    <3>2. CASE ~(s[2] >= Threshold(s[1]))
      BY <3>2
    <3> QED BY <3>1, <3>2
  <2>7. Climbs(m, g)
    <3> HIDE DEF Top
    <3> QED BY <2>4, <2>6 DEF Climbs
  <2> QED BY <2>2, <2>7
<1> QED BY <1>1, <1>2

LEMMA ClimbsAgree ==
    ASSUME NEW n \in Nat, NEW g, Climbs(n, g), NEW m \in Nat, NEW h, Climbs(m, h),
           n <= m
    PROVE  \A l \in Nat, r \in 0..n : g[<<l, r>>] = h[<<l, r>>]
<1>1. PICK N : N = {r \in 0..n : \E l \in Nat : g[<<l, r>>] # h[<<l, r>>]}
  OBVIOUS
<1>2. ASSUME N # {}
      PROVE  FALSE
  <2>0. N \in SUBSET Nat
    BY <1>1
  <2>1. PICK r \in N : \A k \in N : r <= k
    BY <1>2, <2>0, LeastNumber
  <2>2. r \in 0..n /\ r \in 0..m /\ r \in Nat
    BY <1>1
  <2>3. PICK l \in Nat : g[<<l, r>>] # h[<<l, r>>]
    BY <1>1
  <2>4. g[<<l, r>>] = IF r >= Threshold(l) THEN g[<<l + 1, r - Threshold(l)>>] ELSE l
    BY <2>2, ClimbsAt
  <2>5. h[<<l, r>>] = IF r >= Threshold(l) THEN h[<<l + 1, r - Threshold(l)>>] ELSE l
    BY <2>2, ClimbsAt
  <2>6. CASE r >= Threshold(l)
    <3>1. PICK k : k = r - Threshold(l)
      OBVIOUS
    <3>2. k \in 0..r - 1
      BY <2>2, <2>6, <3>1, Thresholds
    <3>3. k \in 0..n /\ k \notin N /\ l + 1 \in Nat
      BY <2>1, <2>2, <3>2
    <3>4. g[<<l + 1, k>>] = h[<<l + 1, k>>]
      BY <1>1, <3>3
    <3> QED BY <2>3, <2>4, <2>5, <2>6, <3>1, <3>4
  <2>7. CASE ~(r >= Threshold(l))
    BY <2>3, <2>4, <2>5, <2>7
  <2> QED BY <2>6, <2>7
<1> QED BY <1>1, <1>2

\* The definition of Climb defines what it says.
LEMMA ClimbAt ==
    ASSUME NEW l \in Nat, NEW r \in Nat
    PROVE  Climb[<<l, r>>] =
              IF r >= Threshold(l) THEN Climb[<<l + 1, r - Threshold(l)>>] ELSE l
<1> DEFINE Upward(g) == g = [s \in Nat \X Nat |->
                IF s[2] >= Threshold(s[1])
                THEN g[<<s[1] + 1, s[2] - Threshold(s[1])>>]
                ELSE s[1]]
           Some0(n) == CHOOSE g : Climbs(n, g)
<1>1. \A n \in Nat : Climbs(n, Some0(n))
  BY ClimbsExist
<1>2. Climb = CHOOSE g : Upward(g)
  BY DEF Climb
<1>3. \E g : Upward(g)
  <2> HIDE DEF Some0
  <2>1. PICK g : g = [s \in Nat \X Nat |-> Some0(s[2])[s]]
    OBVIOUS
  <2>2. ASSUME NEW s \in Nat \X Nat
        PROVE  Some0(s[2])[s] = IF s[2] >= Threshold(s[1])
                       THEN g[<<s[1] + 1, s[2] - Threshold(s[1])>>]
                       ELSE s[1]
    <3>1. PICK k, n : k = s[1] /\ n = s[2] /\ k \in Nat /\ n \in Nat /\ s = <<k, n>>
      OBVIOUS
    <3>2. n \in 0..n /\ Climbs(n, Some0(n))
      BY <1>1, <3>1
    <3>3. Some0(n)[<<k, n>>] = IF n >= Threshold(k)
                               THEN Some0(n)[<<k + 1, n - Threshold(k)>>] ELSE k
      BY <3>1, <3>2, ClimbsAt
    <3>4. CASE n >= Threshold(k)
      <4>1. PICK m : m = n - Threshold(k)
        OBVIOUS
      <4>2. m \in 0..n - 1
        BY <3>1, <3>4, <4>1, Thresholds
      <4>3. m \in Nat /\ m <= n /\ k + 1 \in Nat /\ m \in 0..m
        BY <3>1, <4>2
      <4>4. Climbs(m, Some0(m))
        BY <1>1, <4>3
      <4>5. Some0(m)[<<k + 1, m>>] = Some0(n)[<<k + 1, m>>]
        BY <3>1, <3>2, <4>3, <4>4, ClimbsAgree
      <4>6. PICK t \in Nat \X Nat : t = <<k + 1, m>> /\ t[2] = m
        <5>1. <<k + 1, m>> \in Nat \X Nat
          BY <4>3
        <5>2. <<k + 1, m>>[2] = m
          OBVIOUS
        <5> QED BY <5>1, <5>2, Zenon
      <4>7. g[t] = Some0(m)[t]
        BY <2>1, <4>6
      <4> QED BY <3>1, <3>3, <3>4, <4>1, <4>5, <4>6, <4>7
    <3>5. CASE ~(n >= Threshold(k))
      BY <3>1, <3>3, <3>5
    <3> QED BY <3>4, <3>5
  <2>3. Upward(g)
    BY <2>1, <2>2
  <2> QED BY <2>3
<1>4. Upward(Climb)
  <2> HIDE DEF Upward
  <2> QED BY <1>2, <1>3
<1>5. PICK c : c = Climb
  OBVIOUS
<1>6. PICK h : h = [s \in Nat \X Nat |->
                IF s[2] >= Threshold(s[1])
                THEN c[<<s[1] + 1, s[2] - Threshold(s[1])>>]
                ELSE s[1]]
  OBVIOUS
<1>7. c = h
  BY <1>4, <1>5, <1>6
<1>8. PICK s \in Nat \X Nat : s = <<l, r>> /\ s[1] = l /\ s[2] = r
  <2>1. <<l, r>> \in Nat \X Nat
    OBVIOUS
  <2>2. <<l, r>>[1] = l /\ <<l, r>>[2] = r
    OBVIOUS
  <2> QED BY <2>1, <2>2, Zenon
<1>9. h[s] = IF s[2] >= Threshold(s[1]) THEN c[<<s[1] + 1, s[2] - Threshold(s[1])>>]
             ELSE s[1]
  BY <1>6, <1>8
<1> QED BY <1>5, <1>7, <1>8, <1>9

\* The experience at which a level begins.
Reached(l) == 100 * (l - 1) + (25 * (l - 1) * (l - 2)) \div 2

LEMMA LevelBegins ==
    /\ Reached(1) = 0
    /\ \A l \in Nat \ {0} : Reached(l) \in Int
                            /\ Reached(l + 1) = Reached(l) + Threshold(l)
<1>1. Reached(1) = 0
  BY DEF Reached
<1>2. ASSUME NEW l \in Nat, l # 0
      PROVE  Reached(l) \in Int /\ Reached(l + 1) = Reached(l) + Threshold(l)
  <2>1. PICK x \in Int : x = 25 * (l - 1) * (l - 2)
    OBVIOUS
  <2>2. 25 * ((l + 1) - 1) * ((l + 1) - 2) = x + 50 * (l - 1)
    BY <2>1
  <2>3. (x + 50 * (l - 1)) \div 2 = x \div 2 + 25 * (l - 1) /\ x \div 2 \in Int
    OBVIOUS
  <2>4. Reached(l) = 100 * (l - 1) + x \div 2
    BY <2>1 DEF Reached
  <2>5. Reached(l + 1) = 100 * l + (x \div 2 + 25 * (l - 1))
    <3>1. Reached(l + 1) = 100 * ((l + 1) - 1) + (x + 50 * (l - 1)) \div 2
      BY <2>2 DEF Reached
    <3>2. 100 * ((l + 1) - 1) = 100 * l
      OBVIOUS
    <3> QED BY <2>3, <3>1, <3>2
  <2>6. PICK y \in Int : y = x \div 2
    BY <2>3
  <2>7. Reached(l) = 100 * (l - 1) + y /\ Reached(l + 1) = 100 * l + (y + 25 * (l - 1))
    BY <2>4, <2>5, <2>6
  <2> QED BY <2>7 DEF Threshold
<1> QED BY <1>1, <1>2

\* r is what remains of the experience at level l, and c the level climbed to.
Arrives(l, r, c) ==
    c \in Nat \ {0} /\ Reached(c) - Reached(l) <= r /\ r < Reached(c + 1) - Reached(l)

LEMMA ClimbArrives ==
    ASSUME NEW l \in Nat \ {0}, NEW r \in Nat
    PROVE  Arrives(l, r, Climb[<<l, r>>])
<1>1. PICK N : N = {n \in Nat : \E k \in Nat \ {0} : ~ Arrives(k, n, Climb[<<k, n>>])}
  OBVIOUS
<1>2. ASSUME N # {}
      PROVE  FALSE
  <2>1. PICK n \in N : \A m \in N : n <= m
    BY <1>1, <1>2, LeastNumber
  <2>2. n \in Nat
    BY <1>1
  <2>3. PICK k \in Nat \ {0} : ~ Arrives(k, n, Climb[<<k, n>>])
    BY <1>1
  <2>4. Climb[<<k, n>>] =
            IF n >= Threshold(k) THEN Climb[<<k + 1, n - Threshold(k)>>] ELSE k
    BY <2>2, ClimbAt
  <2>5. PICK a \in Int, b \in Int : /\ a = Reached(k) /\ b = Reached(k + 1)
                                    /\ b = a + Threshold(k)
    <3>1. k + 1 \in Nat \ {0}
      OBVIOUS
    <3> QED BY <3>1, LevelBegins
  <2>t. Threshold(k) \in Nat
    BY Thresholds
  <2>6. CASE n >= Threshold(k)
    <3>1. PICK m : m = n - Threshold(k)
      OBVIOUS
    <3>2. m \in Nat /\ m \notin N /\ k + 1 \in Nat \ {0}
      <4>1. m \in 0..n - 1
        BY <2>2, <2>6, <3>1, Thresholds
      <4> QED BY <2>1, <2>2, <4>1
    <3>3. PICK c : c = Climb[<<k + 1, m>>]
      OBVIOUS
    <3>4. Arrives(k + 1, m, c)
      BY <1>1, <3>2, <3>3
    <3>5. c = Climb[<<k, n>>]
      BY <2>4, <2>6, <3>1, <3>3
    <3>6. c \in Nat \ {0} /\ c + 1 \in Nat \ {0}
      BY <3>4 DEF Arrives
    <3>7. Reached(c) \in Int /\ Reached(c + 1) \in Int
      BY <3>6, LevelBegins
    <3>8. Reached(c) - b <= m /\ m < Reached(c + 1) - b
      BY <2>5, <3>4 DEF Arrives
    <3>9. Reached(c) - a <= n /\ n < Reached(c + 1) - a
      BY <2>2, <2>5, <2>t, <3>1, <3>7, <3>8
    <3> QED BY <2>3, <2>5, <3>5, <3>6, <3>9 DEF Arrives
  <2>7. CASE ~(n >= Threshold(k))
    <3>1. Climb[<<k, n>>] = k
      BY <2>4, <2>7
    <3>2. a - a <= n /\ n < b - a
      BY <2>2, <2>5, <2>7, <2>t
    <3> QED BY <2>3, <2>5, <3>1, <3>2 DEF Arrives
  <2> QED BY <2>6, <2>7
<1> QED BY <1>1, <1>2

LEMMA Levels ==
    ASSUME NEW x \in Nat
    PROVE  /\ LevelState(x) \in Nat \ {0}
           /\ Reached(LevelState(x)) <= x /\ x < Reached(LevelState(x) + 1)
<1>1. PICK c : c = LevelState(x)
  OBVIOUS
<1>2. Arrives(1, x, c)
  <2>1. 1 \in Nat \ {0}
    OBVIOUS
  <2> QED BY <1>1, <2>1, ClimbArrives DEF LevelState
<1>3. c \in Nat \ {0} /\ c + 1 \in Nat \ {0}
  BY <1>2 DEF Arrives
<1>4. Reached(c) \in Int /\ Reached(c + 1) \in Int
  BY <1>3, LevelBegins
<1>5. Reached(c) <= x /\ x < Reached(c + 1)
  BY <1>2, <1>4, LevelBegins DEF Arrives
<1> QED BY <1>1, <1>3, <1>5

(***************************************************************************)
(* Bounds.                                                                 *)
(***************************************************************************)

LEMMA Greater ==
    ASSUME NEW a \in Int, NEW b \in Int
    PROVE  Max({a, b}) = IF a >= b THEN a ELSE b
<1>1. PICK m : m = IF a >= b THEN a ELSE b
  OBVIOUS
<1>2. m \in {a, b} /\ \A y \in {a, b} : m >= y
  BY <1>1
<1>3. \A x \in {a, b} : (\A y \in {a, b} : x >= y) => x = m
  BY <1>2
<1>4. Max({a, b}) = m
  BY <1>2, <1>3 DEF Max
<1> QED BY <1>1, <1>4

LEMMA Lesser ==
    ASSUME NEW a \in Int, NEW b \in Int
    PROVE  Min({a, b}) = IF a <= b THEN a ELSE b
<1>1. PICK m : m = IF a <= b THEN a ELSE b
  OBVIOUS
<1>2. m \in {a, b} /\ \A y \in {a, b} : m <= y
  BY <1>1
<1>3. \A x \in {a, b} : (\A y \in {a, b} : x <= y) => x = m
  BY <1>2
<1>4. Min({a, b}) = m
  BY <1>2, <1>3 DEF Min
<1> QED BY <1>1, <1>4

LEMMA ClampedIsBounded ==
    ASSUME NEW x \in Int
    PROVE  Clamped(x) \in 0..100
<1>1. Min({100, x}) = IF 100 <= x THEN 100 ELSE x
  BY Lesser
<1>2. PICK y \in Int : y = Min({100, x}) /\ y <= 100
  BY <1>1
<1>3. Max({0, y}) = IF 0 >= y THEN 0 ELSE y
  BY Greater
<1> QED BY <1>2, <1>3 DEF Clamped

\* A bonus stays within what is left of the day.
LEMMA BonusIsLimited ==
    ASSUME NEW bonus \in Nat, NEW available \in Int
    PROVE  /\ WithinLimit(bonus, available) \in Nat
           /\ available >= 0 => WithinLimit(bonus, available) <= available
<1>1. PICK y : y = Max({0, available})
  OBVIOUS
<1>2. y = IF 0 >= available THEN 0 ELSE available
  BY <1>1, Greater
<1>3. y \in Nat /\ (available >= 0 => y = available)
  BY <1>2
<1>4. Min({bonus, y}) = IF bonus <= y THEN bonus ELSE y
  BY <1>3, Lesser
<1> QED BY <1>1, <1>3, <1>4 DEF WithinLimit

\* A capped reward stays within what remains of the day.
LEMMA CappedIsLimited ==
    ASSUME NEW base \in Nat, NEW e \in Nat, NEW d \in Nat,
           NEW remaining \in Int
    PROVE  /\ CapReward(base, e, d, remaining) \in Nat
           /\ remaining >= 0 => CapReward(base, e, d, remaining) <= remaining
<1>1. CASE base <= 0 \/ remaining <= 0
  BY <1>1 DEF CapReward
<1>2. CASE ~(base <= 0 \/ remaining <= 0)
  <2>1. PICK s : s = IF e = 0 THEN 1 ELSE Max({1, (base * e * d) \div 10000})
    OBVIOUS
  <2>2. s \in Nat
    <3>1. PICK p \in Nat : p = base * e * d
      <4>1. base * e \in Nat
        OBVIOUS
      <4> QED BY <4>1
    <3>2. p \div 10000 \in Int
      OBVIOUS
    <3>3. PICK q \in Int : q = p \div 10000
      BY <3>2
    <3>4. Max({1, q}) = IF 1 >= q THEN 1 ELSE q
      BY Greater
    <3> QED BY <2>1, <3>1, <3>3, <3>4
  <2>3. CapReward(base, e, d, remaining) = Min({s, remaining})
    BY <1>2, <2>1 DEF CapReward
  <2>4. Min({s, remaining}) = IF s <= remaining THEN s ELSE remaining
    BY <2>2, Lesser
  <2> QED BY <1>2, <2>2, <2>3, <2>4
<1> QED BY <1>1, <1>2

LEMMA Multipliers ==
    /\ \A event : EventMultiplier(event) \in {0, 25, 50, 100}
    /\ \A current, soft, hard : DailySoftMultiplier(current, soft, hard) \in {25, 50, 100}
<1>1. ASSUME NEW event
      PROVE  EventMultiplier(event) \in {0, 25, 50, 100}
  <2>1. PICK count : count = Cardinality({r \in OfToday : r.event = event})
    OBVIOUS
  <2>2. PICK full : full = RewardRules[event].fullUntil
    OBVIOUS
  <2>3. PICK a, b, c : /\ a = (count < full)
                       /\ b = (count >= full /\ count < 2 * full)
                       /\ c = (count >= 2 * full /\ count < 4 * full)
    OBVIOUS
  <2>4. EventMultiplier(event) = CASE a -> 100 [] b -> 50 [] c -> 25 [] OTHER -> 0
    BY <2>1, <2>2, <2>3, Zenon DEF EventMultiplier
  <2> QED BY <2>4
<1>2. ASSUME NEW current, NEW soft, NEW hard
      PROVE  DailySoftMultiplier(current, soft, hard) \in {25, 50, 100}
  BY DEF DailySoftMultiplier
<1> QED BY <1>1, <1>2

(***************************************************************************)
(* Decay.                                                                  *)
(***************************************************************************)

LEMMA StepsFit ==
    ASSUME NEW since \in Nat, now \in Nat, since <= now, NEW i \in {2, 3, 4, 24}
    PROVE  /\ WholeSteps(since, i) \in Nat
           /\ since + WholeSteps(since, i) * i \in Nat
           /\ since + WholeSteps(since, i) * i <= now
<1>1. PICK d \in Nat : d = now - since
  OBVIOUS
<1>2. Max({0, d}) = IF 0 >= d THEN 0 ELSE d
  BY Greater
<1>3. Max({0, now - since}) = d
  BY <1>1, <1>2
<1>4. WholeSteps(since, i) = d \div i
  BY <1>3 DEF WholeSteps
<1>5. d \div i \in Nat /\ (d \div i) * i <= d /\ (d \div i) * i \in Nat
  <2>1. CASE i = 2
    BY <2>1
  <2>2. CASE i = 3
    BY <2>2
  <2>3. CASE i = 4
    BY <2>3
  <2>4. CASE i = 24
    BY <2>4
  <2> QED BY <2>1, <2>2, <2>3, <2>4
<1>6. PICK s : s = WholeSteps(since, i) /\ s \in Nat /\ s * i <= d /\ s * i \in Nat
  BY <1>4, <1>5
<1>7. PICK p \in Nat : p = s * i /\ p <= d
  BY <1>6
<1>8. since + p \in Nat /\ since + p <= now
  BY <1>1, <1>7
<1> QED BY <1>6, <1>7, <1>8

LEMMA Intervals ==
    \A need, sleeping : Interval(need, sleeping) \in {2, 3, 4, 24}
BY DEF Interval

\* A row as the code keeps it: its level is that of its experience.
Valid(c) ==
    /\ c \in CarlyRow
    /\ c.level = LevelState(c.experience)
    /\ \A n \in Needs : c.since[n] <= now

\* What care does not touch.
SameAccount(c, d) ==
    /\ d.level = c.level /\ d.experience = c.experience
    /\ d.streak = c.streak /\ d.lastDay = c.lastDay

LEMMA RowFields ==
    ASSUME NEW c \in CarlyRow
    PROVE  /\ c.level \in Nat \ {0} /\ c.experience \in Nat /\ c.credits \in Nat
           /\ c.inventory \in [DOMAIN FoodRules -> Nat]
           /\ c.needs \in [Needs -> 0..100] /\ c.since \in [Needs -> Nat]
           /\ c.streak \in Nat /\ c.lastDay \in Nat /\ c.sleeping \in BOOLEAN
           /\ c.until \in [DOMAIN FoodRules -> Nat] /\ c.charges \in 0..1
BY DEF CarlyRow

\* A row with needs and time stamps replaced.
WithNeeds(c, n, s) == [c EXCEPT !.needs = n, !.since = s]

LEMMA RowWithNeeds ==
    ASSUME NEW c \in CarlyRow, NEW n \in [Needs -> 0..100], NEW s \in [Needs -> Nat],
           NEW d, d = WithNeeds(c, n, s)
    PROVE  /\ d \in CarlyRow /\ d.needs = n /\ d.since = s /\ SameAccount(c, d)
           /\ d.credits = c.credits /\ d.inventory = c.inventory
           /\ d.sleeping = c.sleeping /\ d.until = c.until /\ d.charges = c.charges
BY DEF CarlyRow, SameAccount, WithNeeds

LEMMA DecayIsValid ==
    ASSUME NEW c, Valid(c), now \in Nat
    PROVE  LET d == ApplyCarlyDecay(c)
           IN  /\ Valid(d) /\ SameAccount(c, d)
               /\ d.credits = c.credits /\ d.inventory = c.inventory
               /\ d.sleeping = c.sleeping /\ d.until = c.until /\ d.charges = c.charges
<1>1. c \in CarlyRow
  BY DEF Valid
<1>2. c.needs \in [Needs -> 0..100] /\ c.since \in [Needs -> Nat]
  BY <1>1, RowFields
<1> DEFINE Steps(n) == WholeSteps(c.since[n], Interval(n, c.sleeping))
<1>3. ASSUME NEW n \in Needs
      PROVE  /\ Steps(n) \in Nat
             /\ c.since[n] + Steps(n) * Interval(n, c.sleeping) \in Nat
             /\ c.since[n] + Steps(n) * Interval(n, c.sleeping) <= now
  <2>1. c.since[n] \in Nat /\ c.since[n] <= now
    BY <1>2 DEF Valid
  <2>2. PICK i : i = Interval(n, c.sleeping) /\ i \in {2, 3, 4, 24}
    BY Intervals
  <2> QED BY <2>1, <2>2, StepsFit
<1> DEFINE Steps0 == [n \in Needs |-> WholeSteps(c.since[n], Interval(n, c.sleeping))]
           Gains(n) == n = "energy" /\ c.sleeping
           Needed(n) == Clamped(IF Gains(n) THEN c.needs[n] + Steps0[n]
                                ELSE c.needs[n] - Steps0[n])
           Stamped(n) == c.since[n] + Steps0[n] * Interval(n, c.sleeping)
<1>4. PICK f : f = [n \in Needs |-> Needed(n)]
  OBVIOUS
<1>5. PICK g : g = [n \in Needs |-> Stamped(n)]
  OBVIOUS
<1>6. ApplyCarlyDecay(c) = WithNeeds(c, f, g)
  BY <1>1, <1>4, <1>5 DEF ApplyCarlyDecay, CarlyRow, WithNeeds
<1>7. f \in [Needs -> 0..100]
  <2>1. ASSUME NEW n \in Needs
        PROVE  Needed(n) \in 0..100
    <3>1. Steps0[n] = Steps(n)
      OBVIOUS
    <3>2. c.needs[n] \in 0..100
      BY <1>2
    <3>3. PICK m \in Nat : m = Steps0[n]
      BY <1>3, <3>1
    <3>4. PICK x \in Int : x = IF Gains(n) THEN c.needs[n] + Steps0[n]
                               ELSE c.needs[n] - Steps0[n]
      BY <3>2, <3>3
    <3>5. Clamped(x) \in 0..100
      BY ClampedIsBounded
    <3> QED BY <3>4, <3>5
  <2> HIDE DEF Needed
  <2> QED BY <1>4, <2>1
<1>8. ASSUME NEW n \in Needs
      PROVE  Stamped(n) \in Nat /\ Stamped(n) <= now
  <2>1. Steps0[n] = Steps(n)
    OBVIOUS
  <2> QED BY <1>3, <2>1
<1>9. g \in [Needs -> Nat] /\ \A n \in Needs : g[n] <= now
  <2> HIDE DEF Stamped
  <2> QED BY <1>5, <1>8
<1>10. PICK d : d = WithNeeds(c, f, g)
  OBVIOUS
<1>11. /\ d \in CarlyRow /\ d.needs = f /\ d.since = g /\ SameAccount(c, d)
       /\ d.credits = c.credits /\ d.inventory = c.inventory
       /\ d.sleeping = c.sleeping /\ d.until = c.until /\ d.charges = c.charges
  BY <1>1, <1>7, <1>9, <1>10, RowWithNeeds
<1>12. d.level = LevelState(d.experience)
  BY <1>11 DEF Valid, SameAccount
<1>13. Valid(d)
  BY <1>9, <1>11, <1>12 DEF Valid
<1> QED BY <1>6, <1>10, <1>11, <1>13

(***************************************************************************)
(* The ledger.                                                             *)
(***************************************************************************)

Entry(r) ==
    r.xp \in Nat /\ r.credits \in Nat /\ r.focus \in BOOLEAN /\ r.day \in Nat

Typed(entries) == IsFiniteSet(entries) /\ \A r \in entries : Entry(r)

LEMMA SumsOfEntries ==
    ASSUME NEW E, Typed(E)
    PROVE  /\ SumXp(E) \in Nat /\ SumCredits(E) \in Nat
           /\ E = {} => SumXp(E) = 0 /\ SumCredits(E) = 0
<1>1. PICK f, g : f = [r \in E |-> r.xp] /\ g = [r \in E |-> r.credits]
  OBVIOUS
<1>2. f \in [E -> Nat] /\ g \in [E -> Nat]
  BY <1>1 DEF Typed, Entry
<1>3. SumFunction(f) \in Nat /\ SumFunction(g) \in Nat
  BY <1>2, SumIsNat DEF Typed
<1>4. ASSUME E = {}
      PROVE  SumFunction(f) = 0 /\ SumFunction(g) = 0
  <2>1. f \in [{} -> Int] /\ g \in [{} -> Int]
    BY <1>2, <1>4
  <2> QED BY <2>1, SumEmpty
<1>5. SumXp(E) = SumFunction(f) /\ SumCredits(E) = SumFunction(g)
  BY <1>1 DEF SumXp, SumCredits
<1> QED BY <1>3, <1>4, <1>5

LEMMA SumsGrow ==
    ASSUME NEW E, Typed(E), NEW e, Entry(e), e \notin E
    PROVE  /\ Typed(E \cup {e})
           /\ SumXp(E \cup {e}) = SumXp(E) + e.xp
           /\ SumCredits(E \cup {e}) = SumCredits(E) + e.credits
<1>0. PICK R : R = E \cup {e}
  OBVIOUS
<1>1. Typed(R)
  BY <1>0, FS_AddElement DEF Typed
<1>2. PICK f, g : f = [r \in E |-> r.xp] /\ g = [r \in E |-> r.credits]
  OBVIOUS
<1>3. PICK h, k : h = [r \in R |-> r.xp] /\ k = [r \in R |-> r.credits]
  OBVIOUS
<1>4. f \in [E -> Int] /\ g \in [E -> Int]
  BY <1>2 DEF Typed, Entry
<1>5. h \in [R -> Int] /\ k \in [R -> Int] /\ h[e] = e.xp /\ k[e] = e.credits
  BY <1>0, <1>1, <1>3 DEF Typed, Entry
<1>6. \A r \in E : h[r] = f[r] /\ k[r] = g[r]
  BY <1>0, <1>2, <1>3
<1>7. h \in [E \cup {e} -> Int] /\ k \in [E \cup {e} -> Int] /\ IsFiniteSet(E)
  BY <1>0, <1>5 DEF Typed
<1>8. SumFunction(h) = h[e] + SumFunction(f) /\ SumFunction(f) \in Int
  BY <1>4, <1>6, <1>7, SumAdded
<1>9. SumFunction(k) = k[e] + SumFunction(g) /\ SumFunction(g) \in Int
  BY <1>4, <1>6, <1>7, SumAdded
<1>10. /\ SumXp(E) = SumFunction(f) /\ SumCredits(E) = SumFunction(g)
       /\ SumXp(R) = SumFunction(h) /\ SumCredits(R) = SumFunction(k)
  BY <1>2, <1>3 DEF SumXp, SumCredits
<1>11. h[e] \in Int /\ k[e] \in Int
  BY <1>5 DEF Entry
<1> QED BY <1>0, <1>1, <1>5, <1>8, <1>9, <1>10, <1>11

LEMMA TypedSubset ==
    ASSUME NEW E, Typed(E), NEW F \in SUBSET E
    PROVE  Typed(F)
BY FS_Subset DEF Typed

(***************************************************************************)
(* Rewards.                                                                *)
(***************************************************************************)

\* What a day has left.
Paid == SumXp(OfToday) <= DailyXpHardCap /\ SumCredits(OfToday) <= DailyCreditHardCap

LEMMA RewardIsLimited ==
    ASSUME Typed(ledger), Paid, NEW c, NEW event,
           NEW base, base.xp \in Nat, base.credits \in Nat,
           NEW w, w = Reward(c, event, base)
    PROVE  /\ w.xp \in Nat /\ w.credits \in Nat /\ w.focus \in BOOLEAN
           /\ SumXp(OfToday) + w.xp <= DailyXpHardCap
           /\ SumCredits(OfToday) + w.credits <= DailyCreditHardCap
           /\ w.focus => HasFocus(c, event) /\ w.xp > 0
<1>1. Typed(OfToday)
  <2>1. OfToday \in SUBSET ledger
    BY DEF OfToday
  <2> QED BY <2>1, TypedSubset
<1>2. PICK x, y : x = SumXp(OfToday) /\ y = SumCredits(OfToday)
  OBVIOUS
<1>3. x \in Nat /\ y \in Nat
  BY <1>1, <1>2, SumsOfEntries
<1>4. x <= DailyXpHardCap /\ y <= DailyCreditHardCap
  BY <1>2 DEF Paid
<1>5. PICK m : m = EventMultiplier(event) /\ m \in {0, 25, 50, 100}
  BY Multipliers
<1>6. PICK s, t : /\ s = DailySoftMultiplier(x, DailyXpSoftCap, DailyXpHardCap)
                  /\ t = DailySoftMultiplier(y, DailyCreditSoftCap, DailyCreditHardCap)
                  /\ s \in {25, 50, 100} /\ t \in {25, 50, 100}
  BY Multipliers
<1>7. PICK X \in Nat, Y \in Nat : X = DailyXpHardCap - x /\ Y = DailyCreditHardCap - y
  BY <1>3, <1>4, CapsAreOrdered
<1>b. PICK bx \in Nat, bc \in Nat : bx = base.xp /\ bc = base.credits
  OBVIOUS
<1>c. X \in Int /\ Y \in Int /\ X >= 0 /\ Y >= 0
  BY <1>7
<1>8. PICK plain : plain = CapReward(bx, m, s, X) /\ plain \in Nat /\ plain <= X
  <2>1. m \in Nat /\ s \in Nat
    BY <1>5, <1>6
  <2>2. CapReward(bx, m, s, X) \in Nat /\ (X >= 0 => CapReward(bx, m, s, X) <= X)
    BY <1>b, <1>c, <2>1, CappedIsLimited
  <2> QED BY <1>c, <2>2
<1>9. PICK pay : pay = CapReward(bc, m, t, Y) /\ pay \in Nat /\ pay <= Y
  <2>1. m \in Nat /\ t \in Nat
    BY <1>5, <1>6
  <2>2. CapReward(bc, m, t, Y) \in Nat /\ (Y >= 0 => CapReward(bc, m, t, Y) <= Y)
    BY <1>b, <1>c, <2>1, CappedIsLimited
  <2> QED BY <1>c, <2>2
<1>10. PICK left \in Nat : left = X - plain
  BY <1>7, <1>8
<1> DEFINE Bonus(active, amount, used) ==
        IF active THEN WithinLimit(amount, left - used) ELSE 0
<1>11. ASSUME NEW active, NEW amount \in Nat, NEW used \in Nat, used <= left,
              NEW b, b = Bonus(active, amount, used)
       PROVE  b \in Nat /\ used + b <= left
  <2>1. left - used \in Int /\ left - used >= 0
    BY <1>10, <1>11
  <2>2. PICK l : l = WithinLimit(amount, left - used) /\ l \in Nat /\ l <= left - used
    BY <2>1, BonusIsLimited
  <2>3. used + l <= left
    BY <2>2, <1>10
  <2>4. b = IF active THEN l ELSE 0
    BY <1>11, <2>2
  <2>5. CASE active
    BY <2>2, <2>3, <2>4, <2>5
  <2>6. CASE ~active
    BY <1>11, <2>4, <2>6
  <2> QED BY <2>5, <2>6
<1>12. PICK moon : moon = Bonus(c.until["fish"] > now, 3, 0)
  OBVIOUS
<1>13. PICK focus : focus = Bonus(HasFocus(c, event), 5, moon)
  OBVIOUS
<1>14. PICK cookie : cookie = Bonus(event = "project_completed" /\ c.until["cookie"] > now,
                                    10, moon + focus)
  OBVIOUS
<1>15. PICK energy : energy = Bonus(event \in CompletionEvents /\ c.needs["energy"] >= 100,
                                    3, moon + focus + cookie)
  OBVIOUS
<1>16. w = [xp |-> plain + moon + focus + cookie + energy, credits |-> pay,
            focus |-> focus > 0]
  <2> DEFINE P == CapReward(base.xp, EventMultiplier(event),
                    DailySoftMultiplier(SumXp(OfToday), DailyXpSoftCap, DailyXpHardCap),
                    DailyXpHardCap - SumXp(OfToday))
             C == CapReward(base.credits, EventMultiplier(event),
                    DailySoftMultiplier(SumCredits(OfToday), DailyCreditSoftCap,
                                        DailyCreditHardCap),
                    DailyCreditHardCap - SumCredits(OfToday))
             L == DailyXpHardCap - SumXp(OfToday) - P
             B(active, amount, used) == IF active THEN WithinLimit(amount, L - used) ELSE 0
             B1 == B(c.until["fish"] > now, 3, 0)
             B2 == B(HasFocus(c, event), 5, B1)
             B3 == B(event = "project_completed" /\ c.until["cookie"] > now, 10, B1 + B2)
             B4 == B(event \in CompletionEvents /\ c.needs["energy"] >= 100, 3, B1 + B2 + B3)
  <2>1. w = [xp |-> P + B1 + B2 + B3 + B4, credits |-> C, focus |-> B2 > 0]
    BY DEF Reward
  <2>2. P = plain /\ C = pay
    BY <1>2, <1>5, <1>6, <1>7, <1>b, <1>8, <1>9
  <2>3. L = left
    <3> HIDE DEF P
    <3> QED BY <1>2, <1>7, <1>10, <2>2
  <2> HIDE DEF P, C, L
  <2>4. B1 = moon
    BY <1>12, <2>3
  <2> HIDE DEF B1
  <2>5. B2 = focus
    BY <1>13, <2>3, <2>4
  <2> HIDE DEF B2
  <2>6. B3 = cookie
    BY <1>14, <2>3, <2>4, <2>5
  <2> HIDE DEF B3
  <2>7. B4 = energy
    BY <1>15, <2>3, <2>4, <2>5, <2>6
  <2> HIDE DEF B4
  <2> QED BY <2>1, <2>2, <2>4, <2>5, <2>6, <2>7
<1>f. HasFocus(c, event) \/ focus = 0
  BY <1>13
<1>17. moon \in Nat /\ moon <= left /\ focus \in Nat /\ moon + focus <= left
       /\ (focus > 0 => HasFocus(c, event))
       /\ cookie \in Nat /\ moon + focus + cookie <= left
       /\ energy \in Nat /\ moon + focus + cookie + energy <= left
  <2> HIDE DEF Bonus
  <2>1. moon \in Nat /\ moon <= left
    <3>1. 0 \in Nat /\ 3 \in Nat /\ 0 <= left
      OBVIOUS
    <3>2. moon \in Nat /\ 0 + moon <= left
      BY <1>11, <1>12, <3>1
    <3> QED BY <3>2
  <2>2. focus \in Nat /\ moon + focus <= left /\ (focus > 0 => HasFocus(c, event))
    <3>1. 5 \in Nat
      OBVIOUS
    <3>2. focus \in Nat /\ moon + focus <= left
      BY <1>11, <1>13, <2>1, <3>1
    <3>3. focus > 0 => focus # 0
      BY <3>2
    <3>4. focus > 0 => HasFocus(c, event)
      BY <1>f, <3>3, Zenon
    <3> QED BY <3>2, <3>4
  <2>3. cookie \in Nat /\ moon + focus + cookie <= left
    <3>1. PICK u \in Nat : u = moon + focus /\ u <= left
      BY <2>1, <2>2
    <3>2. 10 \in Nat
      OBVIOUS
    <3>3. cookie \in Nat /\ u + cookie <= left
      BY <1>11, <1>14, <3>1, <3>2
    <3> QED BY <3>1, <3>3
  <2>4. energy \in Nat /\ moon + focus + cookie + energy <= left
    <3>1. PICK u \in Nat : u = moon + focus + cookie /\ u <= left
      BY <2>1, <2>2, <2>3
    <3>2. 3 \in Nat
      OBVIOUS
    <3>3. energy \in Nat /\ u + energy <= left
      BY <1>11, <1>15, <3>1, <3>2
    <3> QED BY <3>1, <3>3
  <2> QED BY <2>1, <2>2, <2>3, <2>4
<1>18. PICK z \in Nat : z = plain + moon + focus + cookie + energy
  BY <1>8, <1>17
<1>19. x + z <= DailyXpHardCap /\ (focus > 0 => z > 0)
  <2>1. plain + (moon + focus + cookie + energy) = z
    BY <1>8, <1>17, <1>18
  <2> QED BY <1>3, <1>7, <1>8, <1>10, <1>17, <1>18, <2>1, CapsAreOrdered
<1>20. y + pay <= DailyCreditHardCap
  BY <1>3, <1>7, <1>9, CapsAreOrdered
<1>21. w.xp = z /\ w.credits = pay /\ w.focus = (focus > 0)
  BY <1>16, <1>18
<1>22. w.focus \in BOOLEAN
  BY <1>21
<1> QED BY <1>2, <1>9, <1>17, <1>18, <1>19, <1>20, <1>21, <1>22

LEMMA TodayIsNat ==
    ASSUME now \in Nat
    PROVE  Today \in Nat
BY DEF Today, Day

\* What a reward and care leave of a row.
SameBalance(c, d) ==
    /\ d.experience = c.experience /\ d.credits = c.credits
    /\ d.streak = c.streak /\ d.lastDay = c.lastDay

WithFocus(c, n, u) == [c EXCEPT !.charges = n, !.until = u]

LEMMA RowWithFocus ==
    ASSUME NEW c \in CarlyRow, NEW n \in 0..1, NEW u \in [DOMAIN FoodRules -> Nat],
           NEW d, d = WithFocus(c, n, u)
    PROVE  /\ d \in CarlyRow /\ d.needs = c.needs /\ d.since = c.since
           /\ d.charges = n /\ d.level = c.level /\ SameBalance(c, d)
           /\ d.inventory = c.inventory /\ d.sleeping = c.sleeping
BY DEF CarlyRow, SameBalance, WithFocus

LEMMA FocusSpentIs ==
    ASSUME NEW c, Valid(c), NEW w, w.focus => c.charges > 0,
           NEW d, d = FocusSpent(c, w)
    PROVE  /\ Valid(d) /\ SameBalance(c, d) /\ d.inventory = c.inventory
           /\ d.charges = IF w.focus THEN c.charges - 1 ELSE c.charges
<1>0. c \in CarlyRow
  BY DEF Valid
<1>1. CASE w.focus
  <2>1. c.charges \in 0..1 /\ c.until \in [DOMAIN FoodRules -> Nat]
    BY <1>0, RowFields
  <2>2. PICK n : n = Max({0, c.charges - 1})
    OBVIOUS
  <2>3. n = IF 0 >= c.charges - 1 THEN 0 ELSE c.charges - 1
    BY <2>1, <2>2, Greater
  <2>4. n \in 0..1 /\ n = c.charges - 1
    BY <1>1, <2>1, <2>3
  <2>5. PICK u : u = [c.until EXCEPT !["berry"] = Never]
    OBVIOUS
  <2>6. u \in [DOMAIN FoodRules -> Nat]
    BY <2>1, <2>5 DEF Never
  <2>7. d = WithFocus(c, n, u)
    BY <1>0, <1>1, <2>2, <2>5 DEF FocusSpent, WithFocus, CarlyRow
  <2>8. /\ d \in CarlyRow /\ d.since = c.since
        /\ d.charges = n /\ d.level = c.level /\ SameBalance(c, d)
        /\ d.inventory = c.inventory
    BY <1>0, <2>4, <2>6, <2>7, RowWithFocus
  <2> QED BY <1>1, <2>4, <2>8 DEF Valid, SameBalance
<1>2. CASE ~ w.focus
  BY <1>2 DEF FocusSpent, SameBalance
<1> QED BY <1>1, <1>2

IsLeveled(c, xp, d) ==
    /\ Valid(d) /\ d.experience = c.experience + xp
    /\ d.credits = c.credits /\ d.inventory = c.inventory
    /\ d.charges = c.charges /\ d.streak = c.streak /\ d.lastDay = c.lastDay

LEMMA LeveledIs ==
    ASSUME NEW c, Valid(c), NEW xp \in Nat
    PROVE  IsLeveled(c, xp, Leveled(c, xp))
<1>0. PICK d : d = Leveled(c, xp)
  OBVIOUS
<1>1. c \in CarlyRow /\ c.experience \in Nat
  BY RowFields DEF Valid
<1>2. PICK x \in Nat : x = c.experience + xp
  BY <1>1
<1>3. PICK l : l = LevelState(x) /\ l \in Nat \ {0}
  BY Levels
<1>4. d = [c EXCEPT !.level = l, !.experience = x]
  BY <1>0, <1>1, <1>2, <1>3 DEF Leveled, CarlyRow
<1>5. /\ d \in CarlyRow /\ d.level = l /\ d.experience = x /\ d.since = c.since
      /\ d.credits = c.credits /\ d.inventory = c.inventory
      /\ d.charges = c.charges /\ d.streak = c.streak /\ d.lastDay = c.lastDay
  BY <1>1, <1>3, <1>4 DEF CarlyRow
<1> QED BY <1>0, <1>2, <1>3, <1>5 DEF Valid, IsLeveled

LEMMA PaidIs ==
    ASSUME NEW c, Valid(c), NEW n \in Nat, NEW d, d = [c EXCEPT !.credits = @ + n]
    PROVE  /\ Valid(d) /\ d.credits = c.credits + n
           /\ d.experience = c.experience /\ d.inventory = c.inventory
           /\ d.charges = c.charges /\ d.streak = c.streak /\ d.lastDay = c.lastDay
<1>1. c \in CarlyRow /\ c.credits \in Nat
  BY RowFields DEF Valid
<1>2. PICK x \in Nat : x = c.credits + n
  BY <1>1
<1>3. d = [c EXCEPT !.credits = x]
  BY <1>1, <1>2 DEF CarlyRow
<1>4. /\ d \in CarlyRow /\ d.level = c.level /\ d.experience = c.experience
      /\ d.since = c.since /\ d.credits = x /\ d.inventory = c.inventory
      /\ d.charges = c.charges /\ d.streak = c.streak /\ d.lastDay = c.lastDay
  BY <1>1, <1>3 DEF CarlyRow
<1> QED BY <1>2, <1>4 DEF Valid

Cheers(c, n, s, k, t) ==
    [c EXCEPT !.streak = k, !.lastDay = t, !.needs = n, !.sleeping = FALSE, !.since = s]

IsCheered(c, s, k, t, d) ==
    /\ d \in CarlyRow /\ d.level = c.level /\ d.experience = c.experience
    /\ d.since = s /\ d.credits = c.credits /\ d.inventory = c.inventory
    /\ d.charges = c.charges /\ d.streak = k /\ d.lastDay = t

LEMMA RowCheered ==
    ASSUME NEW c \in CarlyRow, NEW n \in [Needs -> 0..100], NEW s \in [Needs -> Nat],
           NEW k \in Nat, NEW t \in Nat
    PROVE  IsCheered(c, s, k, t, Cheers(c, n, s, k, t))
BY DEF CarlyRow, Cheers, IsCheered

LEMMA CheeredIs ==
    ASSUME NEW c, Valid(c), now \in Nat, NEW w, w.xp \in Nat, NEW d, d = Cheered(c, w)
    PROVE  /\ Valid(d) /\ d.experience = c.experience /\ d.credits = c.credits
           /\ d.inventory = c.inventory /\ d.charges = c.charges
           /\ d.streak = StreakAfter(c) /\ d.lastDay = Today
<1>1. c \in CarlyRow
  BY DEF Valid
<1>2. /\ c.needs \in [Needs -> 0..100] /\ c.since \in [Needs -> Nat]
      /\ c.streak \in Nat
  BY <1>1, RowFields
<1>3. PICK m : m = Max({1, Min({5, w.xp \div 10})})
  OBVIOUS
<1>4. m \in Nat
  <2>1. PICK q \in Int : q = w.xp \div 10
    OBVIOUS
  <2>2. Min({5, q}) = IF 5 <= q THEN 5 ELSE q
    BY Lesser
  <2>3. PICK y \in Int : y = Min({5, q})
    BY <2>2
  <2>4. Max({1, y}) = IF 1 >= y THEN 1 ELSE y
    BY Greater
  <2> QED BY <1>3, <2>1, <2>3, <2>4
<1>5. PICK a : a = Min({100, c.needs["affection"] + m})
  OBVIOUS
<1>6. a \in 0..100
  <2>1. c.needs["affection"] \in 0..100
    BY <1>2 DEF Needs
  <2>2. PICK y \in Nat : y = c.needs["affection"] + m
    BY <1>4, <2>1
  <2>3. Min({100, y}) = IF 100 <= y THEN 100 ELSE y
    BY Lesser
  <2> QED BY <1>5, <2>2, <2>3
<1>7. PICK n : n = [c.needs EXCEPT !["affection"] = a]
  OBVIOUS
<1>8. n \in [Needs -> 0..100]
  BY <1>2, <1>6, <1>7
<1>9. PICK s : s = [c.since EXCEPT !["energy"] = IF c.sleeping THEN now ELSE @]
  OBVIOUS
<1>10. s \in [Needs -> Nat] /\ \A i \in Needs : s[i] <= now
  <2>1. CASE c.sleeping
    <3>1. s = [c.since EXCEPT !["energy"] = now]
      BY <1>9, <2>1
    <3>2. \A i \in Needs : c.since[i] \in Nat /\ c.since[i] <= now
      BY <1>2 DEF Valid
    <3>3. s \in [Needs -> Nat]
      BY <1>2, <3>1
    <3>4. \A i \in Needs : s[i] = IF i = "energy" THEN now ELSE c.since[i]
      BY <1>2, <3>1
    <3> QED BY <3>2, <3>3, <3>4
  <2>2. CASE ~ c.sleeping
    <3>1. s = c.since
      BY <1>2, <1>9, <2>2
    <3> QED BY <1>2, <3>1 DEF Valid
  <2> QED BY <2>1, <2>2
<1>11. PICK k, t : k = StreakAfter(c) /\ t = Today
  OBVIOUS
<1>12. k \in Nat /\ t \in Nat
  BY <1>2, <1>11, TodayIsNat DEF StreakAfter
<1>13. d = Cheers(c, n, s, k, t)
  BY <1>1, <1>3, <1>5, <1>7, <1>9, <1>11 DEF Cheered, Cheers, CarlyRow
<1>14. /\ d \in CarlyRow /\ d.level = c.level /\ d.experience = c.experience
       /\ d.since = s /\ d.credits = c.credits /\ d.inventory = c.inventory
       /\ d.charges = c.charges /\ d.streak = k /\ d.lastDay = t
  <2>1. /\ c \in CarlyRow /\ n \in [Needs -> 0..100] /\ s \in [Needs -> Nat]
        /\ k \in Nat /\ t \in Nat /\ d = Cheers(c, n, s, k, t)
    BY <1>1, <1>8, <1>10, <1>12, <1>13
  <2>2. IsCheered(c, s, k, t, Cheers(c, n, s, k, t))
    BY <2>1, RowCheered
  <2> QED BY <2>1, <2>2 DEF IsCheered
<1> QED BY <1>10, <1>11, <1>14 DEF Valid

LEMMA CreditedIs ==
    ASSUME NEW c, Valid(c), now \in Nat, NEW event,
           NEW w, w.xp \in Nat, w.credits \in Nat, w.focus => c.charges > 0,
           NEW d, d = Credited(c, event, w)
    PROVE  /\ Valid(d) /\ d.experience = c.experience + w.xp
           /\ d.credits = c.credits + w.credits /\ d.inventory = c.inventory
           /\ d.charges = IF w.focus THEN c.charges - 1 ELSE c.charges
           /\ event \in ProductiveEvents => d.streak = StreakAfter(c) /\ d.lastDay = Today
           /\ event \notin ProductiveEvents => d.streak = c.streak /\ d.lastDay = c.lastDay
<1>1. PICK f : f = FocusSpent(c, w)
  OBVIOUS
<1>2. /\ Valid(f) /\ SameBalance(c, f) /\ f.inventory = c.inventory
      /\ f.charges = IF w.focus THEN c.charges - 1 ELSE c.charges
  BY <1>1, FocusSpentIs
<1>m. PICK m \in Nat : m = w.xp
  OBVIOUS
<1>3. PICK l : l = Leveled(f, m)
  OBVIOUS
<1>4. /\ Valid(l) /\ l.experience = f.experience + m
      /\ l.credits = f.credits /\ l.inventory = f.inventory
      /\ l.charges = f.charges /\ l.streak = f.streak /\ l.lastDay = f.lastDay
  <2>1. IsLeveled(f, m, Leveled(f, m))
    BY <1>2, LeveledIs
  <2> QED BY <1>3, <2>1 DEF IsLeveled
<1>5. PICK n \in Nat : n = w.credits
  OBVIOUS
<1>6. PICK p : p = [l EXCEPT !.credits = @ + n]
  OBVIOUS
<1>7. /\ Valid(p) /\ p.credits = l.credits + n
      /\ p.experience = l.experience /\ p.inventory = l.inventory
      /\ p.charges = l.charges /\ p.streak = l.streak /\ p.lastDay = l.lastDay
  BY <1>4, <1>5, <1>6, PaidIs
<1>8. d = IF event \in ProductiveEvents THEN Cheered(p, w) ELSE p
  BY <1>1, <1>m, <1>3, <1>5, <1>6 DEF Credited
<1>9. /\ p.experience = c.experience + w.xp /\ p.credits = c.credits + w.credits
      /\ p.inventory = c.inventory
      /\ p.charges = IF w.focus THEN c.charges - 1 ELSE c.charges
      /\ p.streak = c.streak /\ p.lastDay = c.lastDay
  BY <1>2, <1>m, <1>4, <1>5, <1>7 DEF SameBalance
<1>10. CASE event \in ProductiveEvents
  <2>1. d = Cheered(p, w)
    BY <1>8, <1>10
  <2>2. /\ Valid(d) /\ d.experience = p.experience /\ d.credits = p.credits
        /\ d.inventory = p.inventory /\ d.charges = p.charges
        /\ d.streak = StreakAfter(p) /\ d.lastDay = Today
    BY <1>7, <2>1, CheeredIs
  <2>3. StreakAfter(p) = StreakAfter(c)
    BY <1>9 DEF StreakAfter
  <2> QED BY <1>9, <1>10, <2>2, <2>3
<1>11. CASE event \notin ProductiveEvents
  BY <1>7, <1>8, <1>9, <1>11
<1> QED BY <1>10, <1>11

\* The invariants of the ledger, and of a row against it.
Capped(E) ==
    \A d \in {r.day : r \in E} :
        LET entries == {r \in E : r.day = d}
        IN  SumXp(entries) <= DailyXpHardCap /\ SumCredits(entries) <= DailyCreditHardCap

Once(E) == \A r, s \in E : r.key = s.key => r = s

Focused(E) == {r \in E : r.focus}

Earned(c, E) ==
    \A k \in 0..c.streak - 1 :
        \E r \in E : /\ r.day = c.lastDay - k
                     /\ r.event \in ProductiveEvents
                     /\ r.xp > 0 \/ r.credits > 0

Booked(c, E, spent, berries) ==
    /\ c.experience = SumXp(E)
    /\ c.credits + spent = 40 + SumCredits(E)
    /\ Cardinality(Focused(E)) + c.charges <= berries
    /\ Earned(c, E)

LEMMA SameBooks ==
    ASSUME NEW c, NEW E, NEW spent, NEW berries, Booked(c, E, spent, berries),
           NEW d, SameBalance(c, d), d.charges = c.charges
    PROVE  Booked(d, E, spent, berries)
BY DEF Booked, SameBalance, Earned

\* A reward is written once and within the limits of its day, and the row moves
\* by what is written.
LEMMA EntryIsBooked ==
    ASSUME now \in Nat, Typed(ledger), Capped(ledger), Once(ledger),
           NEW c, Valid(c), NEW event, NEW base, base.xp \in Nat, base.credits \in Nat,
           NEW spent \in Int, NEW berries \in Int, Booked(c, ledger, spent, berries),
           NEW w, w = Reward(c, event, base),
           NEW e, e.xp = w.xp, e.credits = w.credits, e.focus = w.focus,
           e.day = Today, e.event = event, \A r \in ledger : r.key # e.key,
           NEW d, d = IF w.xp > 0 \/ w.credits > 0 THEN Credited(c, event, w) ELSE c
    PROVE  /\ Typed(ledger \cup {e}) /\ Capped(ledger \cup {e}) /\ Once(ledger \cup {e})
           /\ Valid(d) /\ d.inventory = c.inventory
           /\ Booked(d, ledger \cup {e}, spent, berries)
<1>0. c \in CarlyRow
  BY DEF Valid
<1>1. e \notin ledger
  OBVIOUS
<1>2. Paid
  <2>1. Typed(OfToday)
    <3>1. OfToday \in SUBSET ledger
      BY DEF OfToday
    <3> QED BY <3>1, TypedSubset
  <2>2. CASE OfToday = {}
    BY <2>1, <2>2, SumsOfEntries, CapsAreOrdered DEF Paid
  <2>3. CASE OfToday # {}
    <3>1. Today \in {r.day : r \in ledger}
      BY <2>3 DEF OfToday
    <3> QED BY <3>1 DEF Paid, Capped, OfToday
  <2> QED BY <2>2, <2>3
<1>3. /\ w.xp \in Nat /\ w.credits \in Nat /\ w.focus \in BOOLEAN
      /\ SumXp(OfToday) + w.xp <= DailyXpHardCap
      /\ SumCredits(OfToday) + w.credits <= DailyCreditHardCap
      /\ w.focus => HasFocus(c, event) /\ w.xp > 0
  BY <1>2, RewardIsLimited
<1>4. Entry(e)
  BY <1>3, TodayIsNat DEF Entry
<1>5. PICK R : R = ledger \cup {e}
  OBVIOUS
<1>6. /\ Typed(R) /\ SumXp(R) = SumXp(ledger) + w.xp
      /\ SumCredits(R) = SumCredits(ledger) + w.credits
  BY <1>1, <1>4, <1>5, SumsGrow
<1>7. Once(R)
  BY <1>5 DEF Once
<1>8. Capped(R)
  <2> SUFFICES ASSUME NEW x \in {r.day : r \in R}
               PROVE  /\ SumXp({r \in R : r.day = x}) <= DailyXpHardCap
                      /\ SumCredits({r \in R : r.day = x}) <= DailyCreditHardCap
    BY DEF Capped
  <2>1. CASE x = Today
    <3>1. {r \in R : r.day = x} = OfToday \cup {e} /\ e \notin OfToday
      BY <1>1, <1>5, <2>1 DEF OfToday
    <3>2. Typed(OfToday)
      <4>1. OfToday \in SUBSET ledger
        BY DEF OfToday
      <4> QED BY <4>1, TypedSubset
    <3>3. /\ SumXp(OfToday \cup {e}) = SumXp(OfToday) + e.xp
          /\ SumCredits(OfToday \cup {e}) = SumCredits(OfToday) + e.credits
      BY <1>4, <3>1, <3>2, SumsGrow
    <3> QED BY <1>3, <3>1, <3>3
  <2>2. CASE x # Today
    <3>1. {r \in R : r.day = x} = {r \in ledger : r.day = x}
      BY <1>5, <2>2
    <3>2. x \in {r.day : r \in ledger}
      BY <1>5, <2>2
    <3> QED BY <3>1, <3>2 DEF Capped
  <2> QED BY <2>1, <2>2
<1>9. c.charges \in 0..1 /\ c.experience \in Nat /\ c.credits \in Nat
      /\ c.streak \in Nat /\ c.lastDay \in Nat
  BY <1>0, RowFields
<1>10. w.focus => c.charges > 0
  BY <1>3 DEF HasFocus
<1>11. IsFiniteSet(Focused(ledger)) /\ Cardinality(Focused(ledger)) \in Nat
       /\ Cardinality(Focused(R)) =
            IF w.focus THEN Cardinality(Focused(ledger)) + 1 ELSE Cardinality(Focused(ledger))
  <2>1. IsFiniteSet(Focused(ledger)) /\ e \notin Focused(ledger)
    BY <1>1, FS_Subset DEF Typed, Focused
  <2>2. CASE w.focus
    <3>1. Focused(R) = Focused(ledger) \cup {e}
      BY <1>5, <2>2 DEF Focused
    <3> QED BY <2>1, <2>2, <3>1, FS_AddElement, FS_CardinalityType
  <2>3. CASE ~ w.focus
    <3>1. Focused(R) = Focused(ledger)
      BY <1>5, <2>3 DEF Focused
    <3> QED BY <2>1, <2>3, <3>1, FS_CardinalityType
  <2> QED BY <2>2, <2>3
<1>12. CASE ~(w.xp > 0 \/ w.credits > 0)
  <2>1. d = c /\ w.xp = 0 /\ w.credits = 0 /\ ~ w.focus
    BY <1>3, <1>12
  <2>2. SumXp(R) = SumXp(ledger) /\ SumCredits(R) = SumCredits(ledger)
    <3>1. SumXp(ledger) \in Nat /\ SumCredits(ledger) \in Nat
      BY SumsOfEntries
    <3> QED BY <1>6, <2>1, <3>1
  <2>3. Earned(c, R)
    BY <1>5 DEF Earned, Booked
  <2>4. Booked(c, R, spent, berries)
    BY <1>11, <2>1, <2>2, <2>3 DEF Booked
  <2> QED BY <1>5, <1>6, <1>7, <1>8, <2>1, <2>4
<1>13. CASE w.xp > 0 \/ w.credits > 0
  <2>1. d = Credited(c, event, w)
    BY <1>13
  <2>2. /\ Valid(d) /\ d.experience = c.experience + w.xp
        /\ d.credits = c.credits + w.credits /\ d.inventory = c.inventory
        /\ d.charges = IF w.focus THEN c.charges - 1 ELSE c.charges
        /\ event \in ProductiveEvents => d.streak = StreakAfter(c) /\ d.lastDay = Today
        /\ event \notin ProductiveEvents => d.streak = c.streak /\ d.lastDay = c.lastDay
    BY <1>3, <1>10, <2>1, CreditedIs
  <2>3. Earned(d, R)
    <3>1. CASE event \notin ProductiveEvents
      <4>1. d.streak = c.streak /\ d.lastDay = c.lastDay /\ Earned(c, ledger)
        BY <2>2, <3>1 DEF Booked
      <4> QED BY <1>5, <4>1 DEF Earned
    <3>2. CASE event \in ProductiveEvents
      <4>1. d.streak = StreakAfter(c) /\ d.lastDay = Today
        BY <2>2, <3>2
      <4>2. e \in R /\ e.day = Today /\ e.event \in ProductiveEvents
            /\ (e.xp > 0 \/ e.credits > 0)
        BY <1>5, <1>13, <3>2
      <4>3. \A k \in 0..c.streak - 1 :
                \E r \in R : /\ r.day = c.lastDay - k /\ r.event \in ProductiveEvents
                             /\ r.xp > 0 \/ r.credits > 0
        BY <1>5 DEF Booked, Earned
      <4>t. PICK t \in Nat : t = Today
        BY TodayIsNat
      <4>4. CASE c.lastDay = Today - 1
        <5>1. d.streak = c.streak + 1
          BY <1>9, <4>1, <4>4 DEF StreakAfter
        <5>2. ASSUME NEW k \in 0..d.streak - 1, k # 0
              PROVE  k - 1 \in 0..c.streak - 1 /\ d.lastDay - k = c.lastDay - (k - 1)
          BY <1>9, <4>1, <4>4, <4>t, <5>1, <5>2
        <5>3. ASSUME NEW k \in 0..d.streak - 1
              PROVE  \E r \in R : /\ r.day = d.lastDay - k /\ r.event \in ProductiveEvents
                                  /\ r.xp > 0 \/ r.credits > 0
          <6>1. CASE k = 0
            <7>1. e.day = d.lastDay - k
              BY <4>1, <4>2, <4>t, <6>1
            <7> QED BY <4>2, <7>1
          <6>2. CASE k # 0
            BY <4>3, <5>2, <6>2
          <6> QED BY <6>1, <6>2
        <5> QED BY <5>3 DEF Earned
      <4>5. CASE c.lastDay = Today
        <5>1. d.streak = c.streak /\ d.lastDay = c.lastDay
          BY <1>9, <4>1, <4>5 DEF StreakAfter
        <5> QED BY <4>3, <5>1 DEF Earned
      <4>6. CASE c.lastDay # Today - 1 /\ c.lastDay # Today
        <5>1. d.streak = 1
          BY <4>1, <4>6 DEF StreakAfter
        <5>2. ASSUME NEW k \in 0..d.streak - 1
              PROVE  e.day = d.lastDay - k
          BY <4>1, <4>2, <4>t, <5>1
        <5> QED BY <4>2, <5>2 DEF Earned
      <4> QED BY <4>4, <4>5, <4>6
    <3> QED BY <3>1, <3>2
  <2>4. d.experience = SumXp(R) /\ d.credits + spent = 40 + SumCredits(R)
    <3>1. SumXp(ledger) \in Nat /\ SumCredits(ledger) \in Nat
      BY SumsOfEntries
    <3> QED BY <1>3, <1>6, <1>9, <2>2, <3>1 DEF Booked
  <2>5. Cardinality(Focused(R)) + d.charges <= berries
    <3>1. Cardinality(Focused(ledger)) + c.charges <= berries
      BY DEF Booked
    <3>2. CASE w.focus
      <4>1. Cardinality(Focused(R)) = Cardinality(Focused(ledger)) + 1
            /\ d.charges = c.charges - 1
        BY <1>11, <2>2, <3>2
      <4> QED BY <1>9, <1>11, <3>1, <4>1
    <3>3. CASE ~ w.focus
      BY <1>11, <2>2, <3>1, <3>3
    <3> QED BY <3>2, <3>3
  <2> QED BY <1>5, <1>6, <1>7, <1>8, <2>2, <2>3, <2>4, <2>5 DEF Booked
<1> QED BY <1>12, <1>13

LEMMA AwardIsBooked ==
    ASSUME now \in Nat, Typed(ledger), Capped(ledger), Once(ledger),
           NEW c, Valid(c), NEW key, NEW event,
           NEW base, base.xp \in Nat, base.credits \in Nat,
           NEW spent \in Int, NEW berries \in Int, Booked(c, ledger, spent, berries),
           Award(c, key, event, base)
    PROVE  /\ Typed(ledger') /\ Capped(ledger') /\ Once(ledger')
           /\ Valid(carly') /\ carly'.inventory = c.inventory
           /\ Booked(carly', ledger', spent, berries)
<1>1. PICK x : x = ApplyCarlyDecay(c)
  OBVIOUS
<1>2. Valid(x) /\ SameAccount(c, x) /\ x.credits = c.credits /\ x.inventory = c.inventory
      /\ x.charges = c.charges
  BY <1>1, DecayIsValid
<1>3. Booked(x, ledger, spent, berries)
  <2>1. SameBalance(c, x)
    BY <1>2 DEF SameAccount, SameBalance
  <2> QED BY <1>2, <2>1, SameBooks
<1>4. CASE Rewarded(key)
  <2>1. carly' = x /\ ledger' = ledger
    BY <1>1, <1>4 DEF Award
  <2> QED BY <1>2, <1>3, <2>1
<1>5. CASE ~ Rewarded(key)
  <2>1. PICK w : w = Reward(x, event, base)
    OBVIOUS
  <2>2. PICK e : e = [key |-> key, event |-> event, day |-> Today, xp |-> w.xp,
                      credits |-> w.credits, focus |-> w.focus]
    OBVIOUS
  <2>3. PICK d : d = IF w.xp > 0 \/ w.credits > 0 THEN Credited(x, event, w) ELSE x
    OBVIOUS
  <2>4. ledger' = ledger \cup {e} /\ carly' = d
    BY <1>1, <1>5, <2>1, <2>2, <2>3 DEF Award
  <2>5. /\ e.xp = w.xp /\ e.credits = w.credits /\ e.focus = w.focus
        /\ e.day = Today /\ e.event = event /\ e.key = key
    BY <2>2
  <2>6. \A r \in ledger : r.key # e.key
    BY <1>5, <2>5 DEF Rewarded
  <2>7. /\ Typed(ledger \cup {e}) /\ Capped(ledger \cup {e}) /\ Once(ledger \cup {e})
        /\ Valid(d) /\ d.inventory = x.inventory
        /\ Booked(d, ledger \cup {e}, spent, berries)
    BY <1>2, <1>3, <2>1, <2>3, <2>5, <2>6, EntryIsBooked
  <2> QED BY <1>2, <2>4, <2>7
<1> QED BY <1>4, <1>5

(***************************************************************************)
(* Food and care.                                                          *)
(***************************************************************************)

LEMMA FoodsAreFinite == IsFiniteSet(DOMAIN FoodRules)
<1>1. DOMAIN FoodRules = {"fish", "berry", "cookie", "potion"}
  BY DEF FoodRules
<1>2. IsFiniteSet({"fish", "berry", "cookie", "potion"})
  <2>1. IsFiniteSet({"fish"})
    BY FS_Singleton
  <2>2. IsFiniteSet({"fish"} \cup {"berry"})
    BY <2>1, FS_AddElement
  <2>3. IsFiniteSet(({"fish"} \cup {"berry"}) \cup {"cookie"})
    BY <2>2, FS_AddElement
  <2>4. IsFiniteSet((({"fish"} \cup {"berry"}) \cup {"cookie"}) \cup {"potion"})
    BY <2>3, FS_AddElement
  <2>5. (({"fish"} \cup {"berry"}) \cup {"cookie"}) \cup {"potion"}
            = {"fish", "berry", "cookie", "potion"}
    OBVIOUS
  <2> QED BY <2>4, <2>5
<1> QED BY <1>1, <1>2

LEMMA FoodRulesAre ==
    ASSUME NEW f \in DOMAIN FoodRules
    PROVE  /\ FoodRules[f].cost \in Nat /\ FoodRules[f].lasts \in Nat
           /\ \A n \in Needs : FoodRules[f][n] \in Nat
<1>1. f \in {"fish", "berry", "cookie", "potion"}
  BY DEF FoodRules
<1> QED BY <1>1 DEF FoodRules, Needs

LEMMA ActionRulesAre ==
    ASSUME NEW a \in {"pet", "play", "sleep", "wake"}
    PROVE  \A n \in Needs : ActionRules[a][n] \in Int
BY DEF ActionRules, Needs

LEMMA RewardRulesAre ==
    ASSUME NEW event \in DOMAIN RewardRules
    PROVE  RewardRules[event].xp \in Nat /\ RewardRules[event].credits \in Nat
BY DEF RewardRules

LEMMA WorthIsNat ==
    ASSUME NEW event \in DOMAIN RewardRules, NEW base \in Worth(event)
    PROVE  base.xp \in Nat /\ base.credits \in Nat
<1>1. PICK x \in Nat, y \in Nat : x = RewardRules[event].xp /\ y = RewardRules[event].credits
  BY RewardRulesAre
<1>2. CASE event = "task_completed"
  <2>1. PICK s \in Subtasks, c \in Collaborators :
            base = [xp |-> x + 2 * s + 2 * c, credits |-> y + 4 * s + 5 * c]
    BY <1>1, <1>2 DEF Worth
  <2>2. s \in Nat /\ c \in Nat
    BY BoundsAreNat
  <2> QED BY <2>1, <2>2
<1>3. CASE event # "task_completed"
  BY <1>1, <1>3 DEF Worth
<1> QED BY <1>2, <1>3

LEMMA SavedIs ==
    ASSUME NEW row, Valid(row), NEW c, Valid(c), NEW d, d = SaveDecayed(row, c)
    PROVE  /\ Valid(d) /\ SameBalance(row, d)
           /\ d.inventory = row.inventory /\ d.charges = row.charges
<1>1. row \in CarlyRow /\ c \in CarlyRow
  BY DEF Valid
<1>2. PICK n, s : n = c.needs /\ s = c.since
  OBVIOUS
<1>3. n \in [Needs -> 0..100] /\ s \in [Needs -> Nat]
  BY <1>1, <1>2, RowFields
<1>4. d = WithNeeds(row, n, s)
  BY <1>2 DEF SaveDecayed, WithNeeds
<1>5. /\ d \in CarlyRow /\ d.since = s /\ SameAccount(row, d) /\ d.credits = row.credits
      /\ d.inventory = row.inventory /\ d.charges = row.charges
  BY <1>1, <1>3, <1>4, RowWithNeeds
<1> QED BY <1>2, <1>5 DEF Valid, SameAccount, SameBalance

LEMMA TendedIs ==
    ASSUME NEW c, Valid(c), NEW a \in {"pet", "play", "sleep", "wake"},
           NEW d, d = Tended(c, a)
    PROVE  /\ Valid(d) /\ SameBalance(c, d)
           /\ d.inventory = c.inventory /\ d.charges = c.charges
<1>1. c \in CarlyRow
  BY DEF Valid
<1>2. c.needs \in [Needs -> 0..100] /\ c.since \in [Needs -> Nat]
  BY <1>1, RowFields
<1> DEFINE Needed(n) == Clamped(c.needs[n] + ActionRules[a][n])
<1>3. PICK f : f = [n \in Needs |-> Needed(n)]
  OBVIOUS
<1>4. ASSUME NEW n \in Needs
      PROVE  Needed(n) \in 0..100
  <2>1. c.needs[n] \in 0..100
    BY <1>2
  <2>2. PICK x \in Int : x = c.needs[n] + ActionRules[a][n]
    BY <2>1, ActionRulesAre
  <2>3. Clamped(x) \in 0..100
    BY ClampedIsBounded
  <2> QED BY <2>2, <2>3
<1>5. f \in [Needs -> 0..100]
  <2> HIDE DEF Needed
  <2> QED BY <1>3, <1>4
<1>6. PICK s : s = c.since
  OBVIOUS
<1>7. d = WithNeeds(c, f, s)
  BY <1>1, <1>3, <1>6 DEF Tended, WithNeeds, CarlyRow
<1>8. /\ d \in CarlyRow /\ d.since = s /\ SameAccount(c, d) /\ d.credits = c.credits
      /\ d.inventory = c.inventory /\ d.charges = c.charges
  BY <1>1, <1>2, <1>5, <1>6, <1>7, RowWithNeeds
<1> QED BY <1>6, <1>8 DEF Valid, SameAccount, SameBalance

LEMMA SleepsIs ==
    ASSUME NEW c, Valid(c), now \in Nat, NEW b \in BOOLEAN,
           NEW d, d = [c EXCEPT !.sleeping = b, !.since["energy"] = now]
    PROVE  /\ Valid(d) /\ SameBalance(c, d)
           /\ d.inventory = c.inventory /\ d.charges = c.charges
<1>1. c \in CarlyRow
  BY DEF Valid
<1>2. c.since \in [Needs -> Nat] /\ \A n \in Needs : c.since[n] <= now
  BY <1>1, RowFields DEF Valid
<1>3. PICK s : s = [c.since EXCEPT !["energy"] = now]
  OBVIOUS
<1>4. s \in [Needs -> Nat]
  BY <1>2, <1>3
<1>5. \A n \in Needs : s[n] = IF n = "energy" THEN now ELSE c.since[n]
  BY <1>2, <1>3
<1>6. \A n \in Needs : s[n] <= now
  BY <1>2, <1>5
<1>7. d = [c EXCEPT !.sleeping = b, !.since = s]
  BY <1>1, <1>3 DEF CarlyRow
<1>8. /\ d \in CarlyRow /\ d.since = s /\ d.level = c.level /\ SameBalance(c, d)
      /\ d.inventory = c.inventory /\ d.charges = c.charges
  BY <1>1, <1>4, <1>7 DEF CarlyRow, SameBalance
<1> QED BY <1>6, <1>8 DEF Valid, SameBalance

Feeds(c, i, n, s, k, u) ==
    [c EXCEPT !.inventory = i, !.needs = n, !.since = s, !.charges = k, !.until = u]

IsFed(c, i, s, k, d) ==
    /\ d \in CarlyRow /\ d.level = c.level /\ SameBalance(c, d)
    /\ d.since = s /\ d.inventory = i /\ d.charges = k

LEMMA RowFed ==
    ASSUME NEW c \in CarlyRow, NEW i \in [DOMAIN FoodRules -> Nat],
           NEW n \in [Needs -> 0..100], NEW s \in [Needs -> Nat], NEW k \in 0..1,
           NEW u \in [DOMAIN FoodRules -> Nat]
    PROVE  IsFed(c, i, s, k, Feeds(c, i, n, s, k, u))
BY DEF CarlyRow, Feeds, IsFed, SameBalance

LEMMA FedIs ==
    ASSUME NEW c, Valid(c), now \in Nat, NEW f \in DOMAIN FoodRules, c.inventory[f] > 0,
           NEW d, d = Fed(c, f)
    PROVE  /\ Valid(d) /\ SameBalance(c, d)
           /\ d.inventory = [c.inventory EXCEPT ![f] = @ - 1]
           /\ d.charges = IF f = "berry" THEN 1 ELSE c.charges
<1>1. c \in CarlyRow
  BY DEF Valid
<1>2. /\ c.needs \in [Needs -> 0..100] /\ c.since \in [Needs -> Nat]
      /\ c.inventory \in [DOMAIN FoodRules -> Nat]
      /\ c.until \in [DOMAIN FoodRules -> Nat] /\ c.charges \in 0..1
  BY <1>1, RowFields
<1>3. PICK i : i = [c.inventory EXCEPT ![f] = @ - 1]
  OBVIOUS
<1>4. i \in [DOMAIN FoodRules -> Nat]
  <2>1. c.inventory[f] - 1 \in Nat
    BY <1>2
  <2> QED BY <1>2, <1>3, <2>1
<1> DEFINE Needed(n) == IF n = "energy" /\ f = "potion" THEN 100
                        ELSE Min({100, c.needs[n] + FoodRules[f][n]})
<1>5. PICK g : g = [n \in Needs |-> Needed(n)]
  OBVIOUS
<1>6. ASSUME NEW n \in Needs
      PROVE  Needed(n) \in 0..100
  <2>1. c.needs[n] \in 0..100
    BY <1>2
  <2>2. PICK x \in Nat : x = c.needs[n] + FoodRules[f][n]
    BY <2>1, FoodRulesAre
  <2>3. Min({100, x}) = IF 100 <= x THEN 100 ELSE x
    BY Lesser
  <2>4. Min({100, x}) \in 0..100
    BY <2>3
  <2> QED BY <2>2, <2>4
<1>7. g \in [Needs -> 0..100]
  <2> HIDE DEF Needed
  <2> QED BY <1>5, <1>6
<1>8. PICK s : s = [c.since EXCEPT !["energy"] = IF f = "potion" THEN now ELSE @]
  OBVIOUS
<1>9. s \in [Needs -> Nat] /\ \A n \in Needs : s[n] <= now
  <2>0. \A n \in Needs : c.since[n] \in Nat /\ c.since[n] <= now
    BY <1>2 DEF Valid
  <2>1. s \in [Needs -> Nat]
    BY <1>2, <1>8
  <2>2. \A n \in Needs : s[n] = now \/ s[n] = c.since[n]
    BY <1>2, <1>8
  <2> QED BY <2>0, <2>1, <2>2
<1>10. PICK k : k = IF f = "berry" THEN 1 ELSE c.charges
  OBVIOUS
<1>11. k \in 0..1
  BY <1>2, <1>10
<1>12. PICK u : u = [c.until EXCEPT ![f] = now + FoodRules[f].lasts]
  OBVIOUS
<1>13. u \in [DOMAIN FoodRules -> Nat]
  <2>1. now + FoodRules[f].lasts \in Nat
    BY FoodRulesAre
  <2> QED BY <1>2, <1>12, <2>1
<1>14. d = Feeds(c, i, g, s, k, u)
  BY <1>1, <1>3, <1>5, <1>8, <1>10, <1>12 DEF Fed, Feeds, CarlyRow
<1>15. IsFed(c, i, s, k, Feeds(c, i, g, s, k, u))
  BY <1>1, <1>4, <1>7, <1>9, <1>11, <1>13, RowFed
<1> QED BY <1>3, <1>9, <1>10, <1>14, <1>15 DEF IsFed, Valid, SameBalance

Bought(c, f) == [c EXCEPT !.credits = @ - FoodRules[f].cost, !.inventory[f] = @ + 1]

LEMMA BoughtIs ==
    ASSUME NEW c, Valid(c), NEW f \in DOMAIN FoodRules, c.credits >= FoodRules[f].cost,
           NEW d, d = Bought(c, f)
    PROVE  /\ Valid(d) /\ d.credits = c.credits - FoodRules[f].cost
           /\ d.inventory = [c.inventory EXCEPT ![f] = @ + 1] /\ d.charges = c.charges
           /\ d.experience = c.experience /\ d.streak = c.streak /\ d.lastDay = c.lastDay
<1>1. c \in CarlyRow
  BY DEF Valid
<1>2. c.credits \in Nat /\ c.inventory \in [DOMAIN FoodRules -> Nat]
  BY <1>1, RowFields
<1>3. PICK x \in Nat : x = c.credits - FoodRules[f].cost
  BY <1>2, FoodRulesAre
<1>4. PICK i : i = [c.inventory EXCEPT ![f] = @ + 1]
  OBVIOUS
<1>5. i \in [DOMAIN FoodRules -> Nat]
  BY <1>2, <1>4
<1>6. d = [c EXCEPT !.credits = x, !.inventory = i]
  BY <1>1, <1>3, <1>4 DEF Bought, CarlyRow
<1>7. /\ d \in CarlyRow /\ d.level = c.level /\ d.since = c.since
      /\ d.credits = x /\ d.inventory = i /\ d.charges = c.charges
      /\ d.experience = c.experience /\ d.streak = c.streak /\ d.lastDay = c.lastDay
  BY <1>1, <1>5, <1>6 DEF CarlyRow
<1> QED BY <1>3, <1>4, <1>7 DEF Valid

\* The credits spent on food.
Spent(b) == SumFunction([f \in DOMAIN FoodRules |-> b[f] * FoodRules[f].cost])

LEMMA CostsAre ==
    ASSUME NEW b \in [DOMAIN FoodRules -> Nat]
    PROVE  [f \in DOMAIN FoodRules |-> b[f] * FoodRules[f].cost] \in [DOMAIN FoodRules -> Nat]
<1>1. ASSUME NEW f \in DOMAIN FoodRules
      PROVE  b[f] * FoodRules[f].cost \in Nat
  <2>1. PICK x \in Nat, y \in Nat : x = b[f] /\ y = FoodRules[f].cost
    BY FoodRulesAre
  <2>2. x * y \in Nat
    OBVIOUS
  <2> QED BY <2>1, <2>2
<1> QED BY <1>1

LEMMA SpentGrows ==
    ASSUME NEW b \in [DOMAIN FoodRules -> Nat], NEW f \in DOMAIN FoodRules,
           NEW a, a = [b EXCEPT ![f] = @ + 1]
    PROVE  /\ a \in [DOMAIN FoodRules -> Nat]
           /\ Spent(b) \in Nat /\ Spent(a) = Spent(b) + FoodRules[f].cost
<1>1. a \in [DOMAIN FoodRules -> Nat]
  OBVIOUS
<1>2. PICK g, h : /\ g = [i \in DOMAIN FoodRules |-> a[i] * FoodRules[i].cost]
                  /\ h = [i \in DOMAIN FoodRules |-> b[i] * FoodRules[i].cost]
  OBVIOUS
<1>3. g \in [DOMAIN FoodRules -> Nat] /\ h \in [DOMAIN FoodRules -> Nat]
  BY <1>1, <1>2, CostsAre
<1>4. SumFunction(h) \in Nat
  BY <1>3, FoodsAreFinite, SumIsNat
<1>5. \A i \in (DOMAIN FoodRules) \ {f} : g[i] = h[i]
  BY <1>2
<1>6. g[f] = h[f] + FoodRules[f].cost
  <2>1. PICK x \in Nat, y \in Nat : x = b[f] /\ y = FoodRules[f].cost
    BY FoodRulesAre
  <2>2. g[f] = (x + 1) * y /\ h[f] = x * y
    BY <1>2, <2>1
  <2>3. (x + 1) * y = x * y + y
    OBVIOUS
  <2> QED BY <2>1, <2>2, <2>3
<1>7. SumFunction(g) = SumFunction(h) + g[f] - h[f]
  <2>1. PICK S : S = DOMAIN FoodRules /\ IsFiniteSet(S)
    BY FoodsAreFinite
  <2>2. g \in [S -> Nat] /\ h \in [S -> Nat] /\ f \in S
    BY <1>3, <2>1
  <2>3. g \in [S -> Int] /\ h \in [S -> Int]
    BY <2>2
  <2>4. \A i \in S \ {f} : g[i] = h[i]
    BY <1>5, <2>1
  <2> QED BY <2>1, <2>2, <2>3, <2>4, SumChanged
<1>8. PICK x \in Nat, y \in Nat, z \in Nat :
            x = SumFunction(h) /\ y = h[f] /\ z = FoodRules[f].cost
  BY <1>3, <1>4, FoodRulesAre
<1>9. SumFunction(g) = x + z
  BY <1>6, <1>7, <1>8
<1> QED BY <1>1, <1>2, <1>4, <1>8, <1>9 DEF Spent

LEMMA SpentIsNat ==
    ASSUME NEW b \in [DOMAIN FoodRules -> Nat]
    PROVE  Spent(b) \in Nat
<1>1. PICK h : h = [i \in DOMAIN FoodRules |-> b[i] * FoodRules[i].cost]
  OBVIOUS
<1>2. h \in [DOMAIN FoodRules -> Nat]
  BY <1>1, CostsAre
<1>3. SumFunction(h) \in Nat
  BY <1>2, FoodsAreFinite, SumIsNat
<1> QED BY <1>1, <1>3 DEF Spent

(***************************************************************************)
(* The invariant.                                                          *)
(***************************************************************************)

\* What a handler carries between reading and writing.
CallIsValid(c) ==
    /\ c.kind = "decay" => Valid(c.decayed)
    /\ c.kind = "refresh" => Valid(c.seen)
    /\ c.kind = "reward" => c.base.xp \in Nat /\ c.base.credits \in Nat

InventoryBalances ==
    \A f \in DOMAIN FoodRules :
        carly.inventory[f] + eaten[f] = InitialInventory[f] + bought[f]

Books ==
    /\ now \in Nat
    /\ Typed(ledger) /\ Capped(ledger) /\ Once(ledger)
    /\ Valid(carly)
    /\ bought \in [DOMAIN FoodRules -> Nat] /\ eaten \in [DOMAIN FoodRules -> Nat]
    /\ InventoryBalances
    /\ Booked(carly, ledger, Spent(bought), eaten["berry"])

Inv == Books /\ \A c \in calls : CallIsValid(c)

LEMMA BooksAreNumbers ==
    ASSUME Books
    PROVE  Spent(bought) \in Nat /\ eaten["berry"] \in Nat
<1>1. "berry" \in DOMAIN FoodRules
  BY DEF FoodRules
<1> QED BY <1>1, SpentIsNat DEF Books

\* The row may change in what is no reward, purchase or food.
LEMMA RowIsSaved ==
    ASSUME Books, UNCHANGED <<now, ledger, bought, eaten>>, Valid(carly'),
           SameBalance(carly, carly'), carly'.inventory = carly.inventory,
           carly'.charges = carly.charges
    PROVE  Books'
<1>1. Booked(carly', ledger, Spent(bought), eaten["berry"])
  BY SameBooks DEF Books
<1>2. Booked(carly', ledger', Spent(bought'), eaten'["berry"])
  BY <1>1
<1>3. Valid(carly)'
  BY DEF Valid
<1>4. InventoryBalances'
  BY DEF Books, InventoryBalances
<1>5. Typed(ledger') /\ Capped(ledger') /\ Once(ledger')
  BY DEF Books
<1> QED BY <1>2, <1>3, <1>4, <1>5 DEF Books, Booked, Typed, Capped, Once

\* A reward for the row c, which differs from that of the table in what is no
\* reward, purchase or food.
LEMMA RowIsRewarded ==
    ASSUME Books, UNCHANGED <<now, bought, eaten>>,
           NEW c, Valid(c), SameBalance(carly, c), c.inventory = carly.inventory,
           c.charges = carly.charges, NEW key, NEW event,
           NEW base, base.xp \in Nat, base.credits \in Nat, Award(c, key, event, base)
    PROVE  Books'
<1>1. Spent(bought) \in Int /\ eaten["berry"] \in Int
  BY BooksAreNumbers
<1>2. Booked(c, ledger, Spent(bought), eaten["berry"])
  BY SameBooks DEF Books
<1>3. /\ Typed(ledger') /\ Capped(ledger') /\ Once(ledger')
      /\ Valid(carly') /\ carly'.inventory = c.inventory
      /\ Booked(carly', ledger', Spent(bought), eaten["berry"])
  BY <1>1, <1>2, AwardIsBooked DEF Books
<1>4. Booked(carly', ledger', Spent(bought'), eaten'["berry"])
  BY <1>3
<1>5. Valid(carly)'
  BY <1>3 DEF Valid
<1>6. InventoryBalances'
  BY <1>3 DEF Books, InventoryBalances
<1> QED BY <1>3, <1>4, <1>5, <1>6 DEF Books, Booked, Typed, Capped, Once

LEMMA CallsStay ==
    ASSUME \A c \in calls : CallIsValid(c), UNCHANGED now,
           \A c \in calls' : c \in calls \/ CallIsValid(c)
    PROVE  (\A c \in calls : CallIsValid(c))'
<1>1. \A c \in calls' : CallIsValid(c)
  OBVIOUS
<1> QED BY <1>1 DEF CallIsValid, Valid

LEMMA InitIsValid ==
    ASSUME Init
    PROVE  Inv
<1>1. now \in Nat /\ now = 193 /\ ledger = {} /\ calls = {} /\ carly = NewCarly
      /\ bought = [f \in DOMAIN FoodRules |-> 0] /\ eaten = [f \in DOMAIN FoodRules |-> 0]
  BY DEF Init, Day
<1>2. Typed(ledger) /\ Capped(ledger) /\ Once(ledger)
  BY <1>1, FS_EmptySet DEF Typed, Capped, Once
<1>3. LevelState(0) = 1
  <2>1. Threshold(1) = 100
    BY DEF Threshold
  <2>2. Climb[<<1, 0>>] = IF 0 >= Threshold(1) THEN Climb[<<1 + 1, 0 - Threshold(1)>>] ELSE 1
    <3>1. 1 \in Nat /\ 0 \in Nat
      OBVIOUS
    <3> QED BY <3>1, ClimbAt
  <2> QED BY <2>1, <2>2 DEF LevelState
<1>4. /\ carly \in CarlyRow /\ carly.level = 1 /\ carly.experience = 0
      /\ carly.credits = 40 /\ carly.charges = 0 /\ carly.streak = 0
      /\ carly.inventory = InitialInventory /\ carly.since = [n \in Needs |-> now]
  <2>1. PICK i : i = InitialInventory
    OBVIOUS
  <2>2. i \in [DOMAIN FoodRules -> Nat]
    BY <2>1 DEF InitialInventory
  <2>3. PICK n : n = [affection |-> 50, energy |-> 80, satiety |-> 70]
    OBVIOUS
  <2>4. n \in [Needs -> 0..100]
    BY <2>3 DEF Needs
  <2>5. PICK s : s = [k \in Needs |-> now]
    OBVIOUS
  <2>6. s \in [Needs -> Nat]
    BY <1>1, <2>5
  <2>7. PICK u : u = [f \in DOMAIN FoodRules |-> 0]
    OBVIOUS
  <2>8. u \in [DOMAIN FoodRules -> Nat]
    BY <2>7
  <2>9. carly = [level |-> 1, experience |-> 0, credits |-> 40, inventory |-> i,
                 needs |-> n, since |-> s, streak |-> 0, lastDay |-> 0,
                 sleeping |-> FALSE, until |-> u, charges |-> 0]
    BY <1>1, <2>1, <2>3, <2>5, <2>7 DEF NewCarly, NoDay, Never
  <2>10. carly \in CarlyRow
    BY <2>2, <2>4, <2>6, <2>8, <2>9 DEF CarlyRow
  <2> QED BY <2>1, <2>5, <2>9, <2>10
<1>5. Valid(carly)
  BY <1>1, <1>3, <1>4 DEF Valid
<1>6. InventoryBalances
  BY <1>1, <1>4 DEF InventoryBalances, InitialInventory
<1>7. Booked(carly, ledger, Spent(bought), eaten["berry"])
  <2>1. SumXp(ledger) = 0 /\ SumCredits(ledger) = 0
    BY <1>1, <1>2, SumsOfEntries
  <2>2. Spent(bought) = 0
    <3>1. PICK h : h = [f \in DOMAIN FoodRules |-> bought[f] * FoodRules[f].cost]
      OBVIOUS
    <3>2. ASSUME NEW f \in DOMAIN FoodRules
          PROVE  h[f] = 0
      <4>1. PICK y \in Nat : y = FoodRules[f].cost
        BY FoodRulesAre
      <4> QED BY <1>1, <3>1, <4>1
    <3>3. h \in [DOMAIN FoodRules -> {0}]
      BY <3>1, <3>2
    <3> QED BY <3>1, <3>3, FoodsAreFinite, SumIsZero DEF Spent
  <2>3. Cardinality(Focused(ledger)) = 0
    BY <1>1, FS_EmptySet DEF Focused
  <2>4. eaten["berry"] = 0
    BY <1>1 DEF FoodRules
  <2>5. Earned(carly, ledger)
    BY <1>4 DEF Earned
  <2> QED BY <1>4, <2>1, <2>2, <2>3, <2>4, <2>5 DEF Booked
<1>8. bought \in [DOMAIN FoodRules -> Nat] /\ eaten \in [DOMAIN FoodRules -> Nat]
  BY <1>1
<1> QED BY <1>1, <1>2, <1>5, <1>6, <1>7, <1>8 DEF Inv, Books

LEMMA DecayStepKeeps ==
    ASSUME Inv, DecayStep
    PROVE  Inv'
<1>0. Valid(carly) /\ now \in Nat /\ Books /\ \A c \in calls : CallIsValid(c)
  BY DEF Inv, Books
<1>1. PICK x : x = ApplyCarlyDecay(carly)
  OBVIOUS
<1>2. /\ Valid(x) /\ SameBalance(carly, x) /\ x.inventory = carly.inventory
      /\ x.charges = carly.charges
  BY <1>0, <1>1, DecayIsValid DEF SameAccount, SameBalance
<1>3. SameBalance(carly, carly)
  BY DEF SameBalance
<1>4. CASE ReadCarly
  <2>1. UNCHANGED <<now, carly, ledger, bought, eaten>>
        /\ calls' = calls \cup {[kind |-> "decay", decayed |-> x]}
    BY <1>1, <1>4 DEF ReadCarly, Begin
  <2>2. Books'
    BY <1>0, <1>3, <2>1, RowIsSaved
  <2>3. CallIsValid([kind |-> "decay", decayed |-> x])
    BY <1>2 DEF CallIsValid
  <2> QED BY <1>0, <2>1, <2>2, <2>3, CallsStay DEF Inv
<1>5. CASE \E c \in Of("decay") : SaveDecay(c)
  <2>1. PICK c \in Of("decay") : SaveDecay(c)
    BY <1>5
  <2>2. UNCHANGED <<now, ledger, bought, eaten>> /\ calls' = calls \ {c}
        /\ carly' = SaveDecayed(carly, c.decayed)
    BY <2>1 DEF SaveDecay, End
  <2>3. Valid(c.decayed)
    BY <1>0, <2>1 DEF Of, CallIsValid
  <2>4. Valid(carly') /\ SameBalance(carly, carly') /\ carly'.inventory = carly.inventory
        /\ carly'.charges = carly.charges
    BY <1>0, <2>2, <2>3, SavedIs
  <2>5. Books'
    BY <1>0, <2>2, <2>4, RowIsSaved
  <2> QED BY <1>0, <2>2, <2>5, CallsStay DEF Inv
<1>6. CASE FetchCarly
  <2>1. UNCHANGED <<now, carly, ledger, bought, eaten>>
        /\ calls' = calls \cup {[kind |-> "refresh", seen |-> carly]}
    BY <1>6 DEF FetchCarly, Begin
  <2>2. Books'
    BY <1>0, <1>3, <2>1, RowIsSaved
  <2>3. CallIsValid([kind |-> "refresh", seen |-> carly])
    BY <1>0 DEF CallIsValid
  <2> QED BY <1>0, <2>1, <2>2, <2>3, CallsStay DEF Inv
<1>7. CASE \E c \in Of("refresh") : RefreshCarly(c)
  <2>1. PICK c \in Of("refresh") : RefreshCarly(c)
    BY <1>7
  <2>2. PICK y : y = ApplyCarlyDecay(c.seen)
    OBVIOUS
  <2>3. /\ UNCHANGED <<now, ledger, bought, eaten>>
        /\ calls' \subseteq calls \cup {[kind |-> "streak"]}
        /\ carly' = carly \/ carly' = SaveDecayed(carly, y)
    BY <2>1, <2>2 DEF RefreshCarly
  <2>4. Valid(c.seen)
    BY <1>0, <2>1 DEF Of, CallIsValid
  <2>5. Valid(y)
    BY <1>0, <2>2, <2>4, DecayIsValid
  <2>6. Valid(carly') /\ SameBalance(carly, carly') /\ carly'.inventory = carly.inventory
        /\ carly'.charges = carly.charges
    <3>1. CASE carly' = carly
      BY <1>0, <1>3, <3>1
    <3>2. CASE carly' = SaveDecayed(carly, y)
      BY <1>0, <2>5, <3>2, SavedIs
    <3> QED BY <2>3, <3>1, <3>2
  <2>7. Books'
    BY <1>0, <2>3, <2>6, RowIsSaved
  <2>8. CallIsValid([kind |-> "streak"])
    BY DEF CallIsValid
  <2> QED BY <1>0, <2>3, <2>7, <2>8, CallsStay DEF Inv
<1>8. CASE \E c \in Of("streak") : ResetStreak(c)
  <2>1. UNCHANGED <<now, ledger, bought, eaten>> /\ calls' \subseteq calls
        /\ carly' = [carly EXCEPT !.streak = 0]
    BY <1>8 DEF ResetStreak, End
  <2>2. carly \in CarlyRow
    BY <1>0 DEF Valid
  <2>3. /\ carly' \in CarlyRow /\ carly'.level = carly.level
        /\ carly'.experience = carly.experience /\ carly'.credits = carly.credits
        /\ carly'.inventory = carly.inventory /\ carly'.since = carly.since
        /\ carly'.charges = carly.charges /\ carly'.streak = 0
    BY <2>1, <2>2 DEF CarlyRow
  <2>4. Valid(carly')
    BY <1>0, <2>3 DEF Valid
  <2>5. Earned(carly', ledger)
    BY <2>3 DEF Earned
  <2>6. Booked(carly', ledger, Spent(bought), eaten["berry"])
    BY <1>0, <2>3, <2>5 DEF Books, Booked
  <2>7. Booked(carly', ledger', Spent(bought'), eaten'["berry"])
    BY <2>1, <2>6
  <2>8. Valid(carly)' /\ InventoryBalances'
    BY <1>0, <2>1, <2>3, <2>4 DEF Valid, Books, InventoryBalances
  <2>9. Typed(ledger') /\ Capped(ledger') /\ Once(ledger')
    BY <1>0, <2>1 DEF Books
  <2>10. Books'
    BY <1>0, <2>1, <2>7, <2>8, <2>9 DEF Books, Booked, Typed, Capped, Once
  <2> QED BY <1>0, <2>1, <2>10, CallsStay DEF Inv
<1>9. CASE ResetCarlySettings
  <2>1. UNCHANGED <<now, ledger, bought, eaten, calls>> /\ carly' = x
    BY <1>1, <1>9 DEF ResetCarlySettings
  <2>2. Books'
    BY <1>0, <1>2, <2>1, RowIsSaved
  <2> QED BY <1>0, <2>1, <2>2, CallsStay DEF Inv
<1> QED BY <1>4, <1>5, <1>6, <1>7, <1>8, <1>9 DEF DecayStep

LEMMA RewardStepKeeps ==
    ASSUME Inv, RewardStep
    PROVE  Inv'
<1>0. Valid(carly) /\ now \in Nat /\ Books /\ \A c \in calls : CallIsValid(c)
  BY DEF Inv, Books
<1>1. SameBalance(carly, carly)
  BY DEF SameBalance
<1>2. CASE \E key \in Jobs : \E base \in Worth(key[1]) : LookUpReward(key, base)
  <2>1. PICK key \in Jobs : \E base \in Worth(key[1]) : LookUpReward(key, base)
    BY <1>2
  <2>2. PICK base \in Worth(key[1]) : LookUpReward(key, base)
    BY <2>1
  <2>3. key[1] \in DOMAIN RewardRules
    BY JobsAreProductive DEF ProductiveEvents
  <2>4. base.xp \in Nat /\ base.credits \in Nat
    BY <2>3, WorthIsNat
  <2>5. UNCHANGED <<now, carly, ledger, bought, eaten>>
        /\ calls' = calls \cup {[kind |-> "reward", key |-> key, base |-> base]}
    BY <2>2 DEF LookUpReward, Begin
  <2>6. Books'
    BY <1>0, <1>1, <2>5, RowIsSaved
  <2>7. CallIsValid([kind |-> "reward", key |-> key, base |-> base])
    BY <2>4 DEF CallIsValid
  <2> QED BY <1>0, <2>5, <2>6, <2>7, CallsStay DEF Inv
<1>3. CASE \E c \in Of("reward") : AwardCarlyReward(c)
  <2>1. PICK c \in Of("reward") : AwardCarlyReward(c)
    BY <1>3
  <2>2. c.base.xp \in Nat /\ c.base.credits \in Nat
    BY <1>0, <2>1 DEF Of, CallIsValid
  <2>3. UNCHANGED <<now, bought, eaten>> /\ calls' \subseteq calls
        /\ Award(carly, c.key, c.key[1], c.base)
    BY <2>1 DEF AwardCarlyReward, End
  <2>4. Books'
    BY <1>0, <1>1, <2>2, <2>3, RowIsRewarded
  <2> QED BY <1>0, <2>3, <2>4, CallsStay DEF Inv
<1> QED BY <1>2, <1>3 DEF RewardStep

LEMMA BuyFoodKeeps ==
    ASSUME Books, NEW f \in Foods, BuyFood(f)
    PROVE  Books'
<1>0. Valid(carly) /\ now \in Nat /\ f \in DOMAIN FoodRules
  BY CatalogueIsKnown DEF Books
<1>1. PICK x : x = ApplyCarlyDecay(carly)
  OBVIOUS
<1>2. /\ Valid(x) /\ SameAccount(carly, x) /\ x.inventory = carly.inventory
      /\ x.credits = carly.credits /\ x.charges = carly.charges
  BY <1>0, <1>1, DecayIsValid
<1>3. /\ UNCHANGED <<now, ledger, eaten>> /\ carly.credits >= FoodRules[f].cost
      /\ carly' = Bought(x, f)
      /\ bought' = [bought EXCEPT ![f] = @ + 1]
  BY <1>1, <1>2 DEF BuyFood, Bought
<1>4. /\ Valid(carly') /\ carly'.credits = x.credits - FoodRules[f].cost
      /\ carly'.inventory = [x.inventory EXCEPT ![f] = @ + 1]
      /\ carly'.charges = x.charges
      /\ carly'.experience = x.experience /\ carly'.streak = x.streak
      /\ carly'.lastDay = x.lastDay
  <2>1. x.credits >= FoodRules[f].cost
    BY <1>2, <1>3
  <2> QED BY <1>0, <1>2, <1>3, <2>1, BoughtIs
<1>5. carly \in CarlyRow
  BY <1>0 DEF Valid
<1>6. carly.credits \in Nat /\ carly.inventory \in [DOMAIN FoodRules -> Nat]
  BY <1>5, RowFields
<1>7. /\ bought' \in [DOMAIN FoodRules -> Nat]
      /\ Spent(bought) \in Nat /\ Spent(bought') = Spent(bought) + FoodRules[f].cost
  BY <1>0, <1>3, SpentGrows DEF Books
<1>8. Booked(carly', ledger', Spent(bought'), eaten'["berry"])
  <2>1. Typed(ledger)
    BY DEF Books
  <2>2. SumCredits(ledger) \in Nat /\ FoodRules[f].cost \in Nat
    BY <1>0, <2>1, SumsOfEntries, FoodRulesAre
  <2>3. Booked(carly, ledger, Spent(bought), eaten["berry"])
    BY DEF Books
  <2>4. /\ carly'.experience = carly.experience /\ carly'.streak = carly.streak
        /\ carly'.lastDay = carly.lastDay /\ carly'.charges = carly.charges
        /\ carly'.credits = carly.credits - FoodRules[f].cost
    BY <1>2, <1>4 DEF SameAccount
  <2>5. Earned(carly', ledger)
    BY <2>3, <2>4 DEF Booked, Earned
  <2>6. carly'.credits + Spent(bought') = 40 + SumCredits(ledger)
    <3>1. carly.credits + Spent(bought) = 40 + SumCredits(ledger)
      BY <2>3 DEF Booked
    <3> QED BY <1>6, <1>7, <2>2, <2>4, <3>1
  <2>7. Booked(carly', ledger, Spent(bought'), eaten["berry"])
    BY <2>3, <2>4, <2>5, <2>6 DEF Booked
  <2> QED BY <1>3, <2>7
<1>9. InventoryBalances'
  <2>1. \A i \in DOMAIN FoodRules :
            carly.inventory[i] + eaten[i] = InitialInventory[i] + bought[i]
    BY DEF Books, InventoryBalances
  <2>2. \A i \in DOMAIN FoodRules :
            /\ carly.inventory[i] \in Nat /\ eaten[i] \in Nat /\ bought[i] \in Nat
            /\ InitialInventory[i] \in Nat
    BY <1>6 DEF Books, InitialInventory
  <2>3. \A i \in DOMAIN FoodRules :
            /\ carly'.inventory[i] = IF i = f THEN carly.inventory[i] + 1
                                     ELSE carly.inventory[i]
            /\ bought'[i] = IF i = f THEN bought[i] + 1 ELSE bought[i]
            /\ eaten'[i] = eaten[i]
    BY <1>2, <1>3, <1>4, <1>6 DEF Books
  <2>4. \A i \in DOMAIN FoodRules :
            carly'.inventory[i] + eaten'[i] = InitialInventory[i] + bought'[i]
    BY <2>1, <2>2, <2>3
  <2> QED BY <2>4 DEF InventoryBalances
<1>10. Typed(ledger') /\ Capped(ledger') /\ Once(ledger')
  BY <1>3 DEF Books
<1>11. Valid(carly)'
  BY <1>3, <1>4 DEF Valid
<1> QED BY <1>3, <1>7, <1>8, <1>9, <1>10, <1>11 DEF Books, Booked, Typed, Capped, Once

LEMMA FeedKeeps ==
    ASSUME Books, NEW f \in Foods, Feed(f)
    PROVE  Books'
<1>0. Valid(carly) /\ now \in Nat /\ f \in DOMAIN FoodRules
  BY CatalogueIsKnown DEF Books
<1>1. PICK x : x = ApplyCarlyDecay(carly)
  OBVIOUS
<1>2. /\ Valid(x) /\ SameBalance(carly, x) /\ x.inventory = carly.inventory
      /\ x.charges = carly.charges
  BY <1>0, <1>1, DecayIsValid DEF SameAccount, SameBalance
<1>3. PICK c : c = Fed(x, f)
  OBVIOUS
<1>4. PICK key : key = <<"feed", Today, TimesToday("feed") + 1>>
  OBVIOUS
<1>5. PICK base : base = RewardRules["feed"]
  OBVIOUS
<1>6. /\ UNCHANGED <<now, bought>> /\ x.inventory[f] > 0
      /\ Award(c, key, "feed", base)
      /\ eaten' = [eaten EXCEPT ![f] = @ + 1]
  BY <1>1, <1>3, <1>4, <1>5 DEF Feed, RewardCare
<1>7. /\ Valid(c) /\ SameBalance(x, c)
      /\ c.inventory = [x.inventory EXCEPT ![f] = @ - 1]
      /\ c.charges = IF f = "berry" THEN 1 ELSE x.charges
  BY <1>0, <1>2, <1>3, <1>6, FedIs
<1>8. base.xp \in Nat /\ base.credits \in Nat
  BY <1>5 DEF RewardRules
<1>9. carly \in CarlyRow
  BY <1>0 DEF Valid
<1>10. carly.charges \in 0..1 /\ carly.inventory \in [DOMAIN FoodRules -> Nat]
  BY <1>9, RowFields
<1>11. Spent(bought) \in Nat /\ eaten["berry"] \in Nat
  BY BooksAreNumbers
<1>12. eaten' \in [DOMAIN FoodRules -> Nat]
  BY <1>0, <1>6 DEF Books
<1>13. PICK berries \in Nat : berries = eaten'["berry"]
  <2>1. "berry" \in DOMAIN FoodRules
    BY DEF FoodRules
  <2> QED BY <1>12, <2>1
<1>14. berries = IF f = "berry" THEN eaten["berry"] + 1 ELSE eaten["berry"]
  <2>1. "berry" \in DOMAIN FoodRules
    BY DEF FoodRules
  <2>2. eaten \in [DOMAIN FoodRules -> Nat]
    BY DEF Books
  <2> QED BY <1>0, <1>6, <1>13, <2>1, <2>2
<1>15. Booked(c, ledger, Spent(bought), berries)
  <2>1. Booked(carly, ledger, Spent(bought), eaten["berry"])
    BY DEF Books
  <2>2. SameBalance(carly, c)
    BY <1>2, <1>7 DEF SameBalance
  <2>3. Earned(c, ledger)
    BY <2>1, <2>2 DEF Booked, Earned, SameBalance
  <2>4. Cardinality(Focused(ledger)) + c.charges <= berries
    <3>1. Cardinality(Focused(ledger)) + carly.charges <= eaten["berry"]
      BY <2>1 DEF Booked
    <3>2. Cardinality(Focused(ledger)) \in Nat
      BY FS_Subset, FS_CardinalityType DEF Books, Typed, Focused
    <3>3. c.charges = IF f = "berry" THEN 1 ELSE carly.charges
      BY <1>2, <1>7
    <3> QED BY <1>10, <1>11, <1>14, <3>1, <3>2, <3>3
  <2> QED BY <2>1, <2>2, <2>3, <2>4 DEF Booked, SameBalance
<1>16. /\ Typed(ledger') /\ Capped(ledger') /\ Once(ledger')
       /\ Valid(carly') /\ carly'.inventory = c.inventory
       /\ Booked(carly', ledger', Spent(bought), berries)
  <2>1. Spent(bought) \in Int /\ berries \in Int
    BY <1>11
  <2> QED BY <1>0, <1>6, <1>7, <1>8, <1>15, <2>1, AwardIsBooked DEF Books
<1>17. InventoryBalances'
  <2>1. \A i \in DOMAIN FoodRules :
            carly.inventory[i] + eaten[i] = InitialInventory[i] + bought[i]
    BY DEF Books, InventoryBalances
  <2>2. \A i \in DOMAIN FoodRules :
            /\ carly.inventory[i] \in Nat /\ eaten[i] \in Nat /\ bought[i] \in Nat
            /\ InitialInventory[i] \in Nat
    BY <1>10 DEF Books, InitialInventory
  <2>3. \A i \in DOMAIN FoodRules :
            /\ carly'.inventory[i] = IF i = f THEN carly.inventory[i] - 1
                                     ELSE carly.inventory[i]
            /\ eaten'[i] = IF i = f THEN eaten[i] + 1 ELSE eaten[i]
            /\ bought'[i] = bought[i]
    BY <1>2, <1>6, <1>7, <1>10, <1>16 DEF Books
  <2>4. \A i \in DOMAIN FoodRules :
            carly'.inventory[i] + eaten'[i] = InitialInventory[i] + bought'[i]
    BY <2>1, <2>2, <2>3
  <2> QED BY <2>4 DEF InventoryBalances
<1>18. Valid(carly)'
  BY <1>6, <1>16 DEF Valid
<1>19. Booked(carly', ledger', Spent(bought'), eaten'["berry"])
  BY <1>6, <1>13, <1>16
<1>20. bought' \in [DOMAIN FoodRules -> Nat]
  BY <1>6 DEF Books
<1> QED BY <1>6, <1>12, <1>16, <1>17, <1>18, <1>19, <1>20
        DEF Books, Booked, Typed, Capped, Once

LEMMA CareStepKeeps ==
    ASSUME Inv, CareStep
    PROVE  Inv'
<1>0. Valid(carly) /\ now \in Nat /\ Books /\ \A c \in calls : CallIsValid(c)
  BY DEF Inv, Books
<1>1. PICK x : x = ApplyCarlyDecay(carly)
  OBVIOUS
<1>2. /\ Valid(x) /\ SameBalance(carly, x) /\ x.inventory = carly.inventory
      /\ x.charges = carly.charges
  BY <1>0, <1>1, DecayIsValid DEF SameAccount, SameBalance
<1>3. CASE \E a \in Cares \cap {"pet", "play"} : PetOrPlay(a)
  <2>1. PICK a \in Cares \cap {"pet", "play"} : PetOrPlay(a)
    BY <1>3
  <2>2. PICK c : c = Tended(x, a)
    OBVIOUS
  <2>3. PICK key : key = <<a, Today, TimesToday(a) + 1>>
    OBVIOUS
  <2>4. PICK base : base = RewardRules[a]
    OBVIOUS
  <2>5. UNCHANGED <<now, bought, eaten, calls>> /\ Award(c, key, a, base)
    BY <1>1, <2>1, <2>2, <2>3, <2>4 DEF PetOrPlay, RewardCare
  <2>6. base.xp \in Nat /\ base.credits \in Nat
    BY <2>1, <2>4 DEF RewardRules
  <2>7. Valid(c) /\ SameBalance(x, c) /\ c.inventory = x.inventory /\ c.charges = x.charges
    BY <1>2, <2>1, <2>2, TendedIs
  <2>8. SameBalance(carly, c) /\ c.inventory = carly.inventory /\ c.charges = carly.charges
    BY <1>2, <2>7 DEF SameBalance
  <2>9. Books'
    BY <1>0, <2>5, <2>6, <2>7, <2>8, RowIsRewarded
  <2> QED BY <1>0, <2>5, <2>9, CallsStay DEF Inv
<1>4. CASE \E a \in Cares \cap {"sleep", "wake"} : SleepOrWake(a)
  <2>1. PICK a \in Cares \cap {"sleep", "wake"} : SleepOrWake(a)
    BY <1>4
  <2>2. PICK b \in BOOLEAN : b = (a = "sleep")
    OBVIOUS
  <2>3. PICK c : c = [x EXCEPT !.sleeping = b, !.since["energy"] = now]
    OBVIOUS
  <2>4. UNCHANGED <<now, ledger, bought, eaten, calls>> /\ carly' = Tended(c, a)
    BY <1>1, <2>1, <2>2, <2>3 DEF SleepOrWake
  <2>5. Valid(c) /\ SameBalance(x, c) /\ c.inventory = x.inventory /\ c.charges = x.charges
    BY <1>0, <1>2, <2>3, SleepsIs
  <2>6. Valid(carly') /\ SameBalance(c, carly') /\ carly'.inventory = c.inventory
        /\ carly'.charges = c.charges
    BY <2>1, <2>4, <2>5, TendedIs
  <2>7. SameBalance(carly, carly') /\ carly'.inventory = carly.inventory
        /\ carly'.charges = carly.charges
    BY <1>2, <2>5, <2>6 DEF SameBalance
  <2>8. Books'
    BY <1>0, <2>4, <2>6, <2>7, RowIsSaved
  <2> QED BY <1>0, <2>4, <2>8, CallsStay DEF Inv
<1>5. CASE \E f \in Foods : BuyFood(f)
  <2>1. UNCHANGED <<now, calls>>
    BY <1>5 DEF BuyFood
  <2>2. Books'
    BY <1>0, <1>5, BuyFoodKeeps
  <2> QED BY <1>0, <2>1, <2>2, CallsStay DEF Inv
<1>6. CASE \E f \in Foods : "feed" \in Cares /\ Feed(f)
  <2>1. UNCHANGED <<now, calls>>
    BY <1>6 DEF Feed
  <2>2. Books'
    BY <1>0, <1>6, FeedKeeps
  <2> QED BY <1>0, <2>1, <2>2, CallsStay DEF Inv
<1> QED BY <1>3, <1>4, <1>5, <1>6 DEF CareStep

LEMMA TickKeeps ==
    ASSUME Inv, Tick
    PROVE  Inv'
<1>1. now \in Nat /\ now' \in Nat /\ now' > now
      /\ UNCHANGED <<carly, ledger, calls, bought, eaten>>
  BY BoundsAreNat DEF Tick, Inv, Books
<1>2. ASSUME NEW c, Valid(c)
      PROVE  c \in CarlyRow /\ c.level = LevelState(c.experience)
             /\ \A n \in Needs : c.since[n] <= now'
  <2>1. c \in CarlyRow
    BY <1>2 DEF Valid
  <2>2. \A n \in Needs : c.since[n] \in Nat
    BY <2>1, RowFields
  <2> QED BY <1>1, <1>2, <2>1, <2>2 DEF Valid
<1>3. Valid(carly)'
  <2>1. Valid(carly)
    BY DEF Inv, Books
  <2> QED BY <1>1, <1>2, <2>1 DEF Valid
<1>4. (\A c \in calls : CallIsValid(c))'
  <2>1. \A c \in calls : CallIsValid(c)
    BY DEF Inv
  <2> SUFFICES ASSUME NEW c \in calls
               PROVE  CallIsValid(c)'
    BY <1>1
  <2>2. c.kind = "decay" => Valid(c.decayed)'
    BY <1>2, <2>1 DEF CallIsValid, Valid
  <2>3. c.kind = "refresh" => Valid(c.seen)'
    BY <1>2, <2>1 DEF CallIsValid, Valid
  <2> QED BY <2>1, <2>2, <2>3 DEF CallIsValid
<1>5. Typed(ledger') /\ Capped(ledger') /\ Once(ledger')
      /\ Booked(carly', ledger', Spent(bought'), eaten'["berry"])
  BY <1>1 DEF Inv, Books
<1>6. InventoryBalances'
  BY <1>1 DEF Inv, Books, InventoryBalances
<1>7. bought' \in [DOMAIN FoodRules -> Nat] /\ eaten' \in [DOMAIN FoodRules -> Nat]
  BY <1>1 DEF Inv, Books
<1> QED BY <1>1, <1>3, <1>4, <1>5, <1>6, <1>7 DEF Inv, Books, Booked, Typed, Capped, Once

LEMMA Inductive == Spec => []Inv
<1>1. Init => Inv
  BY InitIsValid
<1>2. Inv /\ [Next]_vars => Inv'
  <2> SUFFICES ASSUME Inv, [Next]_vars
               PROVE  Inv'
    OBVIOUS
  <2>1. CASE DecayStep
    BY <2>1, DecayStepKeeps
  <2>2. CASE RewardStep
    BY <2>2, RewardStepKeeps
  <2>3. CASE CareStep
    BY <2>3, CareStepKeeps
  <2>4. CASE Tick
    BY <2>4, TickKeeps
  <2>5. ASSUME UNCHANGED <<now, carly, ledger, bought, eaten>>, calls' \subseteq calls
        PROVE  Inv'
    <3>1. Books /\ Valid(carly) /\ SameBalance(carly, carly)
      BY DEF Inv, Books, SameBalance
    <3>2. Books'
      BY <2>5, <3>1, RowIsSaved
    <3> QED BY <2>5, <3>2, CallsStay DEF Inv
  <2>6. CASE Abandon
    BY <2>5, <2>6 DEF Abandon, End
  <2>7. CASE UNCHANGED vars
    BY <2>5, <2>7 DEF vars
  <2> QED BY <2>1, <2>2, <2>3, <2>4, <2>6, <2>7 DEF Next
<1> QED BY <1>1, <1>2, PTL DEF Spec

\* Every need stays within 0 and 100, no amount is negative and no decay is dated
\* in the future, though decays are written from rows read before rewards and care.
THEOREM TypeCorrect == Spec => []TypeOK
<1>1. Inv => TypeOK
  <2> SUFFICES ASSUME Inv
               PROVE  TypeOK
    OBVIOUS
  <2>1. now \in Nat /\ Valid(carly) /\ Typed(ledger)
    BY DEF Inv, Books
  <2>2. \A r \in ledger : r.xp \in Nat /\ r.credits \in Nat /\ r.focus \in BOOLEAN
    BY <2>1 DEF Typed, Entry
  <2> QED BY <2>1, <2>2 DEF TypeOK, Valid
<1> QED BY <1>1, Inductive, PTL

\* Experience, credits and inventory are what the ledger and the purchases add up
\* to: no reward or purchase is lost or counted twice, whatever decays are written.
THEOREM BooksBalance == Spec => []LedgerBalances
<1>1. Inv => LedgerBalances
  BY DEF Inv, Books, Booked, InventoryBalances, Spent, LedgerBalances
<1> QED BY <1>1, Inductive, PTL

\* No day pays more experience or credits than its hard caps, bonuses included.
THEOREM CapsHold == Spec => []DailyCapsHold
<1>1. Inv => DailyCapsHold
  BY DEF Inv, Books, Capped, DailyCapsHold
<1> QED BY <1>1, Inductive, PTL

\* A job is rewarded once, though the ledger is searched before the row is locked.
THEOREM PaidOnce == Spec => []RewardedOnce
<1>1. Inv => RewardedOnce
  BY DEF Inv, Books, Once, RewardedOnce
<1> QED BY <1>1, Inductive, PTL

\* No more completions are focused than berries were eaten.
THEOREM BerriesAreSpent == Spec => []FocusIsSpentOnce
<1>1. Inv => FocusIsSpentOnce
  <2> SUFFICES ASSUME Inv
               PROVE  FocusIsSpentOnce
    OBVIOUS
  <2>1. Cardinality(Focused(ledger)) + carly.charges <= eaten["berry"]
    BY DEF Inv, Books, Booked
  <2>2. carly.charges \in 0..1
    BY RowFields DEF Inv, Books, Valid
  <2>3. Cardinality(Focused(ledger)) \in Nat
    BY FS_Subset, FS_CardinalityType DEF Inv, Books, Typed, Focused
  <2>4. eaten["berry"] \in Nat
    BY BooksAreNumbers DEF Inv
  <2>5. Cardinality(Focused(ledger)) <= eaten["berry"]
    BY <2>1, <2>2, <2>3, <2>4
  <2> QED BY <2>5 DEF Focused, FocusIsSpentOnce
<1> QED BY <1>1, Inductive, PTL

\* Every day of a streak has a productive reward in the ledger.
THEOREM StreaksAreEarned == Spec => []StreakIsEarned
<1>1. Inv => StreakIsEarned
  BY DEF Inv, Books, Booked, Earned, StreakIsEarned
<1> QED BY <1>1, Inductive, PTL

\* The level stored is the one whose thresholds add up to the experience: the loop
\* of level_state ends where the sum of the thresholds says.
THEOREM LevelsAreExact == Spec => []LevelIsExact
<1>1. Inv => LevelIsExact
  <2> SUFFICES ASSUME Inv
               PROVE  LevelIsExact
    OBVIOUS
  <2>1. carly.experience \in Nat /\ carly.level = LevelState(carly.experience)
    BY RowFields DEF Inv, Books, Valid
  <2>2. Reached(carly.level) <= carly.experience
        /\ carly.experience < Reached(carly.level + 1)
    BY <2>1, Levels
  <2> QED BY <2>2 DEF Reached, LevelIsExact
<1> QED BY <1>1, Inductive, PTL
================================================================================
