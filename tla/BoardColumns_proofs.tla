--------------------------- MODULE BoardColumns_proofs --------------------------
(* Proofs about BoardColumns, for any columns, tasks and requests.             *)
EXTENDS BoardColumns, FiniteSetTheorems, TLAPS

(***************************************************************************)
(* Sorting a finite set.                                                   *)
(***************************************************************************)

\* The relation orders the set.
Orders(R, S) ==
    /\ \A d \in S : <<d, d>> \notin R
    /\ \A c, d, e \in S : <<c, d>> \in R /\ <<d, e>> \in R => <<c, e>> \in R
    /\ \A d, e \in S : d # e => <<d, e>> \in R \/ <<e, d>> \in R

Before(S, R, e) == {d \in S : <<d, e>> \in R}

Rank(S, R, e) == Cardinality(Before(S, R, e))

\* An element has as many before it as its place says: 0, 1, 2 ...
LEMMA Ranks ==
    ASSUME NEW S, IsFiniteSet(S), NEW R, Orders(R, S)
    PROVE  /\ \A e \in S : Rank(S, R, e) \in 0..Cardinality(S) - 1
           /\ \A d, e \in S : <<d, e>> \in R <=> Rank(S, R, d) < Rank(S, R, e)
           /\ \A k \in 0..Cardinality(S) - 1 : \E e \in S : Rank(S, R, e) = k
<1>card. Cardinality(S) \in Nat
  BY FS_CardinalityType
<1>sub. ASSUME NEW e \in S
        PROVE  IsFiniteSet(Before(S, R, e)) /\ Rank(S, R, e) \in Nat
  <2>1. Before(S, R, e) \in SUBSET S
    BY DEF Before
  <2>2. IsFiniteSet(Before(S, R, e))
    BY <2>1, FS_Subset
  <2> QED BY <2>2, FS_CardinalityType DEF Rank
<1>1. ASSUME NEW e \in S
      PROVE  Rank(S, R, e) \in 0..Cardinality(S) - 1
  <2>1. Before(S, R, e) \in SUBSET S /\ e \notin Before(S, R, e)
    BY DEF Before, Orders
  <2>2. Cardinality(Before(S, R, e)) <= Cardinality(S)
    BY <2>1, FS_Subset
  <2>3. Cardinality(Before(S, R, e)) # Cardinality(S)
    BY <2>1, FS_Subset
  <2> QED BY <2>2, <2>3, <1>card, <1>sub DEF Rank
<1>2. ASSUME NEW d \in S, NEW e \in S, <<d, e>> \in R
      PROVE  Rank(S, R, d) < Rank(S, R, e)
  <2>1. Before(S, R, d) \in SUBSET Before(S, R, e)
    BY <1>2 DEF Before, Orders
  <2>2. d \in Before(S, R, e) /\ d \notin Before(S, R, d)
    BY <1>2 DEF Before, Orders
  <2>3. IsFiniteSet(Before(S, R, e))
    BY <1>sub
  <2>4. Cardinality(Before(S, R, d)) <= Cardinality(Before(S, R, e))
    BY <2>1, <2>3, FS_Subset
  <2>5. Cardinality(Before(S, R, d)) # Cardinality(Before(S, R, e))
    BY <2>1, <2>2, <2>3, FS_Subset
  <2> QED BY <2>4, <2>5, <1>sub DEF Rank
<1>3. ASSUME NEW d \in S, NEW e \in S, Rank(S, R, d) < Rank(S, R, e)
      PROVE  <<d, e>> \in R
  <2>1. d # e
    BY <1>3, <1>sub
  <2>2. <<e, d>> \notin R
    BY <1>2, <1>3, <1>sub
  <2> QED BY <2>1, <2>2 DEF Orders
<1>4. ASSUME NEW d \in S, NEW e \in S, Rank(S, R, d) = Rank(S, R, e)
      PROVE  d = e
  <2> SUFFICES ASSUME d # e PROVE FALSE
    OBVIOUS
  <2>1. <<d, e>> \in R \/ <<e, d>> \in R
    BY DEF Orders
  <2> QED BY <2>1, <1>2, <1>4, <1>sub
<1>5. \A k \in 0..Cardinality(S) - 1 : \E e \in S : Rank(S, R, e) = k
  <2>1. PICK n \in Nat : n = Cardinality(S)
    BY <1>card
  <2>2. PICK f : f = [e \in S |-> Rank(S, R, e)]
    OBVIOUS
  <2>3. f \in Injection(S, 0..n - 1)
    BY <1>1, <1>4, <2>1, <2>2 DEF Injection, IsInjective
  <2>a. PICK m \in Int : m = n - 1
    BY <2>1
  <2>b. IsFiniteSet(0..m) /\ Cardinality(0..m) = IF 0 > m THEN 0 ELSE m - 0 + 1
    BY FS_Interval
  <2>4. IsFiniteSet(0..n - 1) /\ Cardinality(0..n - 1) = n
    BY <2>1, <2>a, <2>b
  <2>5. f \in Surjection(S, 0..n - 1)
    BY <2>1, <2>3, <2>4, FS_Injection
  <2> QED BY <2>1, <2>2, <2>5 DEF Surjection
<1> QED BY <1>1, <1>2, <1>3, <1>5

\* Sorted is the list of the elements of a set, each once, in their order.
LEMMA SortedIsInOrder ==
    ASSUME NEW S, IsFiniteSet(S), NEW R, Orders(R, S)
    PROVE  /\ Sorted(S, R) \in [1..Cardinality(S) -> S]
           /\ \A i, j \in 1..Cardinality(S) :
                  <<Sorted(S, R)[i], Sorted(S, R)[j]>> \in R <=> i < j
           /\ \A e \in S : \E i \in 1..Cardinality(S) : Sorted(S, R)[i] = e
<1>card. Cardinality(S) \in Nat
  BY FS_CardinalityType
<1> DEFINE Element(i) == CHOOSE e \in S : Rank(S, R, e) = i - 1
<1>s. PICK s : s = Sorted(S, R)
  OBVIOUS
<1>f. s = [i \in 1..Cardinality(S) |-> Element(i)]
  BY <1>s DEF Sorted, Rank, Before
<1>e. ASSUME NEW i \in 1..Cardinality(S)
      PROVE  Element(i) \in S /\ Rank(S, R, Element(i)) = i - 1
  <2>1. \E e \in S : Rank(S, R, e) = i - 1
    BY <1>card, Ranks
  <2> QED BY <2>1
<1> HIDE DEF Element
<1>1. ASSUME NEW i \in 1..Cardinality(S)
      PROVE  s[i] \in S /\ Rank(S, R, s[i]) = i - 1
  BY <1>f, <1>e
<1>2. ASSUME NEW i \in 1..Cardinality(S), NEW j \in 1..Cardinality(S)
      PROVE  <<s[i], s[j]>> \in R <=> i < j
  <2>1. <<s[i], s[j]>> \in R <=> Rank(S, R, s[i]) < Rank(S, R, s[j])
    BY <1>1, Ranks
  <2> QED BY <2>1, <1>1, <1>card
<1>3. ASSUME NEW e \in S
      PROVE  \E i \in 1..Cardinality(S) : s[i] = e
  <2>1. PICK k \in 0..Cardinality(S) - 1 : k = Rank(S, R, e)
    BY Ranks
  <2>2. k + 1 \in 1..Cardinality(S) /\ (k + 1) - 1 = k
    BY <1>card
  <2>3. s[k + 1] \in S /\ Rank(S, R, s[k + 1]) = Rank(S, R, e)
    BY <1>1, <2>1, <2>2
  <2>4. ~(<<s[k + 1], e>> \in R) /\ ~(<<e, s[k + 1]>> \in R)
    <3>1. \A d, c \in S : <<d, c>> \in R <=> Rank(S, R, d) < Rank(S, R, c)
      BY Ranks
    <3> QED BY <2>1, <2>3, <3>1, <1>card
  <2>5. s[k + 1] = e
    BY <2>3, <2>4 DEF Orders
  <2> QED BY <2>2, <2>5
<1>4. s \in [1..Cardinality(S) -> S]
  BY <1>f, <1>e
<1> QED BY <1>s, <1>2, <1>3, <1>4

\* Where a list that names nothing twice has an element.
LEMMA Places ==
    ASSUME NEW n \in Nat, NEW S, NEW s \in [1..n -> S],
           \A i, j \in 1..n : i # j => s[i] # s[j]
    PROVE  /\ \A i \in 1..n : Index(s, s[i]) = i - 1
           /\ \A e \in ToSet(s) : /\ Index(s, e) \in 0..n - 1
                                  /\ s[Index(s, e) + 1] = e
           /\ ToSet(s) \subseteq S
<1>1. DOMAIN s = 1..n
  OBVIOUS
<1>2. ASSUME NEW i \in 1..n
      PROVE  Index(s, s[i]) = i - 1
  <2>1. PICK k : k = CHOOSE j \in DOMAIN s : s[j] = s[i]
    OBVIOUS
  <2>2. k \in 1..n /\ s[k] = s[i]
    BY <1>1, <2>1
  <2>3. k = i
    BY <2>2
  <2> QED BY <2>1, <2>3 DEF Index
<1>3. \A e \in ToSet(s) : \E i \in 1..n : e = s[i]
  BY <1>1 DEF ToSet
<1> QED BY <1>2, <1>3

LEMMA SortedPlaces ==
    ASSUME NEW S, IsFiniteSet(S), NEW R, Orders(R, S)
    PROVE  LET s == Sorted(S, R)
           IN  /\ s \in [1..Cardinality(S) -> S]
               /\ \A i, j \in 1..Cardinality(S) : i # j => s[i] # s[j]
               /\ ToSet(s) = S
               /\ \A e \in S : Index(s, e) \in 0..Cardinality(S) - 1
               /\ \A d, e \in S : <<d, e>> \in R <=> Index(s, d) < Index(s, e)
               /\ \A k \in 0..Cardinality(S) - 1 : \E e \in S : Index(s, e) = k
<1>n. PICK n \in Nat : n = Cardinality(S)
  BY FS_CardinalityType
<1>s. PICK s : s = Sorted(S, R)
  OBVIOUS
<1>1. /\ s \in [1..n -> S]
      /\ \A i, j \in 1..n : <<s[i], s[j]>> \in R <=> i < j
      /\ \A e \in S : \E i \in 1..n : s[i] = e
  BY <1>n, <1>s, SortedIsInOrder
<1>2. \A i, j \in 1..n : i # j => s[i] # s[j]
  <2> SUFFICES ASSUME NEW i \in 1..n, NEW j \in 1..n, i # j, s[i] = s[j]
               PROVE  FALSE
    OBVIOUS
  <2>1. <<s[i], s[j]>> \notin R /\ <<s[j], s[i]>> \notin R
    BY <1>1 DEF Orders
  <2> QED BY <2>1, <1>1
<1>3. /\ \A i \in 1..n : Index(s, s[i]) = i - 1
      /\ \A e \in ToSet(s) : Index(s, e) \in 0..n - 1 /\ s[Index(s, e) + 1] = e
  BY <1>1, <1>2, Places
<1>4. ToSet(s) = S
  BY <1>1 DEF ToSet
<1>5. \A d, e \in S : <<d, e>> \in R <=> Index(s, d) < Index(s, e)
  <2> TAKE d, e \in S
  <2>1. PICK i \in 1..n : s[i] = d
    BY <1>1
  <2>2. PICK j \in 1..n : s[j] = e
    BY <1>1
  <2>3. Index(s, d) = i - 1 /\ Index(s, e) = j - 1
    BY <1>3, <2>1, <2>2
  <2> QED BY <1>1, <2>1, <2>2, <2>3
<1>6. ASSUME NEW k \in 0..n - 1
      PROVE  \E e \in S : Index(s, e) = k
  <2>1. k + 1 \in 1..n /\ (k + 1) - 1 = k
    OBVIOUS
  <2>2. s[k + 1] \in S /\ Index(s, s[k + 1]) = k
    BY <1>1, <1>3, <2>1
  <2> QED BY <2>2
<1> QED BY <1>n, <1>s, <1>1, <1>2, <1>3, <1>4, <1>5, <1>6

(***************************************************************************)
(* The least and the greatest number of a set.                             *)
(***************************************************************************)

LEMMA MaxIsGreatest ==
    ASSUME NEW P \in SUBSET Nat, IsFiniteSet(P), P # {}
    PROVE  Max(P) \in P /\ \A x \in P : x <= Max(P)
<1>r. PICK R : R = {p \in P \X P : p[1] < p[2]}
  OBVIOUS
<1>1. Orders(R, P)
  BY <1>r DEF Orders
<1>n. PICK n \in Nat : n = Cardinality(P)
  BY FS_CardinalityType
<1>2. n # 0
  BY <1>n, FS_EmptySet
<1>s. PICK s : s = Sorted(P, R)
  OBVIOUS
<1>3. /\ s \in [1..n -> P]
      /\ \A i, j \in 1..n : <<s[i], s[j]>> \in R <=> i < j
      /\ \A e \in P : \E i \in 1..n : s[i] = e
  BY <1>1, <1>n, <1>s, SortedIsInOrder
<1>4. s[n] \in P /\ \A x \in P : x <= s[n]
  <2>1. s[n] \in P
    BY <1>2, <1>3
  <2>2. ASSUME NEW i \in 1..n
        PROVE  s[i] <= s[n]
    <3>1. s[i] \in P /\ s[n] \in P
      BY <1>3, <2>1
    <3>2. i # n => <<s[i], s[n]>> \in R
      BY <1>2, <1>3
    <3>3. \A x, y \in P : <<x, y>> \in R => x < y
      BY <1>r
    <3>4. s[i] \in Nat /\ s[n] \in Nat
      BY <3>1
    <3> QED BY <3>1, <3>2, <3>3, <3>4
  <2> QED BY <2>1, <2>2, <1>3
<1>5. \E x \in P : \A y \in P : x >= y
  BY <1>4
<1>6. Max(P) \in P /\ \A y \in P : Max(P) >= y
  BY <1>5 DEF Max
<1> QED BY <1>6

LEMMA NextIsGreater ==
    ASSUME NEW P \in SUBSET Nat, IsFiniteSet(P)
    PROVE  NextPosition(P) \in Nat /\ \A x \in P : x < NextPosition(P)
<1>1. CASE P = {}
  BY <1>1 DEF NextPosition
<1>2. CASE P # {}
  <2>1. PICK m : m = Max(P)
    OBVIOUS
  <2>2. m \in P /\ \A x \in P : x <= m
    BY <1>2, <2>1, MaxIsGreatest
  <2> QED BY <1>2, <2>1, <2>2 DEF NextPosition
<1> QED BY <1>1, <1>2

LEMMA NextOfInterval ==
    ASSUME NEW n \in Nat
    PROVE  NextPosition(0..n - 1) = n
<1>1. CASE n = 0
  BY <1>1 DEF NextPosition
<1>2. CASE n # 0
  <2>1. n - 1 \in 0..n - 1 /\ 0..n - 1 \in SUBSET Nat
    BY <1>2
  <2>2. IsFiniteSet(0..n - 1)
    BY FS_Interval
  <2>3. Max(0..n - 1) \in 0..n - 1 /\ n - 1 <= Max(0..n - 1)
    BY <2>1, <2>2, MaxIsGreatest
  <2>4. Max(0..n - 1) = n - 1
    BY <2>3
  <2>5. 0..n - 1 # {}
    BY <2>1
  <2> QED BY <2>4, <2>5 DEF NextPosition
<1> QED BY <1>1, <1>2

\* The key of a new column belongs to no column and to no request.
LEMMA NewIdIsFree ==
    ASSUME FreeIds # {}
    PROVE  NewId \in FreeIds
<1>1. FreeIds \subseteq Nat
  BY IdsOrdered DEF FreeIds
<1>2. PICK S : S = FreeIds
  OBVIOUS
<1>3. IsWellFoundedOn(OpToRel(<, Nat), Nat)
  BY NatLessThanWellFounded
<1>4. PICK m \in S : \A y \in S : ~ (<<y, m>> \in OpToRel(<, Nat))
  BY <1>1, <1>2, <1>3, WFMin
<1>5. \A y \in S : m <= y
  <2> TAKE y \in S
  <2>1. m \in Nat /\ y \in Nat
    BY <1>1, <1>2
  <2>2. ~(y < m)
    BY <1>4, <2>1 DEF OpToRel
  <2> QED BY <2>1, <2>2
<1> QED BY <1>2, <1>5 DEF NewId

(***************************************************************************)
(* The inductive invariant.                                                *)
(***************************************************************************)

NamesOnce(s) == \A i, j \in DOMAIN s : i # j => s[i] # s[j]

\* A reorder names what its client has seen.  If the board still has the
\* version that he has seen, either nothing has changed or there is a column,
\* an intake, that he has not seen.
ReorderSeen(call) ==
    /\ call.version <= version
    /\ NamesOnce(call.order)
    /\ ToSet(call.order) = ToSet(call.seen)
    /\ call.version = version =>
          \/ call.seen = Order /\ ToSet(call.order) = Live
          \/ ~(Live \subseteq ToSet(call.order))

CallInv(call) ==
    /\ call.kind = "reorder" => ReorderSeen(call)
    /\ call.kind = "intake" => NamesOnce(call.seen)
    /\ call.kind = "deleteWithMove" => call.target # call.column

CallsInv == \A r \in Requests : calls[r] # None => CallInv(calls[r])

Arranged == IsFiniteSet(Live) /\ ColumnsAreInOrder

RowsTyped ==
    /\ version \in Nat
    /\ columns \in [ColumnIds -> Column]
    /\ tasks \in [Tasks -> Task]
    /\ calls \in [Requests -> Call \cup {None}]

BoardInv == RowsTyped /\ Arranged /\ CallsInv

\* What a request that deletes a column has locked stays as it is, nobody comes
\* to its two columns, and the tasks of a tidy target stay below the place that
\* it has read.
Holds(call, lock) ==
    /\ call.kind = "deleteWithMove"
    /\ \A t \in ToSet(lock.moving) :
            tasks[t].column = call.column /\ ~tasks[t].archived
    /\ ToSet(lock.moving) =
            {t \in Tasks : lock.found[t].column = call.column /\ ~lock.found[t].archived}
    /\ \A t \in Tasks : tasks[t].column \in {call.column, call.target} =>
            lock.found[t].column = tasks[t].column
    /\ Tidy(lock.found, call.target) =>
            \A t \in Tasks : tasks[t].column = call.target =>
                tasks[t].position < Behind(lock.found, call.target)

LocksInv ==
    \A r \in Requests : locked[r] # None =>
        calls[r] # None /\ Holds(calls[r], locked[r])

\* The tasks that a move has listed are in the two columns still.
Listed(m) ==
    /\ NamesOnce(m.siblings) /\ NamesOnce(m.left)
    /\ m.task \in ToSet(m.siblings)
    /\ \A u \in ToSet(m.siblings) : u = m.task \/ tasks[u].column = m.column
    /\ \A u \in ToSet(m.left) : tasks[u].column = tasks[m.task].column

\* A row has one lock.
Apart ==
    /\ \A m \in moves, n \in moves : m # n => RowsOf(m) \cap RowsOf(n) = {}
    /\ \A m \in moves, r \in Requests : RowsOf(m) \cap MovingOf(r) = {}

LocksTyped == locked \in [Requests -> Lock \cup {None}] /\ moves \subseteq Move

TasksInv == LocksTyped /\ LocksInv /\ (\A m \in moves : Listed(m)) /\ Apart

IInv == BoardInv /\ TasksInv

(***************************************************************************)
(* The columns of an arranged board.                                       *)
(***************************************************************************)

LEMMA LiveColumns ==
    ASSUME RowsTyped, NEW c \in Live
    PROVE  /\ c \in ColumnIds /\ columns[c] \in Column
           /\ columns[c].position \in Nat /\ columns[c].intake \in BOOLEAN
           /\ columns[c].version \in Nat /\ columns[c].live
BY DEF Live, RowsTyped, Column

LEMMA DistinctPlaces ==
    ASSUME RowsTyped, Arranged
    PROVE  \A c, d \in Live : columns[c].position = columns[d].position => c = d
<1>n. PICK n \in Nat : n = Cardinality(Live)
  BY FS_CardinalityType DEF Arranged
<1>f. PICK f : f = [c \in Live |-> columns[c].position]
  OBVIOUS
<1>1. {columns[c].position : c \in Live} = 0..n - 1
  BY <1>n DEF Arranged, ColumnsAreInOrder
<1>2. f \in Surjection(Live, 0..n - 1)
  BY <1>1, <1>f DEF Surjection
<1>3. IsFiniteSet(0..n - 1) /\ Cardinality(0..n - 1) = n
  <2>1. PICK m \in Int : m = n - 1
    OBVIOUS
  <2>2. IsFiniteSet(0..m) /\ Cardinality(0..m) = IF 0 > m THEN 0 ELSE m - 0 + 1
    BY FS_Interval
  <2> QED BY <2>1, <2>2
<1>4. IsFiniteSet(Live)
  BY DEF Arranged
<1>5. f \in Injection(Live, 0..n - 1)
  BY <1>n, <1>2, <1>3, <1>4, FS_SurjSameCardinalityImpliesInj
<1> QED BY <1>5, <1>f DEF Injection, IsInjective

ByPosition(C) == {p \in C \X C : columns[p[1]].position < columns[p[2]].position}

LEMMA ColumnsSorted ==
    ASSUME RowsTyped, Arranged, NEW C \in SUBSET Live
    PROVE  /\ IsFiniteSet(C) /\ Cardinality(C) \in Nat
           /\ InOrder(C) \in [1..Cardinality(C) -> C]
           /\ NamesOnce(InOrder(C))
           /\ ToSet(InOrder(C)) = C
           /\ \A e \in C : Index(InOrder(C), e) \in 0..Cardinality(C) - 1
           /\ \A d, e \in C : columns[d].position < columns[e].position
                                <=> Index(InOrder(C), d) < Index(InOrder(C), e)
           /\ \A k \in 0..Cardinality(C) - 1 : \E e \in C : Index(InOrder(C), e) = k
<1>1. IsFiniteSet(C) /\ Cardinality(C) \in Nat
  BY FS_Subset, FS_CardinalityType DEF Arranged
<1>2. \A c \in C : columns[c].position \in Nat
  BY LiveColumns
<1>r. PICK R : R = ByPosition(C)
  OBVIOUS
<1>3. \A d, e \in C : <<d, e>> \in R <=> columns[d].position < columns[e].position
  BY <1>r DEF ByPosition
<1>4. Orders(R, C)
  BY <1>2, <1>3, DistinctPlaces DEF Orders
<1>s. PICK s : s = InOrder(C)
  OBVIOUS
<1>5. s = Sorted(C, R)
  BY <1>r, <1>s DEF InOrder, ByPosition
<1>6. /\ s \in [1..Cardinality(C) -> C]
      /\ \A i, j \in 1..Cardinality(C) : i # j => s[i] # s[j]
      /\ ToSet(s) = C
      /\ \A e \in C : Index(s, e) \in 0..Cardinality(C) - 1
      /\ \A d, e \in C : <<d, e>> \in R <=> Index(s, d) < Index(s, e)
      /\ \A k \in 0..Cardinality(C) - 1 : \E e \in C : Index(s, e) = k
  BY <1>1, <1>4, <1>5, SortedPlaces
<1>7. NamesOnce(s)
  BY <1>6 DEF NamesOnce
<1> QED BY <1>1, <1>3, <1>s, <1>6, <1>7

\* Where a list that names every column once puts them.
LEMMA ListedPlaces ==
    ASSUME NEW S, NEW s \in Seq(S), NamesOnce(s)
    PROVE  /\ \A e \in ToSet(s) : Index(s, e) \in 0..Len(s) - 1 /\ s[Index(s, e) + 1] = e
           /\ {Index(s, e) : e \in ToSet(s)} = 0..Len(s) - 1
           /\ IsFiniteSet(ToSet(s)) /\ Cardinality(ToSet(s)) = Len(s)
           /\ ToSet(s) \subseteq S
<1>n. PICK n \in Nat : n = Len(s)
  OBVIOUS
<1>1. s \in [1..n -> S] /\ DOMAIN s = 1..n
  BY <1>n
<1>2. \A i, j \in 1..n : i # j => s[i] # s[j]
  BY <1>1 DEF NamesOnce
<1>3. /\ \A i \in 1..n : Index(s, s[i]) = i - 1
      /\ \A e \in ToSet(s) : Index(s, e) \in 0..n - 1 /\ s[Index(s, e) + 1] = e
      /\ ToSet(s) \subseteq S
  BY <1>1, <1>2, Places
<1>4. {Index(s, e) : e \in ToSet(s)} = 0..n - 1
  <2>1. ASSUME NEW k \in 0..n - 1
        PROVE  \E e \in ToSet(s) : Index(s, e) = k
    <3>1. k + 1 \in 1..n /\ (k + 1) - 1 = k
      OBVIOUS
    <3>2. s[k + 1] \in ToSet(s)
      BY <1>1, <3>1 DEF ToSet
    <3> QED BY <1>3, <3>1, <3>2
  <2> QED BY <2>1, <1>3
<1>5. IsFiniteSet(ToSet(s)) /\ Cardinality(ToSet(s)) = n
  <2>1. PICK m \in Int : m = 1
    OBVIOUS
  <2>2. IsFiniteSet(1..n) /\ Cardinality(1..n) = n
    <3>1. IsFiniteSet(m..n) /\ Cardinality(m..n) = IF m > n THEN 0 ELSE n - m + 1
      BY FS_Interval
    <3> QED BY <2>1, <3>1
  <2>3. s \in Surjection(1..n, ToSet(s)) /\ s \in Injection(1..n, ToSet(s))
    BY <1>1, <1>2 DEF Surjection, Injection, IsInjective, ToSet
  <2> QED BY <2>2, <2>3, FS_Surjection
<1> QED BY <1>n, <1>3, <1>4, <1>5

(***************************************************************************)
(* What requests have read.                                                *)
(***************************************************************************)

LEMMA OrderTyped ==
    ASSUME RowsTyped, Arranged
    PROVE  /\ Order \in Seq(ColumnIds) /\ NamesOnce(Order) /\ ToSet(Order) = Live
<1>1. Live \in SUBSET Live
  OBVIOUS
<1>2. PICK s : s = InOrder(Live)
  OBVIOUS
<1>3. /\ Cardinality(Live) \in Nat /\ s \in [1..Cardinality(Live) -> Live]
      /\ NamesOnce(s) /\ ToSet(s) = Live
  BY <1>1, <1>2, ColumnsSorted
<1>4. s \in Seq(ColumnIds)
  <2>1. PICK n \in Nat : n = Cardinality(Live)
    BY <1>3
  <2>2. s \in [1..n -> ColumnIds]
    BY <1>3, <2>1 DEF Live
  <2> QED BY <2>2
<1> QED BY <1>2, <1>3, <1>4 DEF Order

\* The order is that of the positions of the live columns.
LEMMA SameOrder ==
    ASSUME Live' = Live, \A c \in Live : columns'[c].position = columns[c].position
    PROVE  Order' = Order
<1>1. PICK L : L = Live
  OBVIOUS
<1>2. {p \in L \X L : columns'[p[1]].position < columns'[p[2]].position}
        = {p \in L \X L : columns[p[1]].position < columns[p[2]].position}
  BY <1>1
<1> QED BY <1>1, <1>2 DEF Order, InOrder

LEMMA CallsStay ==
    ASSUME BoardInv, version' \in Nat,
           \A r \in Requests : calls'[r] = calls[r] \/ calls'[r] = None,
           \/ version' > version
           \/ version' = version /\ Live' = Live /\ Order' = Order
           \/ /\ version' = version /\ Live \subseteq Live'
              /\ \E c \in Live' : \A r \in Requests :
                    calls[r] # None => c \notin ToSet(calls[r].seen)
    PROVE  CallsInv'
<1> SUFFICES ASSUME NEW r \in Requests, calls'[r] # None
             PROVE  CallInv(calls[r])'
  BY DEF CallsInv
<1>0. calls'[r] = calls[r] /\ calls[r] # None
  OBVIOUS
<1>1. CallInv(calls[r])
  BY <1>0 DEF BoardInv, CallsInv
<1>2. calls[r] \in Call /\ version \in Nat
  BY <1>0 DEF BoardInv, RowsTyped
<1>3. ASSUME calls[r].kind = "reorder"
      PROVE  ReorderSeen(calls[r])'
  <2>1. ReorderSeen(calls[r])
    BY <1>1, <1>3 DEF CallInv
  <2>2. calls[r].version \in Nat
    BY <1>2 DEF Call
  <2>3. CASE version' > version
    BY <1>0, <1>2, <2>1, <2>2, <2>3 DEF ReorderSeen, NamesOnce
  <2>4. CASE version' = version /\ Live' = Live /\ Order' = Order
    BY <1>0, <2>1, <2>4 DEF ReorderSeen, NamesOnce
  <2>5. CASE /\ version' = version /\ Live \subseteq Live'
             /\ \E c \in Live' : \A q \in Requests :
                    calls[q] # None => c \notin ToSet(calls[q].seen)
    <3>1. ~(Live' \subseteq ToSet(calls[r].order))
      BY <1>0, <2>1, <2>5 DEF ReorderSeen
    <3> QED BY <1>0, <2>1, <2>5, <3>1 DEF ReorderSeen, NamesOnce
  <2> QED BY <2>3, <2>4, <2>5
<1> QED BY <1>0, <1>1, <1>3 DEF CallInv, NamesOnce

\* A request that has just arrived.
LEMMA Submitted ==
    ASSUME BoardInv, NEW r \in Requests, NEW call \in Call, Submit(r, call), CallInv(call)
    PROVE  /\ BoardInv' /\ calls[r] = None
           /\ \A q \in Requests \ {r} : calls'[q] = calls[q]
           /\ tasks' = tasks /\ locked' = locked /\ moves' = moves
<1>1. /\ calls[r] = None /\ calls' = [calls EXCEPT ![r] = call]
      /\ UNCHANGED <<version, columns, tasks, locked, moves>>
  BY DEF Submit
<1>2. Live' = Live /\ Order' = Order
  BY <1>1 DEF Live, Order, InOrder
<1>3. RowsTyped'
  BY <1>1 DEF BoardInv, RowsTyped
<1>4. Arranged'
  BY <1>1, <1>2 DEF BoardInv, Arranged, ColumnsAreInOrder
<1>5. ASSUME NEW q \in Requests, calls'[q] # None
      PROVE  CallInv(calls[q])'
  <2>0. calls \in [Requests -> Call \cup {None}]
    BY DEF BoardInv, RowsTyped
  <2>1. CallInv(calls'[q])
    <3>1. CASE q = r
      BY <1>1, <2>0, <3>1
    <3>2. CASE q # r
      BY <1>1, <1>5, <2>0, <3>2 DEF BoardInv, CallsInv
    <3> QED BY <3>1, <3>2
  <2> QED BY <1>1, <1>2, <2>1 DEF CallInv, ReorderSeen, NamesOnce
<1>6. \A q \in Requests \ {r} : calls'[q] = calls[q]
  BY <1>1 DEF BoardInv, RowsTyped
<1> QED BY <1>1, <1>3, <1>4, <1>5, <1>6 DEF BoardInv, CallsInv

LEMMA BoardCallTyped ==
    ASSUME RowsTyped, NEW kind \in Kinds
    PROVE  BoardCall(kind) \in Call
<1>1. <<>> \in Seq(ColumnIds)
  OBVIOUS
<1> QED BY <1>1 DEF RowsTyped, BoardCall, Call

LEMMA ColumnCallTyped ==
    ASSUME RowsTyped, NEW kind \in Kinds, NEW c \in Live
    PROVE  ColumnCall(kind, c) \in Call /\ ColumnCall(kind, c).kind = kind
           /\ ColumnCall(kind, c).column = c
BY BoardCallTyped, LiveColumns DEF ColumnCall, Call, BoardCall

LEMMA Arrivals ==
    ASSUME BoardInv, NEW r \in Requests, Arrive(r)
    PROVE  /\ BoardInv' /\ calls[r] = None
           /\ \A q \in Requests \ {r} : calls'[q] = calls[q]
           /\ tasks' = tasks /\ locked' = locked /\ moves' = moves
<1> USE DEF Kinds
<1>t. RowsTyped /\ Arranged
  BY DEF BoardInv
<1>o. Order \in Seq(ColumnIds) /\ NamesOnce(Order) /\ ToSet(Order) = Live
  BY <1>t, OrderTyped
<1>v. version \in Nat
  BY <1>t DEF RowsTyped
<1>1. CASE RequestCreate(r)
  <2>1. BoardCall("create") \in Call /\ BoardCall("create").kind = "create"
    BY <1>t, BoardCallTyped DEF BoardCall
  <2>2. CallInv(BoardCall("create"))
    BY <2>1 DEF CallInv
  <2> QED BY <1>1, <2>1, <2>2, Submitted DEF RequestCreate
<1>2. CASE RequestReorder(r)
  <2>1. PICK order \in SetToSeqs(Live) :
            Submit(r, [BoardCall("reorder") EXCEPT !.seen = Order, !.order = order])
    BY <1>2 DEF RequestReorder
  <2>n. PICK n \in Nat : n = Cardinality(Live) /\ IsFiniteSet(Live)
    BY <1>t, FS_CardinalityType DEF Arranged
  <2>2. order \in [1..n -> Live] /\ NamesOnce(order)
    BY <2>n DEF SetToSeqs, NamesOnce
  <2>3. order \in Seq(ColumnIds) /\ ToSet(order) \subseteq Live
    BY <2>2 DEF Live, ToSet
  <2>4. ToSet(order) = Live
    <3>1. PICK s : s = order
      OBVIOUS
    <3>2. Len(s) = n
      BY <2>2, <3>1
    <3>3. Cardinality(ToSet(s)) = Len(s)
      BY <2>2, <2>3, <3>1, ListedPlaces
    <3>4. ToSet(s) \in SUBSET Live
      BY <2>3, <3>1
    <3> QED BY <2>n, <3>1, <3>2, <3>3, <3>4, FS_Subset
  <2>5. PICK call : call = [BoardCall("reorder") EXCEPT !.seen = Order, !.order = order]
    OBVIOUS
  <2>6. /\ call.kind = "reorder" /\ call.seen = Order /\ call.order = order
        /\ call.version = version
    BY <2>5 DEF BoardCall
  <2>7. call \in Call
    BY <1>t, <1>o, <2>3, <2>5, BoardCallTyped DEF Call
  <2>8. CallInv(call)
    BY <1>o, <1>v, <2>2, <2>4, <2>6 DEF CallInv, ReorderSeen
  <2> QED BY <2>1, <2>5, <2>7, <2>8, Submitted
<1>3. CASE RequestUpdate(r)
  <2>1. PICK c \in Live : Submit(r, ColumnCall("update", c))
    BY <1>3 DEF RequestUpdate
  <2>2. ColumnCall("update", c) \in Call /\ ColumnCall("update", c).kind = "update"
    BY <1>t, ColumnCallTyped
  <2>3. CallInv(ColumnCall("update", c))
    BY <2>2 DEF CallInv
  <2> QED BY <2>1, <2>2, <2>3, Submitted
<1>4. CASE RequestDeleteWithMove(r)
  <2>1. PICK c \in Live, target \in Live :
            /\ target # c
            /\ Submit(r, [ColumnCall("deleteWithMove", c) EXCEPT !.target = target])
    BY <1>4 DEF RequestDeleteWithMove
  <2>2. PICK base : base = ColumnCall("deleteWithMove", c)
    OBVIOUS
  <2>3. base \in Call /\ base.kind = "deleteWithMove" /\ base.column = c
    BY <1>t, <2>2, ColumnCallTyped
  <2>4. PICK call : call = [base EXCEPT !.target = target]
    OBVIOUS
  <2>5. target \in ColumnIds
    BY DEF Live
  <2>6. call \in Call
    BY <2>3, <2>4, <2>5 DEF Call
  <2>7. call.kind = "deleteWithMove" /\ call.column = c /\ call.target = target
    BY <2>3, <2>4 DEF Call
  <2>8. CallInv(call)
    BY <2>1, <2>7 DEF CallInv
  <2> QED BY <2>1, <2>2, <2>4, <2>6, <2>8, Submitted
<1>5. CASE RequestDestroy(r)
  <2>1. PICK c \in Live : Submit(r, ColumnCall("destroy", c))
    BY <1>5 DEF RequestDestroy
  <2>2. ColumnCall("destroy", c) \in Call /\ ColumnCall("destroy", c).kind = "destroy"
    BY <1>t, ColumnCallTyped
  <2>3. CallInv(ColumnCall("destroy", c))
    BY <2>2 DEF CallInv
  <2> QED BY <2>1, <2>2, <2>3, Submitted
<1>6. CASE ReadColumns(r)
  <2>1. PICK dynamic \in BOOLEAN :
            Submit(r, [BoardCall("intake") EXCEPT
                          !.version = 0, !.seen = Order, !.dynamic = dynamic])
    BY <1>6 DEF ReadColumns
  <2>2. PICK call : call = [BoardCall("intake") EXCEPT
                          !.version = 0, !.seen = Order, !.dynamic = dynamic]
    OBVIOUS
  <2>3. call.kind = "intake" /\ call.seen = Order
    BY <2>2 DEF BoardCall
  <2>4. call \in Call
    BY <1>t, <1>o, <2>2, BoardCallTyped DEF Call
  <2>5. CallInv(call)
    BY <1>o, <2>3 DEF CallInv
  <2> QED BY <2>1, <2>2, <2>4, <2>5, Submitted
<1> QED BY <1>1, <1>2, <1>3, <1>4, <1>5, <1>6 DEF Arrive

(***************************************************************************)
(* What a transaction does to the columns.                                 *)
(***************************************************************************)

\* The columns of a list are arranged in its order.
LEMMA Rearranged ==
    ASSUME RowsTyped, Arranged, NEW s \in Seq(ColumnIds), NamesOnce(s),
           ToSet(s) \subseteq Live, columns' = Reindexed(s),
           \A c \in ToSet(s) : columns[c].intake => Index(s, c) = 0
    PROVE  /\ columns' \in [ColumnIds -> Column]
           /\ Live' = ToSet(s)
           /\ Arranged'
<1>n. PICK n \in Nat : n = Len(s)
  OBVIOUS
<1>1. /\ \A e \in ToSet(s) : Index(s, e) \in 0..n - 1
      /\ {Index(s, e) : e \in ToSet(s)} = 0..n - 1
      /\ IsFiniteSet(ToSet(s)) /\ Cardinality(ToSet(s)) = n
  BY <1>n, ListedPlaces
<1>2. \A c \in ToSet(s) : /\ c \in ColumnIds
                          /\ columns[c] \in Column /\ columns[c].live
  BY LiveColumns
<1>3. ASSUME NEW c \in ColumnIds
      PROVE  /\ c \notin ToSet(s) => columns'[c] = NoColumn
             /\ c \in ToSet(s) => columns'[c] = [columns[c] EXCEPT !.position = Index(s, c)]
  BY DEF Reindexed
<1>4. ASSUME NEW c \in ToSet(s)
      PROVE  /\ columns'[c] \in Column /\ columns'[c].live
             /\ columns'[c].position = Index(s, c)
             /\ columns'[c].intake = columns[c].intake
  <2>1. PICK i : i = Index(s, c) /\ i \in Nat
    BY <1>1
  <2>2. columns'[c] = [columns[c] EXCEPT !.position = i]
    BY <1>2, <1>3, <2>1
  <2> QED BY <1>2, <2>1, <2>2 DEF Column
<1>5. NoColumn \in Column /\ ~NoColumn.live
  BY DEF NoColumn, Column
<1>6. columns' \in [ColumnIds -> Column]
  <2>1. \A c \in ColumnIds : columns'[c] \in Column
    BY <1>3, <1>4, <1>5
  <2>2. columns' = [c \in ColumnIds |-> columns'[c]]
    BY DEF Reindexed
  <2> QED BY <2>1, <2>2
<1>7. Live' = ToSet(s)
  BY <1>2, <1>3, <1>4, <1>5 DEF Live
<1>8. {columns'[c].position : c \in ToSet(s)} = 0..n - 1
  BY <1>1, <1>4
<1>9. \A c \in ToSet(s) : columns'[c].intake => columns'[c].position = 0
  BY <1>4
<1> QED BY <1>1, <1>6, <1>7, <1>8, <1>9 DEF Arranged, ColumnsAreInOrder

LEMMA NewColumnTyped ==
    ASSUME NEW position \in Nat, NEW intake \in BOOLEAN
    PROVE  /\ NewColumn(position, intake) \in Column
           /\ NewColumn(position, intake).live
           /\ NewColumn(position, intake).position = position
           /\ NewColumn(position, intake).intake = intake
BY DEF NewColumn, Column

LEMMA FreeIdIsNew ==
    ASSUME FreeIds # {}
    PROVE  /\ NewId \in ColumnIds /\ NewId \notin Live
           /\ \A r \in Requests : calls[r] # None => NewId \notin ToSet(calls[r].seen)
BY NewIdIsFree DEF FreeIds

LEMMA ColumnCreated ==
    ASSUME RowsTyped, Arranged, FreeIds # {},
           columns' = [columns EXCEPT ![NewId] =
                NewColumn(NextPosition({columns[c].position : c \in Live}), FALSE)]
    PROVE  columns' \in [ColumnIds -> Column] /\ Arranged'
<1>n. PICK n \in Nat : n = Cardinality(Live) /\ IsFiniteSet(Live)
  BY FS_CardinalityType DEF Arranged
<1>1. NextPosition({columns[c].position : c \in Live}) = n
  BY <1>n, NextOfInterval DEF Arranged, ColumnsAreInOrder
<1>2. PICK e : e = NewId
  OBVIOUS
<1>3. e \in ColumnIds /\ e \notin Live
  BY <1>2, FreeIdIsNew
<1>4. PICK col : col = NewColumn(n, FALSE)
  OBVIOUS
<1>5. col \in Column /\ col.live /\ col.position = n /\ ~col.intake
  BY <1>4, NewColumnTyped
<1>6. columns' = [columns EXCEPT ![e] = col] /\ columns \in [ColumnIds -> Column]
  BY <1>1, <1>2, <1>4 DEF RowsTyped
<1>7. columns' \in [ColumnIds -> Column]
  BY <1>5, <1>6
<1>8. columns'[e] = col /\ \A c \in Live : columns'[c] = columns[c]
  BY <1>3, <1>6 DEF Live
<1>9. Live' = Live \cup {e}
  BY <1>3, <1>5, <1>6 DEF Live
<1>10. IsFiniteSet(Live \cup {e}) /\ Cardinality(Live \cup {e}) = n + 1
  BY <1>n, <1>3, FS_AddElement
<1>11. {columns[c].position : c \in Live} = 0..n - 1
  BY <1>n DEF Arranged, ColumnsAreInOrder
<1>12. {columns'[c].position : c \in Live \cup {e}} = 0..(n + 1) - 1
  <2>1. {columns'[c].position : c \in Live \cup {e}} = (0..n - 1) \cup {n}
    BY <1>5, <1>8, <1>11
  <2>2. (0..n - 1) \cup {n} = 0..(n + 1) - 1
    OBVIOUS
  <2> QED BY <2>1, <2>2
<1>13. \A c \in Live \cup {e} : columns'[c].intake => columns'[c].position = 0
  BY <1>5, <1>8 DEF Arranged, ColumnsAreInOrder
<1> QED BY <1>7, <1>9, <1>10, <1>12, <1>13 DEF Arranged, ColumnsAreInOrder

\* A shift that meets no other column has read every column.
LEMMA EveryColumnIsShifted ==
    ASSUME RowsTyped, Arranged, NEW s \in Seq(ColumnIds), ShiftIsUnique(s)
    PROVE  ToSet(s) = Live
<1>n. PICK n \in Nat : n = Cardinality(Live) /\ IsFiniteSet(Live)
  BY FS_CardinalityType DEF Arranged
<1>m. PICK m \in Nat : m = Len(s)
  OBVIOUS
<1>1. {columns[c].position : c \in Live} = 0..n - 1
  BY <1>n DEF Arranged, ColumnsAreInOrder
<1>2. DOMAIN s = 1..m /\ ToSet(s) \in SUBSET Live
  BY <1>m DEF ShiftIsUnique
\* Who is not in the list does not stand in a place that is written.
<1>3. ASSUME NEW c \in Live \ ToSet(s)
      PROVE  columns[c].position > m
  <2>1. columns[c].position \in Nat /\ c \in ColumnIds
    BY LiveColumns
  <2>2. Shifted(s)[c] = columns[c]
    BY <2>1 DEF Shifted
  <2>3. columns[c].position # 0
    BY <2>2 DEF ShiftIsUnique
  <2>4. columns[c].position \notin 1..m
    <3>1. ASSUME columns[c].position \in 1..m
          PROVE  FALSE
      <4>1. PICK i \in 1..m : columns[c].position = i
        BY <3>1
      <4>2. PICK j \in i..Len(s) : s[j] = c
        BY <1>2, <4>1 DEF ShiftIsUnique
      <4>3. j \in DOMAIN s
        BY <1>m, <1>2, <4>1, <4>2
      <4> QED BY <4>2, <4>3 DEF ToSet
    <3> QED BY <3>1
  <2> QED BY <2>1, <2>3, <2>4
\* Those in the list are too few to fill the places up to there.
<1>4. ASSUME NEW c \in Live \ ToSet(s)
      PROVE  FALSE
  <2>1. \A k \in 0..m : \E d \in ToSet(s) : columns[d].position = k
    <3> TAKE k \in 0..m
    <3>1. columns[c].position \in 0..n - 1 /\ columns[c].position > m
      BY <1>1, <1>3
    <3>2. k \in 0..n - 1
      BY <3>1
    <3>3. PICK d \in Live : columns[d].position = k
      BY <1>1, <3>2
    <3>4. d \in ToSet(s)
      BY <1>3, <3>3
    <3> QED BY <3>3, <3>4
  <2>2. \A k \in 0..m : \E i \in 1..m : columns[s[i]].position = k
    BY <1>2, <2>1 DEF ToSet
  <2> DEFINE Holder(k) == CHOOSE i \in 1..m : columns[s[i]].position = k
  <2>3. \A k \in 0..m : Holder(k) \in 1..m /\ columns[s[Holder(k)]].position = k
    BY <2>2
  <2> HIDE DEF Holder
  <2>4. PICK f : f = [k \in 0..m |-> Holder(k)]
    OBVIOUS
  <2>5. /\ f \in [0..m -> 1..m]
        /\ \A k \in 0..m : columns[s[f[k]]].position = k
    BY <2>3, <2>4
  <2>6. IsFiniteSet(0..m) /\ Cardinality(0..m) = m + 1
    <3>1. PICK a \in Int : a = 0
      OBVIOUS
    <3>2. IsFiniteSet(a..m) /\ Cardinality(a..m) = IF a > m THEN 0 ELSE m - a + 1
      BY FS_Interval
    <3> QED BY <3>1, <3>2
  <2>7. IsFiniteSet(1..m) /\ Cardinality(1..m) = m
    <3>1. PICK a \in Int : a = 1
      OBVIOUS
    <3>2. IsFiniteSet(a..m) /\ Cardinality(a..m) = IF a > m THEN 0 ELSE m - a + 1
      BY FS_Interval
    <3> QED BY <3>1, <3>2
  <2>8. PICK S, T : S = 0..m /\ T = 1..m
    OBVIOUS
  <2>9. PICK x \in S, y \in S : x # y /\ f[x] = f[y]
    <3>1. Cardinality(T) < Cardinality(S)
      BY <2>6, <2>7, <2>8
    <3> QED BY <2>5, <2>6, <2>7, <2>8, <3>1, FS_PigeonHole
  <2> QED BY <2>5, <2>8, <2>9
<1> QED BY <1>2, <1>4

LEMMA IntakeCreated ==
    ASSUME RowsTyped, Arranged, NEW s \in Seq(ColumnIds), NamesOnce(s), ShiftIsUnique(s),
           FreeIds # {}, NEW dynamic \in BOOLEAN,
           columns' = [Shifted(s) EXCEPT ![NewId] = NewColumn(0, dynamic)]
    PROVE  columns' \in [ColumnIds -> Column] /\ Arranged' /\ Live' = Live \cup {NewId}
<1>n. PICK n \in Nat : n = Cardinality(Live) /\ IsFiniteSet(Live)
  BY FS_CardinalityType DEF Arranged
<1>1. ToSet(s) = Live
  BY EveryColumnIsShifted
<1>2. PICK e : e = NewId
  OBVIOUS
<1>3. e \in ColumnIds /\ e \notin Live
  BY <1>2, FreeIdIsNew
<1>4. PICK col : col = NewColumn(0, dynamic)
  OBVIOUS
<1>5. col \in Column /\ col.live /\ col.position = 0
  BY <1>4, NewColumnTyped
<1>6. /\ \A c \in Live : Index(s, c) \in 0..n - 1
      /\ {Index(s, c) : c \in Live} = 0..n - 1
  <2>1. Len(s) = n
    BY <1>1, <1>n, ListedPlaces
  <2> QED BY <2>1, <1>1, ListedPlaces
<1>7. columns \in [ColumnIds -> Column]
  BY DEF RowsTyped
<1>8. PICK f : f = Shifted(s)
  OBVIOUS
<1>9. /\ DOMAIN f = ColumnIds /\ f = [c \in ColumnIds |-> f[c]]
      /\ \A c \in ColumnIds \ Live : f[c] = columns[c]
      /\ \A c \in Live : f[c] = [columns[c] EXCEPT !.position = Index(s, c) + 1]
  <2>1. f = [c \in ColumnIds |-> IF c \in Live
                THEN [columns[c] EXCEPT !.position = Index(s, c) + 1]
                ELSE columns[c]]
    BY <1>1, <1>8 DEF Shifted
  <2> QED BY <2>1 DEF Live
<1>10. ASSUME NEW c \in Live
       PROVE  /\ c \in ColumnIds /\ f[c] \in Column /\ f[c].live
              /\ f[c].position = Index(s, c) + 1 /\ f[c].intake = columns[c].intake
  <2>1. PICK i \in Nat : i = Index(s, c) + 1
    BY <1>6
  <2>2. columns[c] \in Column /\ columns[c].live /\ c \in ColumnIds
    BY LiveColumns
  <2>3. f[c] = [columns[c] EXCEPT !.position = i]
    BY <1>9, <2>1
  <2> QED BY <2>1, <2>2, <2>3 DEF Column
<1>11. columns' = [f EXCEPT ![e] = col]
  BY <1>2, <1>4, <1>8
<1>12. \A c \in ColumnIds : f[c] \in Column
  BY <1>7, <1>9, <1>10
<1>13. f \in [ColumnIds -> Column]
  BY <1>9, <1>12
<1>14. columns' \in [ColumnIds -> Column]
  BY <1>5, <1>11, <1>13
<1>15. columns'[e] = col /\ \A c \in ColumnIds : c # e => columns'[c] = f[c]
  BY <1>3, <1>11, <1>13
<1>16. Live' = Live \cup {e}
  <2>1. \A c \in ColumnIds : c \in Live' <=> columns'[c].live
    BY DEF Live
  <2>2. \A c \in ColumnIds : c \in Live <=> columns[c].live
    BY DEF Live
  <2>3. \A c \in ColumnIds : columns'[c].live <=> c \in Live \cup {e}
    <3> TAKE c \in ColumnIds
    <3>1. CASE c = e
      BY <3>1, <1>5, <1>15
    <3>2. CASE c \in Live
      BY <3>2, <1>3, <1>10, <1>15
    <3>3. CASE c # e /\ c \notin Live
      BY <3>3, <1>9, <1>15, <2>2
    <3> QED BY <3>1, <3>2, <3>3
  <2>4. Live' \subseteq ColumnIds /\ Live \cup {e} \subseteq ColumnIds
    BY <1>3 DEF Live
  <2> QED BY <2>1, <2>3, <2>4
<1>17. IsFiniteSet(Live \cup {e}) /\ Cardinality(Live \cup {e}) = n + 1
  BY <1>n, <1>3, FS_AddElement
<1>18. \A c \in Live : columns'[c].position = Index(s, c) + 1
                       /\ columns'[c].intake = columns[c].intake
  BY <1>3, <1>10, <1>15
<1>19. {columns'[c].position : c \in Live \cup {e}} = 0..(n + 1) - 1
  <2>1. ASSUME NEW k \in 0..(n + 1) - 1
        PROVE  \E c \in Live \cup {e} : columns'[c].position = k
    <3>1. CASE k = 0
      BY <3>1, <1>5, <1>15
    <3>2. CASE k # 0
      <4>1. k - 1 \in 0..n - 1 /\ (k - 1) + 1 = k
        BY <3>2
      <4>2. PICK c \in Live : Index(s, c) = k - 1
        BY <1>6, <4>1
      <4> QED BY <1>18, <4>1, <4>2
    <3> QED BY <3>1, <3>2
  <2>2. ASSUME NEW c \in Live \cup {e}
        PROVE  columns'[c].position \in 0..(n + 1) - 1
    BY <1>5, <1>6, <1>15, <1>18
  <2> QED BY <2>1, <2>2
<1>20. \A c \in Live : ~columns[c].intake
  BY DEF ShiftIsUnique
<1>21. \A c \in Live \cup {e} : columns'[c].intake => columns'[c].position = 0
  BY <1>5, <1>15, <1>18, <1>20
<1> QED BY <1>2, <1>14, <1>16, <1>17, <1>19, <1>21 DEF Arranged, ColumnsAreInOrder

\* The columns that are left close the gap.
LEMMA ColumnRemoved ==
    ASSUME RowsTyped, Arranged, NEW column, columns' = Reindexed(InOrder(Live \ {column}))
    PROVE  columns' \in [ColumnIds -> Column] /\ Arranged'
<1>1. PICK C : C = Live \ {column}
  OBVIOUS
<1>2. PICK s : s = InOrder(C)
  OBVIOUS
<1>n. PICK n : n = Cardinality(C)
  OBVIOUS
<1>3. /\ n \in Nat /\ s \in [1..n -> C]
      /\ NamesOnce(s) /\ ToSet(s) = C
      /\ \A e \in C : Index(s, e) \in 0..n - 1
      /\ \A d, e \in C : columns[d].position < columns[e].position
                            <=> Index(s, d) < Index(s, e)
      /\ \A k \in 0..n - 1 : \E e \in C : Index(s, e) = k
  <2>1. C \in SUBSET Live
    BY <1>1
  <2> QED BY <1>2, <1>n, <2>1, ColumnsSorted
<1>4. s \in Seq(ColumnIds)
  <2>1. s \in [1..n -> ColumnIds]
    BY <1>1, <1>3 DEF Live
  <2> QED BY <1>3, <2>1
<1>5. \A c \in C : columns[c].intake => Index(s, c) = 0
  <2> SUFFICES ASSUME NEW c \in C, columns[c].intake PROVE Index(s, c) = 0
    OBVIOUS
  <2>1. columns[c].position = 0
    BY <1>1 DEF Arranged, ColumnsAreInOrder
  <2>2. Index(s, c) \in 0..n - 1
    BY <1>3
  <2>3. PICK e \in C : Index(s, e) = 0
    BY <1>3, <2>2
  <2>4. columns[e].position \in Nat
    BY <1>1, LiveColumns
  <2>5. ~(Index(s, e) < Index(s, c))
    BY <1>3, <2>1, <2>4
  <2> QED BY <2>2, <2>3, <2>5
<1>6. columns' = Reindexed(s) /\ ToSet(s) \subseteq Live
  BY <1>1, <1>2, <1>3
<1> QED BY <1>3, <1>4, <1>5, <1>6, Rearranged

(***************************************************************************)
(* Tasks.                                                                  *)
(***************************************************************************)

LEMMA TaskFields ==
    ASSUME RowsTyped, NEW t \in Tasks
    PROVE  /\ tasks[t] \in Task /\ tasks[t].position \in Nat /\ t \in Nat
           /\ tasks[t].column \in ColumnIds \cup {None}
BY IdsOrdered DEF RowsTyped, Task

LEMMA ActiveTasks ==
    ASSUME NEW c
    PROVE  /\ ActiveIn(c) \subseteq Tasks /\ IsFiniteSet(ActiveIn(c))
           /\ \A t \in ActiveIn(c) : tasks[t].column = c
<1>1. ActiveIn(c) \in SUBSET Tasks
  BY DEF ActiveIn
<1>2. IsFiniteSet(ActiveIn(c))
  BY <1>1, TasksFinite, FS_Subset
<1> QED BY <1>2 DEF ActiveIn

LEMMA TasksSorted ==
    ASSUME RowsTyped, NEW T \in SUBSET Tasks
    PROVE  /\ TasksInOrder(T) \in Seq(T) /\ ToSet(TasksInOrder(T)) = T
           /\ NamesOnce(TasksInOrder(T))
           /\ Len(TasksInOrder(T)) = Cardinality(T)
           /\ \A t \in T : Index(TasksInOrder(T), t) \in Nat
           /\ \A t, u \in T : tasks[t].position < tasks[u].position =>
                Index(TasksInOrder(T), t) < Index(TasksInOrder(T), u)
<1>1. IsFiniteSet(T)
  BY TasksFinite, FS_Subset
<1>2. \A t \in T : tasks[t].position \in Nat /\ t \in Nat
  BY TaskFields
<1>r. PICK R : R = {p \in T \X T :
        \/ tasks[p[1]].position < tasks[p[2]].position
        \/ tasks[p[1]].position = tasks[p[2]].position /\ p[1] < p[2]}
  OBVIOUS
<1>3. \A t, u \in T : <<t, u>> \in R <=>
          \/ tasks[t].position < tasks[u].position
          \/ tasks[t].position = tasks[u].position /\ t < u
  BY <1>r
<1>4. Orders(R, T)
  <2>1. \A t \in T : <<t, t>> \notin R
    BY <1>2, <1>3
  <2>2. ASSUME NEW t \in T, NEW u \in T, NEW v \in T, <<t, u>> \in R, <<u, v>> \in R
        PROVE  <<t, v>> \in R
    BY <1>2, <1>3, <2>2
  <2>3. ASSUME NEW t \in T, NEW u \in T, t # u
        PROVE  <<t, u>> \in R \/ <<u, t>> \in R
    BY <1>2, <1>3, <2>3
  <2> QED BY <2>1, <2>2, <2>3 DEF Orders
<1>s. PICK s : s = TasksInOrder(T)
  OBVIOUS
<1>n. PICK n \in Nat : n = Cardinality(T)
  BY <1>1, FS_CardinalityType
<1>5. s = Sorted(T, R)
  BY <1>r, <1>s DEF TasksInOrder
<1>6. /\ s \in [1..n -> T]
      /\ \A i, j \in 1..n : i # j => s[i] # s[j]
      /\ ToSet(s) = T
      /\ \A e \in T : Index(s, e) \in 0..n - 1
      /\ \A d, e \in T : <<d, e>> \in R <=> Index(s, d) < Index(s, e)
  BY <1>1, <1>4, <1>5, <1>n, SortedPlaces
<1>7. s \in Seq(T) /\ Len(s) = n /\ \A e \in T : Index(s, e) \in Nat
  BY <1>6
<1>8. \A t, u \in T : tasks[t].position < tasks[u].position =>
            Index(s, t) < Index(s, u)
  BY <1>3, <1>6
<1>9. NamesOnce(s)
  BY <1>6 DEF NamesOnce
<1> QED BY <1>n, <1>s, <1>6, <1>7, <1>8, <1>9

LEMMA PlaceTyped ==
    ASSUME NEW S, NEW s \in Seq(S), NEW e \in ToSet(s)
    PROVE  Index(s, e) \in Nat /\ e \in S
<1>1. PICK i \in DOMAIN s : s[i] = e
  BY DEF ToSet
<1>2. PICK k : k = CHOOSE j \in DOMAIN s : s[j] = e
  OBVIOUS
<1>3. k \in DOMAIN s /\ s[k] = e
  BY <1>1, <1>2
<1>4. k \in 1..Len(s)
  BY <1>3
<1> QED BY <1>2, <1>3, <1>4 DEF Index

LEMMA ClearedTyped ==
    ASSUME NEW T \in [Tasks -> Task], NEW c
    PROVE  /\ Cleared(T, c) \in [Tasks -> Task]
           /\ \A t \in Tasks : T[t].column # c => Cleared(T, c)[t] = T[t]
BY DEF Cleared, Task

\* The place behind the active tasks of a column.
LEMMA BehindAll ==
    ASSUME NEW T \in [Tasks -> Task], NEW c
    PROVE  /\ Behind(T, c) \in Nat
           /\ \A t \in Tasks : T[t].column = c /\ ~T[t].archived =>
                T[t].position < Behind(T, c)
<1>1. PICK S : S = {u \in Tasks : T[u].column = c /\ ~T[u].archived}
  OBVIOUS
<1>2. PICK P : P = {T[t].position : t \in S}
  OBVIOUS
<1>3. P \in SUBSET Nat
  BY <1>1, <1>2 DEF Task
<1>4. IsFiniteSet(S)
  <2>1. S \in SUBSET Tasks
    BY <1>1
  <2> QED BY <2>1, TasksFinite, FS_Subset
<1>5. IsFiniteSet(P)
  <2>1. PICK f : f = [t \in S |-> T[t].position]
    OBVIOUS
  <2>2. f \in Surjection(S, P)
    BY <1>2, <2>1 DEF Surjection
  <2> QED BY <1>4, <2>2, FS_Surjection
<1>6. NextPosition(P) \in Nat /\ \A x \in P : x < NextPosition(P)
  BY <1>3, <1>5, NextIsGreater
<1>7. Behind(T, c) = NextPosition(P)
  BY <1>1, <1>2 DEF Behind
<1> QED BY <1>1, <1>2, <1>6, <1>7

\* A tidy column has no more tasks than places before the one behind them.
LEMMA TidyFits ==
    ASSUME NEW T \in [Tasks -> Task], NEW c, Tidy(T, c)
    PROVE  LET S == {t \in Tasks : T[t].column = c}
           IN  /\ IsFiniteSet(S) /\ Cardinality(S) \in Nat
               /\ Cardinality(S) <= Behind(T, c)
<1>1. PICK S : S = {t \in Tasks : T[t].column = c}
  OBVIOUS
<1>2. S \in SUBSET Tasks /\ IsFiniteSet(S) /\ Cardinality(S) \in Nat
  <2>1. S \in SUBSET Tasks
    BY <1>1
  <2> QED BY <2>1, TasksFinite, FS_Subset, FS_CardinalityType
<1>3. PICK n : n = Behind(T, c)
  OBVIOUS
<1>4. n \in Nat
  BY <1>3, BehindAll
<1>5. \A t, u \in S : ~T[t].archived /\ (T[t].position = T[u].position => t = u)
  BY <1>1 DEF Tidy
<1>6. \A t \in S : T[t].position \in Nat /\ T[t].position < n
  <2> TAKE t \in S
  <2>1. t \in Tasks /\ T[t].column = c /\ ~T[t].archived
    BY <1>1, <1>5
  <2>2. T[t].position < n
    BY <1>3, <2>1, BehindAll
  <2>3. T[t] \in Task
    BY <2>1
  <2> QED BY <2>2, <2>3 DEF Task
<1>7. PICK Q : Q = 0..n - 1
  OBVIOUS
<1>8. IsFiniteSet(Q) /\ Cardinality(Q) = n
  <2>1. PICK m \in Int : m = n - 1
    BY <1>4
  <2>2. IsFiniteSet(0..m) /\ Cardinality(0..m) = IF 0 > m THEN 0 ELSE m - 0 + 1
    BY FS_Interval
  <2> QED BY <1>4, <1>7, <2>1, <2>2
<1>9. PICK f : f = [t \in S |-> T[t].position]
  OBVIOUS
<1>10. f \in Injection(S, Q)
  <2>1. f \in [S -> Q]
    BY <1>4, <1>6, <1>7, <1>9
  <2>2. \A t, u \in S : f[t] = f[u] => t = u
    BY <1>5, <1>9
  <2> QED BY <2>1, <2>2 DEF Injection, IsInjective
<1>11. Cardinality(S) <= Cardinality(Q)
  BY <1>8, <1>10, FS_Injection
<1> QED BY <1>1, <1>2, <1>3, <1>8, <1>11

\* The locked tasks come to the target, behind what it had, in their order.
LEMMA MovedBehind ==
    ASSUME RowsTyped, NEW lock \in Lock, NEW target \in ColumnIds \cup {None}
    PROVE  /\ MovedTo(lock, target) \in [Tasks -> Task]
           /\ \A t \in ToSet(lock.moving) :
                /\ MovedTo(lock, target)[t].column = target
                /\ MovedTo(lock, target)[t].archived = tasks[t].archived
                /\ MovedTo(lock, target)[t].position >= Behind(lock.found, target)
           /\ \A t \in Tasks \ ToSet(lock.moving) :
                MovedTo(lock, target)[t] = tasks[t]
<1>1. PICK s : s = lock.moving
  OBVIOUS
<1>2. s \in Seq(Tasks) /\ lock.found \in [Tasks -> Task]
  BY <1>1 DEF Lock
<1>3. PICK next \in Nat : next = Behind(lock.found, target)
  BY <1>2, BehindAll
<1>4. \A t \in ToSet(s) : Index(s, t) \in Nat /\ t \in Tasks
  BY <1>2, PlaceTyped
<1>5. PICK moved : moved = MovedTo(lock, target)
  OBVIOUS
<1>6. moved = [t \in Tasks |->
            IF t \in ToSet(s)
            THEN [tasks[t] EXCEPT !.column = target, !.position = next + Index(s, t)]
            ELSE tasks[t]]
  BY <1>1, <1>3, <1>5 DEF MovedTo
<1>7. ASSUME NEW t \in ToSet(s)
      PROVE  /\ moved[t] \in Task /\ moved[t].column = target
             /\ moved[t].archived = tasks[t].archived
             /\ moved[t].position >= next
  <2>1. PICK i \in Nat : i = next + Index(s, t) /\ i >= next
    BY <1>4
  <2>2. moved[t] = [tasks[t] EXCEPT !.column = target, !.position = i]
    BY <1>4, <1>6, <2>1
  <2>3. tasks[t] \in Task
    BY <1>4, TaskFields
  <2>4. moved[t] = [column |-> target, position |-> i, archived |-> tasks[t].archived]
    BY <2>2, <2>3 DEF Task
  <2>5. tasks[t].archived \in BOOLEAN
    BY <2>3 DEF Task
  <2> QED BY <2>1, <2>4, <2>5 DEF Task
<1>8. \A t \in Tasks \ ToSet(s) : moved[t] = tasks[t] /\ moved[t] \in Task
  BY <1>6, TaskFields
<1>9. moved \in [Tasks -> Task]
  <2>1. \A t \in Tasks : moved[t] \in Task
    BY <1>7, <1>8
  <2> QED BY <1>6, <2>1
<1> QED BY <1>1, <1>3, <1>5, <1>7, <1>8, <1>9

LEMMA MovesTyped ==
    ASSUME RowsTyped, NEW m \in Move
    PROVE  /\ Renumbered(m) \in [Tasks -> Task]
           /\ \A u \in Tasks : /\ Renumbered(m)[u].archived = tasks[u].archived
                               /\ u \notin RowsOf(m) => Renumbered(m)[u] = tasks[u]
           /\ \A u \in ToSet(m.siblings) :
                /\ Renumbered(m)[u].column = m.column
                /\ Renumbered(m)[u].position = Index(m.siblings, u)
           /\ \A u \in ToSet(m.left) \ ToSet(m.siblings) :
                /\ Renumbered(m)[u].column = tasks[u].column
                /\ Renumbered(m)[u].position = Index(m.left, u)
<1>1. PICK siblings, left, c : siblings = m.siblings /\ left = m.left /\ c = m.column
  OBVIOUS
<1>2. siblings \in Seq(Tasks) /\ left \in Seq(Tasks) /\ c \in ColumnIds
  BY <1>1 DEF Move
<1>3. PICK new : new = Renumbered(m)
  OBVIOUS
<1>4. new = [u \in Tasks |->
        IF u \in ToSet(siblings)
        THEN [tasks[u] EXCEPT !.column = c, !.position = Index(siblings, u)]
        ELSE IF u \in ToSet(left)
        THEN [tasks[u] EXCEPT !.position = Index(left, u)]
        ELSE tasks[u]]
  BY <1>1, <1>3 DEF Renumbered
<1>5. ASSUME NEW u \in ToSet(siblings)
      PROVE  /\ u \in Tasks /\ new[u] \in Task /\ new[u].column = c
             /\ new[u].position = Index(siblings, u)
             /\ new[u].archived = tasks[u].archived
  <2>1. PICK i \in Nat : i = Index(siblings, u)
    BY <1>2, PlaceTyped
  <2>2. u \in Tasks /\ tasks[u] \in Task
    BY <1>2, PlaceTyped, TaskFields
  <2>3. new[u] = [tasks[u] EXCEPT !.column = c, !.position = i]
    BY <1>4, <2>1, <2>2
  <2>4. new[u] = [column |-> c, position |-> i, archived |-> tasks[u].archived]
    BY <2>2, <2>3 DEF Task
  <2>5. tasks[u].archived \in BOOLEAN
    BY <2>2 DEF Task
  <2> QED BY <1>2, <2>1, <2>2, <2>4, <2>5 DEF Task
<1>6. ASSUME NEW u \in ToSet(left), u \notin ToSet(siblings)
      PROVE  /\ u \in Tasks /\ new[u] \in Task /\ new[u].column = tasks[u].column
             /\ new[u].position = Index(left, u)
             /\ new[u].archived = tasks[u].archived
  <2>1. PICK i \in Nat : i = Index(left, u)
    BY <1>2, PlaceTyped
  <2>2. u \in Tasks /\ tasks[u] \in Task
    BY <1>2, PlaceTyped, TaskFields
  <2>3. new[u] = [tasks[u] EXCEPT !.position = i]
    BY <1>4, <1>6, <2>1, <2>2
  <2>4. new[u] = [column |-> tasks[u].column, position |-> i,
                  archived |-> tasks[u].archived]
    BY <2>2, <2>3 DEF Task
  <2>5. tasks[u].archived \in BOOLEAN /\ tasks[u].column \in ColumnIds \cup {None}
    BY <2>2 DEF Task
  <2> QED BY <2>1, <2>2, <2>4, <2>5 DEF Task
<1>7. ASSUME NEW u \in Tasks, u \notin ToSet(siblings), u \notin ToSet(left)
      PROVE  new[u] = tasks[u] /\ new[u] \in Task
  <2>1. new[u] = tasks[u]
    BY <1>4, <1>7
  <2> QED BY <2>1, TaskFields
<1>8. new \in [Tasks -> Task]
  <2>1. \A u \in Tasks : new[u] \in Task
    BY <1>5, <1>6, <1>7
  <2> QED BY <1>4, <2>1
<1>9. \A u \in Tasks : new[u].archived = tasks[u].archived
  BY <1>5, <1>6, <1>7
<1>10. \A u \in Tasks : u \notin RowsOf(m) => new[u] = tasks[u]
  BY <1>1, <1>7 DEF RowsOf
<1> QED BY <1>1, <1>3, <1>5, <1>6, <1>8, <1>9, <1>10

(***************************************************************************)
(* The steps.                                                              *)
(***************************************************************************)

\* Steps that leave the columns alone.
LEMMA SameColumns ==
    ASSUME columns' = columns
    PROVE  Live' = Live /\ Order' = Order
BY DEF Live, Order, InOrder

LEMMA CallsLost ==
    ASSUME RowsTyped, NEW r \in Requests, Finish(r)
    PROVE  /\ calls' \in [Requests -> Call \cup {None}]
           /\ \A q \in Requests : calls'[q] = calls[q] \/ calls'[q] = None
BY DEF RowsTyped, Finish

LEMMA CallTyped ==
    ASSUME BoardInv, NEW r \in Requests, NEW kind, Pending(r, kind)
    PROVE  /\ calls[r] \in Call /\ calls[r].kind = kind
           /\ calls[r].seen \in Seq(ColumnIds) /\ calls[r].order \in Seq(ColumnIds)
           /\ calls[r].target \in ColumnIds \cup {None} /\ calls[r].dynamic \in BOOLEAN
           /\ CallInv(calls[r])
<1>1. calls[r] \in Call /\ CallInv(calls[r]) /\ calls[r].kind = kind
  BY DEF BoardInv, RowsTyped, CallsInv, Pending
<1> QED BY <1>1 DEF Call

\* A request that has locked tasks deletes a column and moves them.
LEMMA LockTyped ==
    ASSUME BoardInv, TasksInv, NEW r \in Requests, locked[r] # None
    PROVE  /\ locked[r] \in Lock /\ locked[r].found \in [Tasks -> Task]
           /\ locked[r].moving \in Seq(Tasks)
           /\ calls[r] # None /\ Holds(calls[r], locked[r])
           /\ calls[r].kind = "deleteWithMove"
           /\ calls[r].target \in ColumnIds \cup {None}
           /\ calls[r].column \in ColumnIds \cup {None}
           /\ calls[r].target # calls[r].column
<1>1. locked[r] \in Lock
  BY DEF TasksInv, LocksTyped
<1>2. locked[r].found \in [Tasks -> Task] /\ locked[r].moving \in Seq(Tasks)
  BY <1>1 DEF Lock
<1>3. calls[r] # None /\ Holds(calls[r], locked[r])
  BY DEF TasksInv, LocksInv
<1>4. calls[r].kind = "deleteWithMove"
  BY <1>3 DEF Holds
<1>5. calls[r] \in Call
  BY <1>3 DEF BoardInv, RowsTyped
<1>6. calls[r].target # calls[r].column
  BY <1>3, <1>4 DEF BoardInv, CallsInv, CallInv
<1> QED BY <1>1, <1>2, <1>3, <1>4, <1>5, <1>6 DEF Call

\* The kinds of transaction, by what they do to the board.
LEMMA NewVersion ==
    ASSUME BoardInv, NEW r \in Requests, Finish(r), version' = version + 1,
           columns' \in [ColumnIds -> Column], tasks' \in [Tasks -> Task], Arranged'
    PROVE  BoardInv'
<1>1. version \in Nat
  BY DEF BoardInv, RowsTyped
<1>2. /\ calls' \in [Requests -> Call \cup {None}]
      /\ \A q \in Requests : calls'[q] = calls[q] \/ calls'[q] = None
  BY CallsLost DEF BoardInv
<1>3. version' \in Nat /\ version' > version
  BY <1>1
<1>4. CallsInv'
  BY <1>2, <1>3, CallsStay
<1>5. RowsTyped'
  BY <1>2, <1>3 DEF RowsTyped
<1> QED BY <1>4, <1>5 DEF BoardInv

LEMMA SameVersion ==
    ASSUME BoardInv, calls' \in [Requests -> Call \cup {None}],
           \A q \in Requests : calls'[q] = calls[q] \/ calls'[q] = None,
           version' = version, columns' = columns, tasks' \in [Tasks -> Task]
    PROVE  BoardInv'
<1>1. version' \in Nat /\ Live' = Live /\ Order' = Order
  BY SameColumns DEF BoardInv, RowsTyped
<1>2. CallsInv'
  BY <1>1, CallsStay
<1>3. RowsTyped'
  BY <1>1 DEF BoardInv, RowsTyped
<1>4. Arranged'
  BY <1>1 DEF BoardInv, Arranged, ColumnsAreInOrder
<1> QED BY <1>2, <1>3, <1>4 DEF BoardInv

LEMMA Commits ==
    ASSUME BoardInv, TasksInv, NEW r \in Requests, Commit(r)
    PROVE  BoardInv'
<1>t. RowsTyped /\ Arranged /\ version \in Nat /\ tasks \in [Tasks -> Task]
  BY DEF BoardInv, RowsTyped
<1>1. CASE CreateColumn(r)
  <2>1. columns' \in [ColumnIds -> Column] /\ Arranged'
    BY <1>t, <1>1, ColumnCreated DEF CreateColumn
  <2> QED BY <1>t, <1>1, <2>1, NewVersion DEF CreateColumn
<1>2. CASE ReorderColumns(r)
  <2>1. PICK order : order = calls[r].order
    OBVIOUS
  <2>2. Pending(r, "reorder")
    BY <1>2 DEF ReorderColumns
  <2>3. order \in Seq(ColumnIds) /\ NamesOnce(order)
    BY <2>1, <2>2, CallTyped DEF CallInv, ReorderSeen
  <2>4. /\ ToSet(order) = Live /\ columns' = Reindexed(order)
        /\ \A c \in Live : columns[c].intake => Index(order, c) = 0
    BY <1>2, <2>1 DEF ReorderColumns
  <2>5. columns' \in [ColumnIds -> Column] /\ Arranged'
    BY <1>t, <2>3, <2>4, Rearranged
  <2> QED BY <1>t, <1>2, <2>5, NewVersion DEF ReorderColumns
<1>3. CASE UpdateColumn(r)
  <2>1. PICK c : c = calls[r].column
    OBVIOUS
  <2>2. columns \in [ColumnIds -> Column] /\ columns' = [columns EXCEPT ![c].version = @ + 1]
    BY <1>t, <1>3, <2>1 DEF UpdateColumn, RowsTyped
  <2>3. \A d \in ColumnIds : /\ columns'[d] \in Column
                             /\ columns'[d].live = columns[d].live
                             /\ columns'[d].position = columns[d].position
                             /\ columns'[d].intake = columns[d].intake
    BY <2>2 DEF Column
  <2>4. columns' \in [ColumnIds -> Column]
    BY <2>2, <2>3
  <2>5. Live' = Live
    BY <2>3 DEF Live
  <2>6. Order' = Order
    BY <2>3, <2>5, SameOrder DEF Live
  <2>7. Arranged'
    <3>1. /\ {columns'[d].position : d \in Live} = {columns[d].position : d \in Live}
          /\ \A d \in Live : columns'[d].intake = columns[d].intake
                             /\ columns'[d].position = columns[d].position
      BY <2>3 DEF Live
    <3> QED BY <1>t, <2>5, <3>1 DEF Arranged, ColumnsAreInOrder
  <2>8. /\ calls' \in [Requests -> Call \cup {None}]
        /\ \A q \in Requests : calls'[q] = calls[q] \/ calls'[q] = None
    BY <1>t, <1>3, CallsLost DEF UpdateColumn
  <2>9. version' = version /\ tasks' = tasks
    BY <1>3 DEF UpdateColumn
  <2>10. CallsInv'
    BY <1>t, <2>5, <2>6, <2>8, <2>9, CallsStay
  <2> QED BY <1>t, <2>4, <2>7, <2>8, <2>9, <2>10 DEF BoardInv, RowsTyped
<1>4. CASE DeleteWithMove(r)
  <2>1. PICK column, target : column = calls[r].column /\ target = calls[r].target
    OBVIOUS
  <2>2. PICK lock : lock = locked[r]
    OBVIOUS
  <2>3. lock \in Lock /\ target \in ColumnIds \cup {None}
    BY <1>4, <2>1, <2>2, LockTyped DEF DeleteWithMove
  <2>4. MovedTo(lock, target) \in [Tasks -> Task]
    BY <1>t, <2>3, MovedBehind
  <2>5. tasks' = Cleared(MovedTo(lock, target), column)
    BY <1>4, <2>1, <2>2 DEF DeleteWithMove
  <2>6. tasks' \in [Tasks -> Task]
    BY <2>4, <2>5, ClearedTyped
  <2>7. columns' = Reindexed(InOrder(Live \ {column})) /\ version' = version + 1 /\ Finish(r)
    BY <1>4, <2>1 DEF DeleteWithMove, RemoveColumn
  <2>8. columns' \in [ColumnIds -> Column] /\ Arranged'
    BY <1>t, <2>7, ColumnRemoved
  <2> QED BY <2>6, <2>7, <2>8, NewVersion
<1>5. CASE Destroy(r)
  <2>1. PICK column : column = calls[r].column
    OBVIOUS
  <2>2. tasks' = Cleared(tasks, column)
    BY <1>5, <2>1 DEF Destroy
  <2>3. tasks' \in [Tasks -> Task]
    BY <1>t, <2>2, ClearedTyped
  <2>4. columns' = Reindexed(InOrder(Live \ {column})) /\ version' = version + 1 /\ Finish(r)
    BY <1>5, <2>1 DEF Destroy, RemoveColumn
  <2>5. columns' \in [ColumnIds -> Column] /\ Arranged'
    BY <1>t, <2>4, ColumnRemoved
  <2> QED BY <2>3, <2>4, <2>5, NewVersion
<1>6. CASE CreateIntake(r)
  <2>1. PICK seen, dynamic : seen = calls[r].seen /\ dynamic = calls[r].dynamic
    OBVIOUS
  <2>2. Pending(r, "intake")
    BY <1>6 DEF CreateIntake
  <2>3. seen \in Seq(ColumnIds) /\ NamesOnce(seen) /\ dynamic \in BOOLEAN
    BY <2>1, <2>2, CallTyped DEF CallInv
  <2>4. /\ ShiftIsUnique(seen) /\ FreeIds # {} /\ version' = version /\ tasks' = tasks
        /\ columns' = [Shifted(seen) EXCEPT ![NewId] = NewColumn(0, dynamic)]
        /\ Finish(r)
    BY <1>6, <2>1 DEF CreateIntake
  <2>5. columns' \in [ColumnIds -> Column] /\ Arranged' /\ Live' = Live \cup {NewId}
    BY <1>t, <2>3, <2>4, IntakeCreated
  <2>6. /\ calls' \in [Requests -> Call \cup {None}]
        /\ \A q \in Requests : calls'[q] = calls[q] \/ calls'[q] = None
    BY <1>t, <2>4, CallsLost
  <2>7. NewId \in Live \cup {NewId} /\ \A q \in Requests :
            calls[q] # None => NewId \notin ToSet(calls[q].seen)
    BY <2>4, FreeIdIsNew
  <2>8. \E c \in Live' : \A q \in Requests : calls[q] # None => c \notin ToSet(calls[q].seen)
    <3>1. PICK e : e = NewId
      OBVIOUS
    <3>2. e \in Live' /\ \A q \in Requests : calls[q] # None => e \notin ToSet(calls[q].seen)
      BY <2>5, <2>7, <3>1
    <3> QED BY <3>2
  <2>9. Live \subseteq Live'
    BY <2>5
  <2>10. CallsInv'
    BY <1>t, <2>4, <2>6, <2>8, <2>9, CallsStay
  <2> QED BY <1>t, <2>4, <2>5, <2>6, <2>10 DEF BoardInv, RowsTyped
<1> QED BY <1>1, <1>2, <1>3, <1>4, <1>5, <1>6 DEF Commit

LEMMA Aborts ==
    ASSUME BoardInv, NEW r \in Requests, Abort(r)
    PROVE  BoardInv'
<1>1. /\ calls' \in [Requests -> Call \cup {None}]
      /\ \A q \in Requests : calls'[q] = calls[q] \/ calls'[q] = None
  BY CallsLost DEF BoardInv, Abort
<1>2. version' = version /\ columns' = columns /\ tasks' \in [Tasks -> Task]
  BY DEF Abort, BoardInv, RowsTyped
<1> QED BY <1>1, <1>2, SameVersion

\* Steps that change tasks or what is locked leave the board as it is.
LEMMA BoardStays ==
    ASSUME BoardInv, version' = version, columns' = columns, calls' = calls,
           tasks' \in [Tasks -> Task]
    PROVE  BoardInv'
<1>1. /\ calls' \in [Requests -> Call \cup {None}]
      /\ \A q \in Requests : calls'[q] = calls[q] \/ calls'[q] = None
  BY DEF BoardInv, RowsTyped
<1> QED BY <1>1, SameVersion

LEMMA ArchivesTyped ==
    ASSUME RowsTyped, NEW t \in Tasks, ArchiveTask(t)
    PROVE  /\ tasks' \in [Tasks -> Task]
           /\ \A u \in Tasks : /\ tasks'[u].column = tasks[u].column
                               /\ tasks'[u].position = tasks[u].position
                               /\ u # t => tasks'[u] = tasks[u]
<1>1. tasks \in [Tasks -> Task] /\ tasks' = [tasks EXCEPT ![t].archived = ~@]
  BY DEF ArchiveTask, RowsTyped
<1> QED BY <1>1 DEF Task

(***************************************************************************)
(* What transactions have locked.                                          *)
(***************************************************************************)

LEMMA AreLocked ==
    /\ \A m \in moves : RowsOf(m) \subseteq LockedTasks
    /\ \A r \in Requests : MovingOf(r) \subseteq LockedTasks
<1>1. ASSUME NEW m \in moves
      PROVE  RowsOf(m) \subseteq LockedTasks
  <2>1. RowsOf(m) \in {RowsOf(n) : n \in moves}
    OBVIOUS
  <2> QED BY <2>1 DEF LockedTasks
<1>2. ASSUME NEW r \in Requests
      PROVE  MovingOf(r) \subseteq LockedTasks
  <2> SUFFICES ASSUME NEW x \in MovingOf(r)
               PROVE  x \in LockedTasks
    OBVIOUS
  <2> DEFINE A == UNION {MovingOf(q) : q \in Requests}
             B == UNION {RowsOf(m) : m \in moves}
  <2>1. x \in A
    OBVIOUS
  <2>2. LockedTasks = B \cup A
    BY DEF LockedTasks
  <2> HIDE DEF A, B
  <2> QED BY <2>1, <2>2
<1> QED BY <1>1, <1>2

\* A step that writes no locked task in what the lock protects, lets nobody
\* into the columns of a deletion, and keeps the tasks of a tidy target below
\* the place that was read.
LEMMA LocksStay ==
    ASSUME TasksInv, moves' \subseteq moves,
           locked' \in [Requests -> Lock \cup {None}],
           \A q \in Requests :
                (locked'[q] = locked[q] /\ calls'[q] = calls[q]) \/ locked'[q] = None,
           \A m \in moves' : \A u \in RowsOf(m) : tasks'[u].column = tasks[u].column,
           \A q \in Requests : locked'[q] # None =>
                /\ \A t \in ToSet(locked[q].moving) :
                        /\ tasks'[t].column = tasks[t].column
                        /\ tasks'[t].archived <=> tasks[t].archived
                /\ \A t \in Tasks :
                        tasks'[t].column \in {calls[q].column, calls[q].target} =>
                            tasks[t].column = tasks'[t].column
                /\ Tidy(locked[q].found, calls[q].target) =>
                        \A t \in Tasks : tasks'[t].column = calls[q].target =>
                            \/ tasks'[t].position = tasks[t].position
                            \/ tasks'[t].position
                                    < Behind(locked[q].found, calls[q].target)
    PROVE  TasksInv'
<1>1. LocksTyped'
  BY DEF TasksInv, LocksTyped
<1>2. ASSUME NEW q \in Requests, locked'[q] # None
      PROVE  (calls[q] # None /\ Holds(calls[q], locked[q]))'
  <2>1. PICK call, lock : call = calls[q] /\ lock = locked[q]
    OBVIOUS
  <2>2. locked'[q] = lock /\ calls'[q] = call
    BY <1>2, <2>1
  <2>3. call # None /\ Holds(call, lock)
    BY <1>2, <2>1, <2>2 DEF TasksInv, LocksInv
  <2>4. \A t \in ToSet(lock.moving) : tasks'[t].column = call.column /\ ~tasks'[t].archived
    BY <1>2, <2>1, <2>3 DEF Holds
  <2>5. \A t \in Tasks : tasks'[t].column \in {call.column, call.target} =>
            lock.found[t].column = tasks'[t].column
    <3> SUFFICES ASSUME NEW t \in Tasks, tasks'[t].column \in {call.column, call.target}
                 PROVE  lock.found[t].column = tasks'[t].column
      OBVIOUS
    <3>1. tasks[t].column = tasks'[t].column
      BY <1>2, <2>1
    <3> QED BY <2>3, <3>1 DEF Holds
  <2>6. ASSUME Tidy(lock.found, call.target), NEW t \in Tasks, tasks'[t].column = call.target
        PROVE  tasks'[t].position < Behind(lock.found, call.target)
    <3>1. tasks[t].column = call.target
      BY <1>2, <2>1, <2>6
    <3>2. tasks[t].position < Behind(lock.found, call.target)
      BY <2>3, <2>6, <3>1 DEF Holds
    <3>3. \/ tasks'[t].position = tasks[t].position
          \/ tasks'[t].position < Behind(lock.found, call.target)
      BY <1>2, <2>1, <2>6
    <3> QED BY <3>2, <3>3
  <2>7. /\ call.kind = "deleteWithMove"
        /\ ToSet(lock.moving) =
                {t \in Tasks : lock.found[t].column = call.column /\ ~lock.found[t].archived}
    BY <2>3 DEF Holds
  <2>8. Holds(call, lock)'
    BY <2>4, <2>5, <2>6, <2>7 DEF Holds, Behind, Tidy
  <2> QED BY <2>2, <2>3, <2>8
<1>3. ASSUME NEW m \in moves'
      PROVE  Listed(m)'
  <2>1. m \in moves /\ Listed(m)
    BY DEF TasksInv
  <2>2. \A u \in RowsOf(m) : tasks'[u].column = tasks[u].column
    OBVIOUS
  <2>3. m.task \in RowsOf(m) /\ ToSet(m.siblings) \subseteq RowsOf(m)
        /\ ToSet(m.left) \subseteq RowsOf(m)
    BY <2>1 DEF Listed, RowsOf
  <2>4. /\ NamesOnce(m.siblings) /\ NamesOnce(m.left) /\ m.task \in ToSet(m.siblings)
        /\ \A u \in ToSet(m.siblings) : u = m.task \/ tasks'[u].column = m.column
        /\ \A u \in ToSet(m.left) : tasks'[u].column = tasks'[m.task].column
    BY <2>1, <2>2, <2>3 DEF Listed
  <2> QED BY <2>4 DEF Listed, NamesOnce
<1>4. Apart'
  <2>1. \A q \in Requests : MovingOf(q)' \subseteq MovingOf(q)
    BY DEF MovingOf
  <2>2. \A m \in moves', n \in moves' : m # n => RowsOf(m) \cap RowsOf(n) = {}
    BY DEF TasksInv, Apart
  <2>3. \A m \in moves', q \in Requests : RowsOf(m) \cap MovingOf(q)' = {}
    BY <2>1 DEF TasksInv, Apart
  <2> QED BY <2>2, <2>3 DEF Apart, RowsOf
<1> QED BY <1>1, <1>2, <1>3, <1>4 DEF TasksInv, LocksInv

\* The tasks that a move numbers in a column fit below the place behind them.
LEMMA ListFits ==
    ASSUME BoardInv, TasksInv, NEW r \in Requests, locked[r] # None,
           Tidy(locked[r].found, calls[r].target),
           NEW s \in Seq(Tasks), NamesOnce(s),
           \A u \in ToSet(s) : tasks[u].column = calls[r].target
    PROVE  \A u \in ToSet(s) : Index(s, u) < Behind(locked[r].found, calls[r].target)
<1>1. PICK found, target : found = locked[r].found /\ target = calls[r].target
  OBVIOUS
<1>2. found \in [Tasks -> Task] /\ Holds(calls[r], locked[r])
  BY <1>1, LockTyped
<1>3. PICK F : F = {t \in Tasks : found[t].column = target}
  OBVIOUS
<1>4. IsFiniteSet(F) /\ Cardinality(F) \in Nat /\ Cardinality(F) <= Behind(found, target)
  BY <1>1, <1>2, <1>3, TidyFits
<1>5. ToSet(s) \in SUBSET F
  <2> SUFFICES ASSUME NEW u \in ToSet(s) PROVE u \in F
    OBVIOUS
  <2>1. u \in Tasks /\ tasks[u].column = target
    BY <1>1, PlaceTyped
  <2>2. found[u].column = target
    BY <1>1, <1>2, <2>1 DEF Holds
  <2> QED BY <1>3, <2>1, <2>2
<1>6. /\ \A u \in ToSet(s) : Index(s, u) \in 0..Len(s) - 1
      /\ Cardinality(ToSet(s)) = Len(s)
  BY ListedPlaces
<1>7. Cardinality(ToSet(s)) <= Cardinality(F)
  BY <1>4, <1>5, FS_Subset
<1>8. Behind(found, target) \in Nat /\ Len(s) \in Nat
  BY <1>2, BehindAll
<1> QED BY <1>1, <1>4, <1>6, <1>7, <1>8

LEMMA MovesKeepLocks ==
    ASSUME BoardInv, TasksInv, NEW m \in moves, MoveTask(m)
    PROVE  BoardInv' /\ TasksInv'
<1>1. m \in Move /\ Listed(m) /\ RowsTyped
  BY DEF TasksInv, LocksTyped, BoardInv
<1>2. PICK siblings, left, c : siblings = m.siblings /\ left = m.left /\ c = m.column
  OBVIOUS
<1>3. siblings \in Seq(Tasks) /\ left \in Seq(Tasks)
  BY <1>1, <1>2 DEF Move
<1>4. /\ NamesOnce(siblings) /\ NamesOnce(left) /\ m.task \in ToSet(siblings)
      /\ \A u \in ToSet(siblings) : u = m.task \/ tasks[u].column = c
      /\ \A u \in ToSet(left) : tasks[u].column = tasks[m.task].column
  BY <1>1, <1>2 DEF Listed
<1>5. /\ tasks' \in [Tasks -> Task]
      /\ \A u \in Tasks : /\ tasks'[u].archived = tasks[u].archived
                          /\ u \notin RowsOf(m) => tasks'[u] = tasks[u]
      /\ \A u \in ToSet(siblings) : /\ tasks'[u].column = c
                                    /\ tasks'[u].position = Index(siblings, u)
      /\ \A u \in ToSet(left) \ ToSet(siblings) :
            /\ tasks'[u].column = tasks[u].column
            /\ tasks'[u].position = Index(left, u)
  <2>1. tasks' = Renumbered(m)
    BY DEF MoveTask
  <2> QED BY <1>1, <1>2, <2>1, MovesTyped
<1>6. /\ version' = version /\ columns' = columns /\ calls' = calls /\ locked' = locked
      /\ moves' = moves \ {m}
      /\ tasks[m.task].column # c => \A r \in Requests : c \notin HeldBy(r)
  BY <1>2 DEF MoveTask
<1>7. BoardInv'
  BY <1>5, <1>6, BoardStays
<1>8. RowsOf(m) = ToSet(siblings) \cup ToSet(left)
  BY <1>2 DEF RowsOf
<1>9. ASSUME NEW n \in moves', NEW u \in RowsOf(n)
      PROVE  tasks'[u].column = tasks[u].column
  <2>1. n \in moves /\ n # m
    BY <1>6
  <2>2. u \notin RowsOf(m)
    BY <2>1 DEF TasksInv, Apart
  <2>3. n \in Move
    BY <2>1 DEF TasksInv, LocksTyped
  <2>4. n.siblings \in Seq(Tasks) /\ n.left \in Seq(Tasks)
    BY <2>3 DEF Move
  <2>5. u \in Tasks
    BY <2>4, PlaceTyped DEF RowsOf
  <2> QED BY <1>5, <2>2, <2>5
<1>10. ASSUME NEW q \in Requests, locked'[q] # None
       PROVE  /\ \A t \in ToSet(locked[q].moving) :
                    /\ tasks'[t].column = tasks[t].column
                    /\ tasks'[t].archived <=> tasks[t].archived
              /\ \A t \in Tasks :
                    tasks'[t].column \in {calls[q].column, calls[q].target} =>
                        tasks[t].column = tasks'[t].column
              /\ Tidy(locked[q].found, calls[q].target) =>
                    \A t \in Tasks : tasks'[t].column = calls[q].target =>
                        \/ tasks'[t].position = tasks[t].position
                        \/ tasks'[t].position
                                < Behind(locked[q].found, calls[q].target)
  <2>0. locked[q] # None
    BY <1>6, <1>10
  <2>1. HeldBy(q) = {calls[q].column, calls[q].target} /\ MovingOf(q) = ToSet(locked[q].moving)
    BY <2>0 DEF HeldBy, MovingOf
  <2>2. locked[q].moving \in Seq(Tasks)
    BY <2>0, LockTyped
  <2>3. ASSUME NEW t \in ToSet(locked[q].moving)
        PROVE  tasks'[t].column = tasks[t].column /\ (tasks'[t].archived <=> tasks[t].archived)
    <3>1. t \in Tasks /\ t \notin RowsOf(m)
      BY <2>1, <2>2, PlaceTyped DEF TasksInv, Apart
    <3>2. tasks'[t] = tasks[t]
      BY <1>5, <3>1
    <3> QED BY <3>2
  <2>4. ASSUME NEW t \in Tasks, tasks'[t].column \in {calls[q].column, calls[q].target}
        PROVE  tasks[t].column = tasks'[t].column
    <3>1. CASE t \notin RowsOf(m)
      BY <1>5, <3>1
    <3>2. CASE t \in ToSet(siblings)
      <4>1. tasks'[t].column = c /\ c \in HeldBy(q)
        BY <1>5, <2>1, <2>4, <3>2
      <4>2. tasks[m.task].column = c
        BY <1>6, <4>1
      <4> QED BY <1>4, <3>2, <4>1, <4>2
    <3>3. CASE t \in ToSet(left) \ ToSet(siblings)
      BY <1>5, <3>3
    <3> QED BY <1>8, <3>1, <3>2, <3>3
  <2>5. ASSUME Tidy(locked[q].found, calls[q].target),
               NEW t \in Tasks, tasks'[t].column = calls[q].target
        PROVE  \/ tasks'[t].position = tasks[t].position
               \/ tasks'[t].position < Behind(locked[q].found, calls[q].target)
    <3>0. tasks[t].column = calls[q].target
      BY <2>4, <2>5
    <3>1. CASE t \notin RowsOf(m)
      BY <1>5, <3>1
    <3>2. CASE t \in ToSet(siblings)
      <4>1. c = calls[q].target /\ c \in HeldBy(q)
        BY <1>5, <2>1, <2>5, <3>2
      <4>2. tasks[m.task].column = c
        BY <1>6, <4>1
      <4>3. \A u \in ToSet(siblings) : tasks[u].column = calls[q].target
        BY <1>4, <4>1, <4>2
      <4>4. Index(siblings, t) < Behind(locked[q].found, calls[q].target)
        BY <1>3, <1>4, <2>0, <2>5, <3>2, <4>3, ListFits
      <4> QED BY <1>5, <3>2, <4>4
    <3>3. CASE t \in ToSet(left) \ ToSet(siblings)
      <4>1. \A u \in ToSet(left) : tasks[u].column = calls[q].target
        BY <1>4, <3>0, <3>3
      <4>2. Index(left, t) < Behind(locked[q].found, calls[q].target)
        BY <1>3, <1>4, <2>0, <2>5, <3>3, <4>1, ListFits
      <4> QED BY <1>5, <3>3, <4>2
    <3> QED BY <1>8, <3>1, <3>2, <3>3
  <2> QED BY <2>3, <2>4, <2>5
<1>11. locked' \in [Requests -> Lock \cup {None}]
  BY <1>6 DEF TasksInv, LocksTyped
<1>12. TasksInv'
  BY <1>6, <1>9, <1>10, <1>11, LocksStay
<1> QED BY <1>7, <1>12

LEMMA ArchivesKeepLocks ==
    ASSUME BoardInv, TasksInv, NEW t \in Tasks, ArchiveTask(t)
    PROVE  BoardInv' /\ TasksInv'
<1>1. /\ tasks' \in [Tasks -> Task]
      /\ \A u \in Tasks : /\ tasks'[u].column = tasks[u].column
                          /\ tasks'[u].position = tasks[u].position
                          /\ u # t => tasks'[u] = tasks[u]
  BY ArchivesTyped DEF BoardInv
<1>2. /\ version' = version /\ columns' = columns /\ calls' = calls /\ locked' = locked
      /\ moves' = moves /\ t \notin LockedTasks
  BY DEF ArchiveTask
<1>3. BoardInv'
  BY <1>1, <1>2, BoardStays
<1>4. ASSUME NEW m \in moves', NEW u \in RowsOf(m)
      PROVE  tasks'[u].column = tasks[u].column
  <2>1. m \in Move
    BY <1>2 DEF TasksInv, LocksTyped
  <2>2. m.siblings \in Seq(Tasks) /\ m.left \in Seq(Tasks)
    BY <2>1 DEF Move
  <2>3. u \in Tasks
    BY <2>2, PlaceTyped DEF RowsOf
  <2> QED BY <1>1, <2>3
<1>5. ASSUME NEW q \in Requests, locked'[q] # None, NEW u \in ToSet(locked[q].moving)
      PROVE  tasks'[u].column = tasks[u].column /\ (tasks'[u].archived <=> tasks[u].archived)
  <2>1. locked[q] # None /\ locked[q].moving \in Seq(Tasks)
    BY <1>2, <1>5, LockTyped
  <2>2. u \in Tasks /\ u # t
    <3>1. u \in MovingOf(q)
      BY <1>5, <2>1 DEF MovingOf
    <3>2. u \in LockedTasks
      BY <1>5, <3>1, AreLocked
    <3> QED BY <1>2, <1>5, <2>1, <3>2, PlaceTyped
  <2>3. tasks'[u] = tasks[u]
    BY <1>1, <2>2
  <2> QED BY <2>3
<1>6. locked' \in [Requests -> Lock \cup {None}]
  BY <1>2 DEF TasksInv, LocksTyped
<1>7. TasksInv'
  BY <1>1, <1>2, <1>4, <1>5, <1>6, LocksStay
<1> QED BY <1>3, <1>7

\* What a request locks to delete a column is what the column has then.
LEMMA LocksTaken ==
    ASSUME BoardInv, TasksInv, NEW r \in Requests, LockTasks(r)
    PROVE  BoardInv' /\ TasksInv'
<1>1. PICK call, c, target : call = calls[r] /\ c = call.column /\ target = call.target
  OBVIOUS
<1>2. Pending(r, "deleteWithMove")
  BY DEF LockTasks
<1>3. call # None /\ call.kind = "deleteWithMove"
  BY <1>1, <1>2 DEF Pending
<1>t. RowsTyped /\ tasks \in [Tasks -> Task]
  BY DEF BoardInv, RowsTyped
<1>4. PICK S, s : S = ActiveIn(c) /\ s = TasksInOrder(S)
  OBVIOUS
<1>5. S \in SUBSET Tasks
  BY <1>4, ActiveTasks
<1>6. s \in Seq(Tasks) /\ ToSet(s) = S
  BY <1>4, <1>5, <1>t, TasksSorted
<1>7. PICK lock : lock = [moving |-> s, found |-> tasks]
  OBVIOUS
<1>8. lock \in Lock /\ lock.moving = s /\ lock.found = tasks
  BY <1>6, <1>7, <1>t DEF Lock
<1>9. /\ locked' = [locked EXCEPT ![r] = lock]
      /\ version' = version /\ columns' = columns /\ tasks' = tasks
      /\ calls' = calls /\ moves' = moves /\ S \cap LockedTasks = {}
  BY <1>1, <1>4, <1>7 DEF LockTasks
<1>10. BoardInv'
  <2>1. tasks' \in [Tasks -> Task]
    BY <1>9, <1>t
  <2> QED BY <1>9, <2>1, BoardStays
<1>11. locked \in [Requests -> Lock \cup {None}]
  BY DEF TasksInv, LocksTyped
<1>12. /\ locked' \in [Requests -> Lock \cup {None}] /\ locked'[r] = lock
       /\ \A q \in Requests : q # r => locked'[q] = locked[q]
  BY <1>8, <1>9, <1>11
<1>13. Holds(call, lock)
  <2>1. ToSet(lock.moving) =
            {t \in Tasks : lock.found[t].column = c /\ ~lock.found[t].archived}
    BY <1>4, <1>6, <1>8 DEF ActiveIn
  <2>2. \A t \in ToSet(lock.moving) : tasks[t].column = c /\ ~tasks[t].archived
    BY <1>8, <2>1
  <2>3. ASSUME Tidy(lock.found, target), NEW t \in Tasks, tasks[t].column = target
        PROVE  tasks[t].position < Behind(lock.found, target)
    <3>1. ~tasks[t].archived
      <4>1. t \in {v \in Tasks : tasks[v].column = target}
        BY <2>3
      <4>2. Tidy(tasks, target)
        BY <1>8, <2>3
      <4> QED BY <4>1, <4>2 DEF Tidy
    <3> QED BY <1>8, <1>t, <2>3, <3>1, BehindAll
  <2> QED BY <1>1, <1>3, <1>8, <2>1, <2>2, <2>3 DEF Holds
<1>14. ASSUME NEW q \in Requests, locked'[q] # None
       PROVE  calls[q] # None /\ Holds(calls[q], locked'[q])
  <2>1. CASE q = r
    BY <1>1, <1>3, <1>12, <1>13, <2>1
  <2>2. CASE q # r
    BY <1>12, <1>14, <2>2 DEF TasksInv, LocksInv
  <2> QED BY <2>1, <2>2
<1>15. LocksInv'
  <2> SUFFICES ASSUME NEW q \in Requests, locked'[q] # None
               PROVE  (calls[q] # None /\ Holds(calls[q], locked[q]))'
    BY DEF LocksInv
  <2>1. calls[q] # None /\ Holds(calls[q], locked'[q])
    BY <1>14
  <2> QED BY <1>9, <2>1 DEF Holds
<1>16. Apart'
  <2>1. ASSUME NEW m \in moves, NEW q \in Requests
        PROVE  RowsOf(m) \cap MovingOf(q)' = {}
    <3>1. CASE q = r
      <4>1. MovingOf(q)' \subseteq S
        BY <1>6, <1>8, <1>12, <3>1 DEF MovingOf
      <4>2. RowsOf(m) \subseteq LockedTasks
        BY DEF LockedTasks
      <4> QED BY <1>9, <4>1, <4>2
    <3>2. CASE q # r
      <4>1. MovingOf(q)' = MovingOf(q)
        BY <1>12, <3>2 DEF MovingOf
      <4> QED BY <4>1 DEF TasksInv, Apart
    <3> QED BY <3>1, <3>2
  <2> QED BY <1>9, <2>1 DEF TasksInv, Apart, RowsOf
<1>17. LocksTyped' /\ \A m \in moves' : Listed(m)'
  BY <1>9, <1>12 DEF TasksInv, LocksTyped, Listed
<1> QED BY <1>10, <1>15, <1>16, <1>17 DEF TasksInv

\* A task inserted into a list that does not name it.
LEMMA InsertedOnce ==
    ASSUME NEW S, NEW s \in Seq(S), NamesOnce(s), NEW t \in S, t \notin ToSet(s),
           NEW at \in 1..Len(s) + 1
    PROVE  /\ InsertAt(s, at, t) \in Seq(S) /\ NamesOnce(InsertAt(s, at, t))
           /\ ToSet(InsertAt(s, at, t)) = ToSet(s) \cup {t}
<1>n. PICK n \in Nat : n = Len(s)
  OBVIOUS
<1>1. PICK q : q = InsertAt(s, at, t)
  OBVIOUS
<1>2. q = SubSeq(s, 1, at - 1) \o <<t>> \o SubSeq(s, at, n)
  BY <1>1, <1>n DEF InsertAt
<1>3. s \in [1..n -> S] /\ at \in 1..n + 1 /\ DOMAIN s = 1..n
  BY <1>n
<1>4. PICK a, b : a = SubSeq(s, 1, at - 1) /\ b = SubSeq(s, at, n)
  OBVIOUS
<1>5. /\ a \in Seq(S) /\ Len(a) = at - 1
      /\ \A i \in 1..at - 1 : a[i] = s[i]
  BY <1>3, <1>4
<1>6. /\ b \in Seq(S) /\ Len(b) = n + 1 - at
      /\ \A i \in 1..n + 1 - at : b[i] = s[at + i - 1]
  BY <1>3, <1>4
<1>7. /\ q \in Seq(S) /\ Len(q) = n + 1
      /\ \A i \in 1..n + 1 : q[i] = IF i < at THEN s[i]
                                    ELSE IF i = at THEN t ELSE s[i - 1]
  <2>1. <<t>> \in Seq(S) /\ Len(<<t>>) = 1 /\ <<t>>[1] = t
    OBVIOUS
  <2>2. PICK d : d = a \o <<t>>
    OBVIOUS
  <2>3. /\ d \in Seq(S) /\ Len(d) = at
        /\ \A i \in 1..at : d[i] = IF i < at THEN s[i] ELSE t
    BY <1>3, <1>5, <2>1, <2>2
  <2>4. q = d \o b
    BY <1>2, <1>4, <2>2
  <2>5. q \in Seq(S) /\ Len(q) = n + 1
    BY <1>3, <1>6, <2>3, <2>4
  <2>6. ASSUME NEW i \in 1..n + 1
        PROVE  q[i] = IF i < at THEN s[i] ELSE IF i = at THEN t ELSE s[i - 1]
    <3>1. CASE i <= at
      <4>1. q[i] = d[i] /\ i \in 1..at
        BY <1>3, <1>6, <2>3, <2>4, <3>1
      <4> QED BY <1>3, <2>3, <3>1, <4>1
    <3>2. CASE i > at
      <4>1. i - at \in 1..n + 1 - at
        BY <1>3, <3>2
      <4>2. q[i] = b[i - at]
        BY <1>3, <1>6, <2>3, <2>4, <3>2, <4>1
      <4>3. at + (i - at) - 1 = i - 1
        BY <1>3
      <4> QED BY <1>3, <1>6, <3>2, <4>1, <4>2, <4>3
    <3> QED BY <1>3, <3>1, <3>2
  <2> QED BY <2>5, <2>6
<1>8. DOMAIN q = 1..n + 1
  BY <1>7
<1>9. \A i \in 1..n : s[i] # t /\ \A j \in 1..n : i # j => s[i] # s[j]
  BY <1>3 DEF NamesOnce, ToSet
<1>10. NamesOnce(q)
  <2> SUFFICES ASSUME NEW i \in 1..n + 1, NEW j \in 1..n + 1, i < j
               PROVE  q[i] # q[j]
    BY <1>8 DEF NamesOnce
  <2>1. CASE j < at
    BY <1>3, <1>7, <1>9, <2>1
  <2>2. CASE j = at
    BY <1>3, <1>7, <1>9, <2>2
  <2>3. CASE j > at
    <3>1. j - 1 \in 1..n /\ q[j] = s[j - 1]
      BY <1>3, <1>7, <2>3
    <3>2. CASE i < at
      <4>1. i \in 1..n /\ i # j - 1 /\ q[i] = s[i]
        BY <1>3, <1>7, <2>3, <3>2
      <4> QED BY <1>9, <3>1, <4>1
    <3>3. CASE i = at
      BY <1>3, <1>7, <1>9, <3>1, <3>3
    <3>4. CASE i > at
      <4>1. i - 1 \in 1..n /\ i - 1 # j - 1 /\ q[i] = s[i - 1]
        BY <1>3, <1>7, <3>4
      <4> QED BY <1>9, <3>1, <4>1
    <3> QED BY <1>3, <3>2, <3>3, <3>4
  <2> QED BY <1>3, <2>1, <2>2, <2>3
<1>11. ToSet(q) = ToSet(s) \cup {t}
  <2>1. ASSUME NEW i \in 1..n + 1
        PROVE  q[i] \in ToSet(s) \cup {t}
    <3>1. CASE i < at
      BY <1>3, <1>7, <3>1 DEF ToSet
    <3>2. CASE i = at
      BY <1>3, <1>7, <3>2
    <3>3. CASE i > at
      <4>1. i - 1 \in 1..n /\ q[i] = s[i - 1]
        BY <1>3, <1>7, <3>3
      <4> QED BY <1>3, <4>1 DEF ToSet
    <3> QED BY <1>3, <3>1, <3>2, <3>3
  <2>2. ASSUME NEW i \in 1..n
        PROVE  s[i] \in ToSet(q)
    <3>1. CASE i < at
      <4>1. i \in 1..n + 1 /\ q[i] = s[i]
        BY <1>3, <1>7, <3>1
      <4> QED BY <1>8, <4>1 DEF ToSet
    <3>2. CASE i >= at
      <4>1. i + 1 \in 1..n + 1 /\ ~(i + 1 < at) /\ i + 1 # at /\ (i + 1) - 1 = i
        BY <1>3, <3>2
      <4>2. q[i + 1] = s[i]
        BY <1>7, <4>1
      <4> QED BY <1>8, <4>1, <4>2 DEF ToSet
    <3> QED BY <1>3, <3>1, <3>2
  <2>3. t \in ToSet(q)
    <3>1. at \in 1..n + 1 /\ q[at] = t
      BY <1>3, <1>7
    <3> QED BY <1>8, <3>1 DEF ToSet
  <2> QED BY <1>3, <1>8, <2>1, <2>2, <2>3 DEF ToSet
<1> QED BY <1>1, <1>7, <1>10, <1>11

\* What a move has listed is in the two columns.
LEMMA SiblingsLocked ==
    ASSUME BoardInv, TasksInv, NEW t \in Tasks, LockSiblings(t)
    PROVE  BoardInv' /\ TasksInv'
<1>t. RowsTyped /\ tasks \in [Tasks -> Task]
  BY DEF BoardInv, RowsTyped
<1>1. PICK c \in Live : \E at \in 1..Cardinality(ActiveIn(c) \ {t}) + 1 :
        LET m == [task |-> t, column |-> c,
                  siblings |-> Inserted(c, t, at), left |-> LeftBy(t, c)]
        IN  /\ RowsOf(m) \cap LockedTasks = {}
            /\ moves' = moves \cup {m}
  BY DEF LockSiblings
<1>2. PICK at \in 1..Cardinality(ActiveIn(c) \ {t}) + 1 :
        LET m == [task |-> t, column |-> c,
                  siblings |-> Inserted(c, t, at), left |-> LeftBy(t, c)]
        IN  /\ RowsOf(m) \cap LockedTasks = {}
            /\ moves' = moves \cup {m}
  BY <1>1
<1>3. PICK siblings, left : siblings = Inserted(c, t, at) /\ left = LeftBy(t, c)
  OBVIOUS
<1>4. PICK m : m = [task |-> t, column |-> c, siblings |-> siblings, left |-> left]
  OBVIOUS
<1>5. RowsOf(m) \cap LockedTasks = {} /\ moves' = moves \cup {m}
  BY <1>2, <1>3, <1>4
<1>6. siblings \in Seq(Tasks) /\ NamesOnce(siblings)
      /\ ToSet(siblings) = (ActiveIn(c) \ {t}) \cup {t}
  <2>1. PICK S, s : S = ActiveIn(c) \ {t} /\ s = TasksInOrder(S)
    OBVIOUS
  <2>2. S \in SUBSET Tasks
    BY <2>1, ActiveTasks
  <2>3. /\ s \in Seq(S) /\ ToSet(s) = S /\ NamesOnce(s) /\ Len(s) = Cardinality(S)
    BY <1>t, <2>1, <2>2, TasksSorted
  <2>4. s \in Seq(Tasks)
    BY <2>2, <2>3
  <2>5. t \notin ToSet(s)
    BY <2>1, <2>3
  <2>6. at \in 1..Len(s) + 1
    BY <2>1, <2>3
  <2>7. siblings = InsertAt(s, at, t)
    BY <1>3, <2>1 DEF Inserted
  <2>8. /\ InsertAt(s, at, t) \in Seq(Tasks) /\ NamesOnce(InsertAt(s, at, t))
        /\ ToSet(InsertAt(s, at, t)) = ToSet(s) \cup {t}
    BY <2>3, <2>4, <2>5, <2>6, InsertedOnce
  <2> QED BY <2>1, <2>3, <2>7, <2>8
<1>7. left \in Seq(Tasks) /\ NamesOnce(left)
      /\ \A u \in ToSet(left) : tasks[u].column = tasks[t].column
  <2>1. CASE tasks[t].column \in {None, c}
    <3>1. left = <<>>
      BY <1>3, <2>1 DEF LeftBy
    <3> QED BY <3>1 DEF NamesOnce, ToSet
  <2>2. CASE tasks[t].column \notin {None, c}
    <3>1. PICK S : S = ActiveIn(tasks[t].column) \ {t}
      OBVIOUS
    <3>2. left = TasksInOrder(S)
      BY <1>3, <2>2, <3>1 DEF LeftBy
    <3>3. S \in SUBSET Tasks /\ \A u \in S : tasks[u].column = tasks[t].column
      BY <3>1, ActiveTasks
    <3>4. left \in Seq(S) /\ ToSet(left) = S /\ NamesOnce(left)
      BY <1>t, <3>2, <3>3, TasksSorted
    <3> QED BY <3>3, <3>4
  <2> QED BY <2>1, <2>2
<1>8. m \in Move
  BY <1>4, <1>6, <1>7 DEF Move, Live
<1>9. Listed(m)
  <2>1. \A u \in ToSet(siblings) : u = t \/ tasks[u].column = c
    BY <1>6, ActiveTasks
  <2>2. t \in ToSet(siblings)
    BY <1>6
  <2> QED BY <1>4, <1>6, <1>7, <2>1, <2>2 DEF Listed
<1>10. /\ version' = version /\ columns' = columns /\ tasks' = tasks
       /\ calls' = calls /\ locked' = locked
  BY DEF LockSiblings
<1>11. BoardInv'
  <2>1. tasks' \in [Tasks -> Task]
    BY <1>10, <1>t
  <2> QED BY <1>10, <2>1, BoardStays
<1>12. LocksTyped' /\ \A n \in moves' : Listed(n)'
  BY <1>5, <1>8, <1>9, <1>10 DEF TasksInv, LocksTyped, Listed
<1>13. LocksInv'
  BY <1>10 DEF TasksInv, LocksInv, Holds
<1>14. Apart'
  <2>1. \A n \in moves : RowsOf(n) \subseteq LockedTasks
    BY AreLocked
  <2>2. \A q \in Requests : MovingOf(q) \subseteq LockedTasks
    BY AreLocked
  <2>3. \A q \in Requests : MovingOf(q)' = MovingOf(q)
    BY <1>10 DEF MovingOf
  <2>4. \A n \in moves', k \in moves' : n # k => RowsOf(n) \cap RowsOf(k) = {}
    BY <1>5, <2>1 DEF TasksInv, Apart
  <2>5. \A n \in moves', q \in Requests : RowsOf(n) \cap MovingOf(q)' = {}
    BY <1>5, <2>2, <2>3 DEF TasksInv, Apart
  <2> QED BY <2>4, <2>5 DEF Apart, RowsOf
<1> QED BY <1>11, <1>12, <1>13, <1>14 DEF TasksInv

\* A step that leaves the tasks and ends or starts a request, or none.
LEMMA TasksUntouched ==
    ASSUME TasksInv, tasks' = tasks, moves' \subseteq moves,
           locked' \in [Requests -> Lock \cup {None}],
           \A q \in Requests :
                (locked'[q] = locked[q] /\ calls'[q] = calls[q]) \/ locked'[q] = None
    PROVE  TasksInv'
<1>1. \A m \in moves' : \A u \in RowsOf(m) : tasks'[u].column = tasks[u].column
  OBVIOUS
<1>2. ASSUME NEW q \in Requests, locked'[q] # None
      PROVE  /\ \A t \in ToSet(locked[q].moving) :
                    /\ tasks'[t].column = tasks[t].column
                    /\ tasks'[t].archived <=> tasks[t].archived
             /\ \A t \in Tasks :
                    tasks'[t].column \in {calls[q].column, calls[q].target} =>
                        tasks[t].column = tasks'[t].column
             /\ Tidy(locked[q].found, calls[q].target) =>
                    \A t \in Tasks : tasks'[t].column = calls[q].target =>
                        \/ tasks'[t].position = tasks[t].position
                        \/ tasks'[t].position
                                < Behind(locked[q].found, calls[q].target)
  OBVIOUS
<1> QED BY <1>1, <1>2, LocksStay

LEMMA LocksFinish ==
    ASSUME TasksInv, NEW r \in Requests, Finish(r)
    PROVE  /\ locked' \in [Requests -> Lock \cup {None}] /\ locked'[r] = None
           /\ moves' = moves
           /\ \A q \in Requests :
                (locked'[q] = locked[q] /\ calls'[q] = calls[q]) \/ locked'[q] = None
           /\ \A q \in Requests \ {r} : locked'[q] = locked[q]
<1>1. locked \in [Requests -> Lock \cup {None}]
  BY DEF TasksInv, LocksTyped
<1>2. /\ locked' = [locked EXCEPT ![r] = None] /\ moves' = moves
      /\ calls' = [calls EXCEPT ![r] = None]
  BY DEF Finish
<1>3. \A q \in Requests \ {r} : locked'[q] = locked[q]
  BY <1>1, <1>2
<1>4. locked' \in [Requests -> Lock \cup {None}] /\ locked'[r] = None
  BY <1>1, <1>2
<1> QED BY <1>2, <1>3, <1>4

LEMMA ArrivalsKeepLocks ==
    ASSUME BoardInv, TasksInv, NEW r \in Requests, Arrive(r)
    PROVE  BoardInv' /\ TasksInv'
<1>1. /\ BoardInv' /\ calls[r] = None
      /\ \A q \in Requests \ {r} : calls'[q] = calls[q]
      /\ tasks' = tasks /\ locked' = locked /\ moves' = moves
  BY Arrivals
<1>2. locked[r] = None
  BY <1>1 DEF TasksInv, LocksInv
<1>3. \A q \in Requests :
                (locked'[q] = locked[q] /\ calls'[q] = calls[q]) \/ locked'[q] = None
  BY <1>1, <1>2
<1>4. locked' \in [Requests -> Lock \cup {None}]
  BY <1>1 DEF TasksInv, LocksTyped
<1> QED BY <1>1, <1>3, <1>4, TasksUntouched

\* A column goes only when no request holds another and no move its tasks.
LEMMA RemovalsKeepLocks ==
    ASSUME BoardInv, TasksInv, NEW r \in Requests, DeleteWithMove(r) \/ Destroy(r)
    PROVE  TasksInv'
<1>1. PICK c : c = calls[r].column
  OBVIOUS
<1>2. /\ Finish(r) /\ NoOtherHolds(r)
      /\ \A m \in moves : \A t \in RowsOf(m) : tasks[t].column # c
  BY <1>1 DEF DeleteWithMove, Destroy, RemoveColumn
<1>3. /\ locked' \in [Requests -> Lock \cup {None}] /\ moves' = moves
      /\ \A q \in Requests : locked'[q] = None
  BY <1>2, LocksFinish DEF NoOtherHolds
<1>t. RowsTyped /\ tasks \in [Tasks -> Task]
  BY DEF BoardInv, RowsTyped
<1>4. ASSUME NEW m \in moves', NEW u \in RowsOf(m)
      PROVE  tasks'[u].column = tasks[u].column
  <2>1. m \in Move
    BY <1>3 DEF TasksInv, LocksTyped
  <2>2. m.siblings \in Seq(Tasks) /\ m.left \in Seq(Tasks)
    BY <2>1 DEF Move
  <2>3. u \in Tasks /\ tasks[u].column # c
    BY <1>2, <1>3, <2>2, PlaceTyped DEF RowsOf
  <2>4. CASE DeleteWithMove(r)
    <3>1. PICK lock, target : lock = locked[r] /\ target = calls[r].target
      OBVIOUS
    <3>2. lock \in Lock /\ target \in ColumnIds \cup {None}
      BY <2>4, <3>1, LockTyped DEF DeleteWithMove
    <3>3. PICK T : T = MovedTo(lock, target)
      OBVIOUS
    <3>4. /\ T \in [Tasks -> Task]
          /\ \A t \in Tasks \ ToSet(lock.moving) : T[t] = tasks[t]
      BY <1>t, <3>2, <3>3, MovedBehind
    <3>5. u \notin ToSet(lock.moving)
      <4>1. MovingOf(r) = ToSet(lock.moving)
        BY <2>4, <3>1 DEF DeleteWithMove, MovingOf
      <4> QED BY <1>3, <4>1 DEF TasksInv, Apart
    <3>6. T[u] = tasks[u]
      BY <2>3, <3>4, <3>5
    <3>7. Cleared(T, c)[u] = T[u]
      BY <2>3, <3>4, <3>6, ClearedTyped
    <3>8. tasks' = Cleared(T, c)
      BY <1>1, <2>4, <3>1, <3>3 DEF DeleteWithMove
    <3> QED BY <3>6, <3>7, <3>8
  <2>5. CASE Destroy(r)
    <3>1. tasks' = Cleared(tasks, c)
      BY <1>1, <2>5 DEF Destroy
    <3> QED BY <1>t, <2>3, <3>1, ClearedTyped
  <2> QED BY <2>4, <2>5
<1> QED BY <1>3, <1>4, LocksStay

LEMMA CommitsKeepLocks ==
    ASSUME BoardInv, TasksInv, NEW r \in Requests, Commit(r)
    PROVE  TasksInv'
<1>1. CASE DeleteWithMove(r) \/ Destroy(r)
  BY <1>1, RemovalsKeepLocks
<1>2. CASE CreateColumn(r) \/ ReorderColumns(r) \/ UpdateColumn(r) \/ CreateIntake(r)
  <2>1. tasks' = tasks /\ Finish(r)
    BY <1>2 DEF CreateColumn, ReorderColumns, UpdateColumn, CreateIntake
  <2>2. /\ locked' \in [Requests -> Lock \cup {None}] /\ moves' = moves
        /\ \A q \in Requests :
                (locked'[q] = locked[q] /\ calls'[q] = calls[q]) \/ locked'[q] = None
    BY <2>1, LocksFinish
  <2> QED BY <2>1, <2>2, TasksUntouched
<1> QED BY <1>1, <1>2 DEF Commit

LEMMA AbortsKeepLocks ==
    ASSUME BoardInv, TasksInv, NEW r \in Requests, Abort(r)
    PROVE  TasksInv'
<1>1. tasks' = tasks /\ Finish(r)
  BY DEF Abort
<1>2. /\ locked' \in [Requests -> Lock \cup {None}] /\ moves' = moves
      /\ \A q \in Requests :
                (locked'[q] = locked[q] /\ calls'[q] = calls[q]) \/ locked'[q] = None
  BY <1>1, LocksFinish
<1> QED BY <1>1, <1>2, TasksUntouched

\* A step that leaves the board, and at most gives up a move.
LEMMA MovesGivenUp ==
    ASSUME BoardInv, TasksInv, UNCHANGED <<version, columns, tasks, calls, locked>>,
           moves' \subseteq moves
    PROVE  BoardInv' /\ TasksInv'
<1>1. tasks' \in [Tasks -> Task]
  BY DEF BoardInv, RowsTyped
<1>2. BoardInv'
  BY <1>1, BoardStays
<1>3. locked' \in [Requests -> Lock \cup {None}]
  BY DEF TasksInv, LocksTyped
<1>4. TasksInv'
  BY <1>3, TasksUntouched
<1> QED BY <1>2, <1>4

LEMMA Initially == Init => IInv
<1> SUFFICES ASSUME Init PROVE IInv
  OBVIOUS
<1>n. PICK n \in Nat : n = FirstColumns /\ 0..n - 1 \subseteq ColumnIds
  BY FirstIdsExist
<1>1. ColumnIds \subseteq Nat
  BY IdsOrdered
<1>2. columns = [c \in ColumnIds |-> IF c < n THEN NewColumn(c, FALSE) ELSE NoColumn]
  BY <1>n DEF Init
<1>3. ASSUME NEW c \in ColumnIds
      PROVE  /\ columns[c] \in Column /\ ~columns[c].intake
             /\ columns[c].live <=> c \in 0..n - 1
             /\ c \in 0..n - 1 => columns[c].position = c
  <2>1. c \in Nat
    BY <1>1
  <2>2. CASE c < n
    <3>1. columns[c] = NewColumn(c, FALSE)
      BY <1>2, <2>2
    <3>2. c \in Nat /\ FALSE \in BOOLEAN
      BY <2>1
    <3>3. columns[c] \in Column /\ columns[c].live /\ columns[c].position = c
          /\ columns[c].intake = FALSE
      BY <3>1, <3>2, NewColumnTyped
    <3> QED BY <1>n, <2>1, <2>2, <3>3
  <2>3. CASE ~(c < n)
    <3>1. columns[c] = NoColumn
      BY <1>2, <2>3
    <3> QED BY <2>1, <2>3, <3>1 DEF NoColumn, Column
  <2> QED BY <2>2, <2>3
<1>4. columns \in [ColumnIds -> Column]
  BY <1>2, <1>3
<1>5. Live = 0..n - 1
  BY <1>n, <1>3 DEF Live
<1>6. IsFiniteSet(0..n - 1) /\ Cardinality(0..n - 1) = n
  <2>1. PICK m \in Int : m = n - 1
    OBVIOUS
  <2>2. IsFiniteSet(0..m) /\ Cardinality(0..m) = IF 0 > m THEN 0 ELSE m - 0 + 1
    BY FS_Interval
  <2> QED BY <2>1, <2>2
<1>7. {columns[c].position : c \in 0..n - 1} = 0..n - 1
  BY <1>n, <1>3
<1>8. Arranged
  BY <1>n, <1>3, <1>5, <1>6, <1>7 DEF Arranged, ColumnsAreInOrder
<1>9. tasks \in [Tasks -> Task]
  <2>1. tasks \in [Tasks -> [column : 0..n - 1, position : {0}, archived : {FALSE}]]
    BY <1>n DEF Init
  <2>2. \A t \in Tasks : tasks[t] \in Task
    <3> TAKE t \in Tasks
    <3>1. tasks[t] \in [column : 0..n - 1, position : {0}, archived : {FALSE}]
      BY <2>1
    <3>2. 0..n - 1 \subseteq ColumnIds \cup {None}
      BY <1>n
    <3>3. PICK C : C = 0..n - 1
      OBVIOUS
    <3>4. tasks[t] \in [column : C, position : {0}, archived : {FALSE}]
          /\ C \subseteq ColumnIds \cup {None}
      BY <3>1, <3>2, <3>3
    <3>5. {0} \subseteq Nat /\ {FALSE} \subseteq BOOLEAN
      OBVIOUS
    <3> QED BY <3>4, <3>5, Zenon DEF Task
  <2> QED BY <2>1, <2>2
<1>10. /\ version = 1 /\ calls = [r \in Requests |-> None]
       /\ locked = [r \in Requests |-> None] /\ moves = {}
  BY DEF Init
<1>11. CallsInv
  BY <1>10 DEF CallsInv
<1>12. RowsTyped
  BY <1>4, <1>9, <1>10 DEF RowsTyped
<1>13. TasksInv
  BY <1>10 DEF TasksInv, LocksTyped, LocksInv, Apart
<1> QED BY <1>8, <1>11, <1>12, <1>13 DEF BoardInv, IInv

LEMMA Steps == IInv /\ [Next]_vars => IInv'
<1> SUFFICES ASSUME BoardInv, TasksInv, [Next]_vars PROVE BoardInv' /\ TasksInv'
  BY DEF IInv
<1>1. ASSUME NEW r \in Requests, Arrive(r)
      PROVE  BoardInv' /\ TasksInv'
  BY <1>1, ArrivalsKeepLocks
<1>2. ASSUME NEW r \in Requests, LockTasks(r)
      PROVE  BoardInv' /\ TasksInv'
  BY <1>2, LocksTaken
<1>3. ASSUME NEW r \in Requests, Commit(r)
      PROVE  BoardInv' /\ TasksInv'
  BY <1>3, Commits, CommitsKeepLocks
<1>4. ASSUME NEW r \in Requests, Abort(r)
      PROVE  BoardInv' /\ TasksInv'
  BY <1>4, Aborts, AbortsKeepLocks
<1>5. ASSUME NEW t \in Tasks, LockSiblings(t)
      PROVE  BoardInv' /\ TasksInv'
  BY <1>5, SiblingsLocked
<1>6. ASSUME NEW t \in Tasks, ArchiveTask(t)
      PROVE  BoardInv' /\ TasksInv'
  BY <1>6, ArchivesKeepLocks
<1>7. ASSUME NEW m \in moves, MoveTask(m)
      PROVE  BoardInv' /\ TasksInv'
  BY <1>7, MovesKeepLocks
<1>8. ASSUME NEW m \in moves, AbortMove(m)
      PROVE  BoardInv' /\ TasksInv'
  BY <1>8, MovesGivenUp DEF AbortMove
<1>9. CASE UNCHANGED vars
  BY <1>9, MovesGivenUp DEF vars
<1>10. Handled \subseteq Tasks
  BY HandledAreTasks
<1> QED BY <1>1, <1>2, <1>3, <1>4, <1>5, <1>6, <1>7, <1>8, <1>9, <1>10 DEF Next

(***************************************************************************)
(* The theorems.                                                           *)
(***************************************************************************)

\* Every variable keeps its type, whatever requests meet on the board.
THEOREM TypeCorrect == Spec => []TypeOK
<1>1. IInv => TypeOK
  BY DEF IInv, BoardInv, RowsTyped, TasksInv, LocksTyped, TypeOK
<1> QED BY Initially, Steps, <1>1, PTL DEF Spec

\* The positions of the columns are 0, 1, 2 ... and an intake stands first,
\* although the intake is inserted from positions read without a lock
\* (_ensure_personal_intake_column, _reindex_board_columns).
THEOREM ColumnsInOrder == Spec => []ColumnsAreInOrder
<1>1. IInv => ColumnsAreInOrder
  BY DEF IInv, BoardInv, Arranged
<1> QED BY Initially, Steps, <1>1, PTL DEF Spec

\* A reorder that goes through is of the columns its client has seen, in the
\* order he has seen (reorder_columns): the version notices what carries one,
\* the list of columns an intake.
THEOREM ReorderAsSeen == Spec => ReorderIsWhatWasSeen
<1> DEFINE AsSeen == \A r \in Requests : ReorderColumns(r) => calls[r].seen = Order
<1>1. IInv => AsSeen
  <2> SUFFICES ASSUME BoardInv, NEW r \in Requests, ReorderColumns(r)
               PROVE  calls[r].seen = Order
    BY DEF IInv
  <2>1. /\ Pending(r, "reorder") /\ calls[r].version = version
        /\ ToSet(calls[r].order) = Live
    BY DEF ReorderColumns, BoardIsAsSeen
  <2>2. ReorderSeen(calls[r])
    BY <2>1, CallTyped DEF CallInv
  <2> QED BY <2>1, <2>2 DEF ReorderSeen
<1>2. IInv /\ [Next]_vars => [AsSeen]_vars
  BY <1>1
<1> QED BY Initially, Steps, <1>2, PTL DEF Spec, ReorderIsWhatWasSeen

\* Deleting a column with its tasks moved (delete_with_move) takes every task
\* that was active when they were locked, leaves behind none but those restored
\* since, and puts them behind those of a tidy target, whatever is moved there
\* between the look at its positions and the commit.
THEOREM TasksFollow == Spec => MovedTasksFollow
<1> DEFINE Follow ==
        \A r \in Requests : DeleteWithMove(r) =>
            LET c == calls[r].column
                target == calls[r].target
                found == locked[r].found
                moved == {t \in Tasks : found[t].column = c /\ ~found[t].archived}
            IN  /\ \A t \in moved : tasks'[t].column = target /\ ~tasks'[t].archived
                /\ \A t \in ActiveIn(c) \ moved : found[t].column = c
                /\ Tidy(found, target) => \A t \in ActiveIn(target), u \in moved :
                        tasks'[t].position < tasks'[u].position
<1>1. IInv => Follow
  <2> SUFFICES ASSUME BoardInv, TasksInv, NEW r \in Requests, DeleteWithMove(r)
        PROVE
            LET c == calls[r].column
                target == calls[r].target
                found == locked[r].found
                moved == {t \in Tasks : found[t].column = c /\ ~found[t].archived}
            IN  /\ \A t \in moved : tasks'[t].column = target /\ ~tasks'[t].archived
                /\ \A t \in ActiveIn(c) \ moved : found[t].column = c
                /\ Tidy(found, target) => \A t \in ActiveIn(target), u \in moved :
                        tasks'[t].position < tasks'[u].position
    BY DEF IInv
  <2>2. PICK c, target, lock, found :
            /\ c = calls[r].column /\ target = calls[r].target
            /\ lock = locked[r] /\ found = lock.found
    OBVIOUS
  <2>3. PICK moved : moved = {t \in Tasks : found[t].column = c /\ ~found[t].archived}
    OBVIOUS
  <2>4. /\ lock \in Lock /\ found \in [Tasks -> Task] /\ Holds(calls[r], lock)
        /\ target \in ColumnIds \cup {None} /\ target # c
    <3>1. locked[r] # None
      BY DEF DeleteWithMove
    <3>2. /\ locked[r] \in Lock /\ locked[r].found \in [Tasks -> Task]
          /\ Holds(calls[r], locked[r])
          /\ calls[r].target \in ColumnIds \cup {None}
          /\ calls[r].target # calls[r].column
      BY <3>1, LockTyped
    <3> QED BY <2>2, <3>2
  <2>5. RowsTyped
    BY DEF BoardInv
  <2>6. /\ ToSet(lock.moving) = moved /\ moved \subseteq Tasks
        /\ \A t \in moved : tasks[t].column = c /\ ~tasks[t].archived
        /\ \A t \in Tasks : tasks[t].column = c => found[t].column = c
        /\ Tidy(found, target) => \A t \in Tasks : tasks[t].column = target =>
                tasks[t].position < Behind(found, target)
    BY <2>2, <2>3, <2>4 DEF Holds
  <2>7. PICK T : T = MovedTo(lock, target)
    OBVIOUS
  <2>8. /\ T \in [Tasks -> Task]
        /\ \A t \in moved : /\ T[t].column = target
                            /\ T[t].archived = tasks[t].archived
                            /\ T[t].position >= Behind(found, target)
        /\ \A t \in Tasks \ moved : T[t] = tasks[t]
    <3>1. /\ MovedTo(lock, target) \in [Tasks -> Task]
          /\ \A t \in ToSet(lock.moving) :
                /\ MovedTo(lock, target)[t].column = target
                /\ MovedTo(lock, target)[t].archived = tasks[t].archived
                /\ MovedTo(lock, target)[t].position >= Behind(lock.found, target)
          /\ \A t \in Tasks \ ToSet(lock.moving) :
                MovedTo(lock, target)[t] = tasks[t]
      BY <2>4, <2>5, MovedBehind
    <3> QED BY <2>2, <2>6, <2>7, <3>1
  <2>9. tasks' = Cleared(T, c)
    BY <2>2, <2>7 DEF DeleteWithMove
  <2>10. \A t \in Tasks : T[t].column # c => tasks'[t] = T[t]
    BY <2>8, <2>9, ClearedTyped
  <2>11. ASSUME NEW t \in moved
         PROVE  /\ tasks'[t].column = target /\ ~tasks'[t].archived
                /\ tasks'[t].position >= Behind(found, target)
                /\ tasks'[t].position \in Nat
    <3>1. t \in Tasks /\ tasks'[t] = T[t]
      BY <2>4, <2>6, <2>8, <2>10
    <3>2. T[t] \in Task
      BY <2>8, <3>1
    <3> QED BY <2>6, <2>8, <3>1, <3>2 DEF Task
  <2>12. \A t \in ActiveIn(c) \ moved : found[t].column = c
    BY <2>6, ActiveTasks
  <2>13. ASSUME Tidy(found, target), NEW t \in ActiveIn(target), NEW u \in moved
         PROVE  tasks'[t].position < tasks'[u].position
    <3>1. t \in Tasks /\ tasks[t].column = target
      BY ActiveTasks
    <3>2. t \notin moved
      BY <2>4, <2>6, <3>1
    <3>3. tasks'[t] = tasks[t]
      BY <2>4, <2>8, <2>10, <3>1, <3>2
    <3>4. tasks[t].position < Behind(found, target)
      BY <2>6, <2>13, <3>1
    <3>5. tasks[t].position \in Nat /\ Behind(found, target) \in Nat
      BY <2>4, <2>5, <3>1, TaskFields, BehindAll
    <3> QED BY <2>11, <3>3, <3>4, <3>5
  <2> QED BY <2>2, <2>3, <2>11, <2>12, <2>13
<1>2. IInv /\ [Next]_vars => [Follow]_vars
  BY <1>1
<1> QED BY Initially, Steps, <1>2, PTL DEF Spec, MovedTasksFollow
================================================================================
