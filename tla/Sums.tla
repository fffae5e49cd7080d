------------------------------- MODULE Sums -------------------------------
(* What the proofs need to know of SumFunctionOnSet, and of numbers.       *)
EXTENDS Integers, Functions, FiniteSetTheorems, WellFoundedInduction, TLAPS

\* A set of numbers that has a member has a least one.
LEMMA LeastFound ==
  ASSUME NEW S \in SUBSET Nat, S # {}
  PROVE  \E m \in S : \A k \in S : m <= k
<1> DEFINE Less == {ss \in Nat \X Nat : ss[1] < ss[2]}
<1>1. IsWellFoundedOn(Less, Nat)
  BY NatLessThanWellFounded, Zenon DEF OpToRel
<1>2. \E x \in S : \A y \in S : ~(<<y, x>> \in Less)
  <2> HIDE DEF Less
  <2> QED
    BY <1>1, WFMin, Zenon
<1>3. PICK m \in S : \A y \in S : ~(<<y, m>> \in Less)
  BY <1>2
<1>4. ASSUME NEW k \in S PROVE m <= k
  <2>1. k \in Nat /\ m \in Nat /\ <<k, m>> \notin Less
    BY <1>3
  <2>2. ~(k < m)
    BY <2>1
  <2> QED
    BY <2>1, <2>2
<1> QED
  BY <1>4

\* Of a family of finite sets that has a member, one has no smaller one in the family.
LEMMA SmallestFound ==
  ASSUME NEW F, F # {}, \A s \in F : IsFiniteSet(s)
  PROVE  \E s \in F : \A t \in F : Cardinality(s) <= Cardinality(t)
<1> DEFINE Sizes == {Cardinality(s) : s \in F}
<1>1. Sizes \in SUBSET Nat /\ Sizes # {}
  BY FS_CardinalityType
<1>2. PICK m \in Sizes : \A k \in Sizes : m <= k
  <2> HIDE DEF Sizes
  <2> QED
    BY <1>1, LeastFound
<1> QED
  BY <1>2

\* A member more is one more.
LEMMA OneMore ==
  ASSUME NEW S, NEW T, NEW x, IsFiniteSet(T), S \subseteq T \cup {x}
  PROVE  /\ IsFiniteSet(S) /\ Cardinality(S) \in Nat /\ Cardinality(T) \in Nat
         /\ Cardinality(S) <= Cardinality(T) + 1
         /\ S \subseteq T => Cardinality(S) <= Cardinality(T)
         /\ x \notin T /\ S = T \cup {x} => Cardinality(S) = Cardinality(T) + 1
<1>1. IsFiniteSet(T \cup {x}) /\ Cardinality(T \cup {x}) \in {Cardinality(T), Cardinality(T) + 1}
      /\ Cardinality(T) \in Nat /\ (x \notin T => Cardinality(T \cup {x}) = Cardinality(T) + 1)
  BY FS_AddElement, FS_CardinalityType
<1>2. IsFiniteSet(S) /\ Cardinality(S) <= Cardinality(T \cup {x}) /\ Cardinality(S) \in Nat
  BY <1>1, FS_Subset, FS_CardinalityType
<1>3. S \subseteq T => Cardinality(S) <= Cardinality(T)
  BY FS_Subset
<1> QED
  BY <1>1, <1>2, <1>3

\* Products with a number that is not negative.
LEMMA Times ==
  ASSUME NEW a \in Int, NEW b \in Int, NEW k \in Nat
  PROVE  /\ a * k \in Int /\ (a + 1) * k = a * k + k
         /\ a \in Nat => a * k \in Nat
         /\ a <= b => a * k <= b * k
<1>1. a * k \in Int /\ (a + 1) * k = a * k + k /\ (a \in Nat => a * k \in Nat)
  OBVIOUS
<1>2. ASSUME a <= b PROVE a * k <= b * k
  <2>1. PICK d \in Nat : b = a + d
    BY <1>2, b - a \in Nat
  <2>2. b * k = a * k + d * k /\ d * k \in Nat /\ a * k \in Int
    BY <2>1
  <2> QED
    BY <2>2
<1> QED
  BY <1>1, <1>2

---------------------------------------------------------------------------
(* The table of partial sums that SumFunctionOnSet computes.               *)

Some(s) == CHOOSE x \in s : TRUE
Adds(g, f, S) == g = [s \in SUBSET S |-> IF s = {} THEN 0 ELSE f[Some(s)] + g[s \ {Some(s)}]]

LEMMA SumReads ==
  ASSUME NEW f, NEW S
  PROVE  SumFunctionOnSet(f, S) = (CHOOSE g : Adds(g, f, S))[S]
BY DEF SumFunctionOnSet, FoldFunctionOnSet, MapThenFoldSet, Adds, Some

LEMMA SomeOf ==
  ASSUME NEW s, s # {} PROVE Some(s) \in s
BY DEF Some

LEMMA TableFound ==
  ASSUME NEW f, NEW S, IsFiniteSet(S)
  PROVE  \E g : Adds(g, f, S)
<1> DEFINE Small(n) == {s \in SUBSET S : Cardinality(s) <= n}
           Cell(g, s) == IF s = {} THEN 0 ELSE f[Some(s)] + g[s \ {Some(s)}]
           Good(n) == \E g : g = [s \in Small(n) |-> Cell(g, s)]
           Bad == {n \in Nat : ~Good(n)}
<1>1. \A s \in SUBSET S : /\ IsFiniteSet(s) /\ Cardinality(s) \in Nat /\ Cardinality(s) <= Cardinality(S)
                          /\ s = {} <=> Cardinality(s) = 0
                          /\ s # {} => Cardinality(s \ {Some(s)}) = Cardinality(s) - 1
  <2>1. ASSUME NEW s \in SUBSET S
        PROVE  /\ IsFiniteSet(s) /\ Cardinality(s) \in Nat /\ Cardinality(s) <= Cardinality(S)
               /\ s = {} <=> Cardinality(s) = 0
    BY FS_Subset, FS_CardinalityType, FS_EmptySet
  <2>2. ASSUME NEW s \in SUBSET S, s # {}
        PROVE  Cardinality(s \ {Some(s)}) = Cardinality(s) - 1
    BY <2>1, <2>2, SomeOf, FS_RemoveElement
  <2> QED
    BY <2>1, <2>2
<1>2. Good(0)
  <2>1. ASSUME NEW s \in Small(0) PROVE s = {}
    <3>1. s \in SUBSET S /\ Cardinality(s) <= 0
      OBVIOUS
    <3>2. Cardinality(s) \in Nat /\ (s = {} <=> Cardinality(s) = 0)
      BY <1>1, <3>1
    <3> QED
      BY <3>1, <3>2
  <2>2. LET g == [s \in Small(0) |-> 0] IN g = [s \in Small(0) |-> Cell(g, s)]
    BY <2>1
  <2> QED
    BY <2>2
<1>3. ASSUME NEW n \in Nat, Good(n) PROVE Good(n + 1)
  <2>1. PICK g : g = [s \in Small(n) |-> Cell(g, s)]
    BY <1>3
  <2> DEFINE h == [s \in Small(n + 1) |-> Cell(g, s)]
  <2>2. ASSUME NEW s \in Small(n + 1), s # {} PROVE h[s \ {Some(s)}] = g[s \ {Some(s)}]
    <3>1. s \ {Some(s)} \in Small(n) /\ s \ {Some(s)} \in Small(n + 1)
      <4>1. /\ Cardinality(s \ {Some(s)}) = Cardinality(s) - 1 /\ Cardinality(s) \in Nat
            /\ Cardinality(s) <= n + 1
        BY <1>1, <2>2
      <4>2. Cardinality(s \ {Some(s)}) <= n /\ Cardinality(s \ {Some(s)}) <= n + 1
        BY <4>1
      <4> QED
        BY <4>2
    <3> HIDE DEF Small, Cell
    <3>2. g[s \ {Some(s)}] = Cell(g, s \ {Some(s)})
      BY <2>1, <3>1
    <3> QED
      BY <3>1, <3>2
  <2>3. \A s \in Small(n + 1) : Cell(g, s) = Cell(h, s)
    <3> HIDE DEF h, Small
    <3> QED
      BY <2>2
  <2>4. h = [s \in Small(n + 1) |-> Cell(h, s)]
    <3>1. h = [s \in Small(n + 1) |-> Cell(g, s)]
      OBVIOUS
    <3> HIDE DEF h, Small, Cell
    <3> QED
      BY <2>3, <3>1
  <2> HIDE DEF h, Small, Cell
  <2> QED
    BY <2>4
<1>4. Bad = {}
  <2>1. SUFFICES ASSUME Bad # {} PROVE FALSE
    OBVIOUS
  <2>2. PICK m \in Bad : \A k \in Bad : m <= k
    <3>1. Bad \in SUBSET Nat
      OBVIOUS
    <3> HIDE DEF Bad
    <3> QED
      BY <2>1, <3>1, LeastFound
  <2> HIDE DEF Good
  <2>3. m \in Nat /\ ~Good(m) /\ m # 0
    BY <1>2
  <2>4. m - 1 \in Nat /\ m - 1 \notin Bad
    BY <2>2, <2>3
  <2>5. Good(m - 1)
    BY <2>4
  <2>6. Good(m - 1 + 1)
    BY <1>3, <2>4, <2>5
  <2> QED
    BY <2>3, <2>6
<1>5. Cardinality(S) \in Nat /\ Small(Cardinality(S)) = SUBSET S
  BY <1>1, FS_CardinalityType
<1>6. Good(Cardinality(S))
  <2> HIDE DEF Good
  <2> QED
    BY <1>4, <1>5
<1> QED
  <2>1. PICK g : g = [s \in Small(Cardinality(S)) |-> Cell(g, s)]
    BY <1>6
  <2> HIDE DEF Small
  <2> QED
    BY <1>5, <2>1 DEF Adds

\* What is summed of f over S is read from a table.
LEMMA SumTable ==
  ASSUME NEW f, NEW S, IsFiniteSet(S)
  PROVE  \E g : Adds(g, f, S) /\ SumFunctionOnSet(f, S) = g[S]
<1>1. Adds(CHOOSE g : Adds(g, f, S), f, S)
  BY TableFound, Zenon
<1> QED
  BY <1>1, SumReads, Zenon

LEMMA TableStep ==
  ASSUME NEW f, NEW S, NEW g, Adds(g, f, S), NEW s \in SUBSET S
  PROVE  /\ s = {} => g[s] = 0
         /\ s # {} => g[s] = f[Some(s)] + g[s \ {Some(s)}]
BY DEF Adds

\* The sums of two functions that agree are the same, whatever the tables are of.
LEMMA TablesAgree ==
  ASSUME NEW f, NEW S, NEW g, Adds(g, f, S), IsFiniteSet(S),
         NEW e, NEW T, NEW h, Adds(h, e, T),
         NEW s \in SUBSET (S \cap T), \A x \in s : f[x] = e[x]
  PROVE  g[s] = h[s]
<1> DEFINE Bad == {t \in SUBSET s : g[t] # h[t]}
<1>1. SUFFICES ASSUME Bad # {} PROVE FALSE
  OBVIOUS
<1>2. \A t \in SUBSET s : IsFiniteSet(t) /\ t \in SUBSET S /\ t \in SUBSET T
  BY FS_Subset
<1>3. PICK t \in Bad : \A u \in Bad : Cardinality(t) <= Cardinality(u)
  <2>1. \A u \in Bad : IsFiniteSet(u)
    BY <1>2
  <2> HIDE DEF Bad
  <2> QED
    BY <1>1, <2>1, SmallestFound
<1>4. t \in SUBSET s /\ g[t] # h[t] /\ t \in SUBSET S /\ t \in SUBSET T /\ IsFiniteSet(t)
  BY <1>2
<1>5. t # {}
  BY <1>4, TableStep
<1>6. Some(t) \in t /\ Some(t) \in s
  BY <1>4, <1>5, SomeOf
<1>7. t \ {Some(t)} \notin Bad
  <2>1. Cardinality(t \ {Some(t)}) = Cardinality(t) - 1 /\ Cardinality(t) \in Nat
    BY <1>4, <1>6, FS_RemoveElement, FS_CardinalityType
  <2>2. ~(Cardinality(t) <= Cardinality(t \ {Some(t)}))
    BY <2>1
  <2> QED
    BY <1>3, <2>2
<1>8. g[t \ {Some(t)}] = h[t \ {Some(t)}]
  BY <1>4, <1>7
<1>9. g[t] = f[Some(t)] + g[t \ {Some(t)}] /\ h[t] = e[Some(t)] + h[t \ {Some(t)}]
  BY <1>4, <1>5, TableStep
<1> QED
  BY <1>4, <1>6, <1>8, <1>9

\* A table counts each member once, whichever it is taken to begin with.
LEMMA AnyOrder ==
  ASSUME NEW f, NEW S, NEW g, Adds(g, f, S), IsFiniteSet(S), \A x \in S : f[x] \in Int
  PROVE  \A s \in SUBSET S : g[s] \in Int /\ \A x \in s : g[s] = f[x] + g[s \ {x}]
<1>0. \A s \in SUBSET S : /\ s = {} => g[s] = 0
                          /\ s # {} => g[s] = f[Some(s)] + g[s \ {Some(s)}]
  BY DEF Adds
<1> DEFINE Right(s) == g[s] \in Int /\ \A x \in s : g[s] = f[x] + g[s \ {x}]
           Bad == {s \in SUBSET S : ~Right(s)}
<1>1. SUFFICES ASSUME Bad # {} PROVE FALSE
  OBVIOUS
<1>2. \A s \in SUBSET S : IsFiniteSet(s)
  BY FS_Subset
<1>3. PICK s \in Bad : \A t \in Bad : Cardinality(s) <= Cardinality(t)
  <2>1. \A t \in Bad : IsFiniteSet(t)
    BY <1>2
  <2> HIDE DEF Bad
  <2> QED
    BY <1>1, <2>1, SmallestFound
<1>4. s \in SUBSET S /\ ~Right(s) /\ IsFiniteSet(s)
  BY <1>2
<1>5. ASSUME NEW t \in SUBSET s, NEW x \in s, x \notin t PROVE Right(t)
  <2>1. t \subseteq s \ {x} /\ t \in SUBSET S
    BY <1>4, <1>5
  <2>2. IsFiniteSet(s \ {x}) /\ Cardinality(s \ {x}) = Cardinality(s) - 1
    BY <1>4, <1>5, FS_RemoveElement
  <2>3. Cardinality(t) <= Cardinality(s \ {x}) /\ Cardinality(t) \in Nat /\ Cardinality(s) \in Nat
    BY <1>4, <2>1, <2>2, FS_Subset, FS_CardinalityType
  <2>4. ~(Cardinality(s) <= Cardinality(t))
    BY <2>2, <2>3
  <2> QED
    BY <1>3, <2>1, <2>4
<1> DEFINE c == Some(s)
<1>6. s # {}
  <2>1. s = {} => Right(s)
    <3>1. s = {} => g[s] = 0 /\ \A x : x \notin s
      BY <1>0, <1>4
    <3>2. 0 \in Int
      OBVIOUS
    <3> QED
      BY <3>1, <3>2
  <2> QED
    BY <1>4, <2>1
<1>7. c \in s /\ f[c] \in Int
  BY <1>4, <1>6, SomeOf
<1>8. g[s] = f[c] + g[s \ {c}]
  BY <1>0, <1>4, <1>6, Zenon
<1> HIDE DEF c, Right, Bad
<1>9. Right(s \ {c})
  BY <1>5, <1>7
<1>10. ASSUME NEW x \in s PROVE g[s] = f[x] + g[s \ {x}]
  <2>1. CASE x = c
    BY <1>8, <2>1
  <2>2. CASE x # c
    <3>1. g[s \ {c}] = f[x] + g[(s \ {c}) \ {x}]
      BY <1>9, <2>2 DEF Right
    <3>2. Right(s \ {x}) /\ Right((s \ {c}) \ {x})
      BY <1>5, <1>7
    <3>3. (s \ {x}) \ {c} = (s \ {c}) \ {x} /\ c \in s \ {x}
      BY <1>7, <2>2
    <3>4. g[s \ {x}] = f[c] + g[(s \ {c}) \ {x}]
      BY <3>2, <3>3 DEF Right
    <3>5. g[(s \ {c}) \ {x}] \in Int /\ f[x] \in Int
      BY <1>4, <3>2 DEF Right
    <3> QED
      BY <1>7, <1>8, <3>1, <3>4, <3>5
  <2> QED
    BY <2>1, <2>2
<1>11. g[s] \in Int
  BY <1>7, <1>8, <1>9 DEF Right
<1> QED
  BY <1>4, <1>10, <1>11 DEF Right

---------------------------------------------------------------------------
(* The sums.                                                               *)

THEOREM SumTyped ==
  ASSUME NEW f, NEW S, IsFiniteSet(S), \A x \in S : f[x] \in Int
  PROVE  SumFunctionOnSet(f, S) \in Int
<1>1. PICK g : Adds(g, f, S) /\ SumFunctionOnSet(f, S) = g[S]
  BY SumTable
<1>2. g[S] \in Int
  BY <1>1, AnyOrder
<1> QED
  BY <1>1, <1>2

THEOREM SumEmpty ==
  ASSUME NEW f
  PROVE  SumFunctionOnSet(f, {}) = 0
<1>1. IsFiniteSet({})
  BY FS_EmptySet
<1>2. PICK g : Adds(g, f, {}) /\ SumFunctionOnSet(f, {}) = g[{}]
  BY <1>1, SumTable
<1> QED
  BY <1>2 DEF Adds

\* Functions that agree on a set have the same sum over it.
THEOREM SumAgrees ==
  ASSUME NEW f, NEW e, NEW S, IsFiniteSet(S), \A x \in S : f[x] = e[x]
  PROVE  SumFunctionOnSet(f, S) = SumFunctionOnSet(e, S)
<1>1. PICK g : Adds(g, f, S) /\ SumFunctionOnSet(f, S) = g[S]
  BY SumTable
<1>2. PICK h : Adds(h, e, S) /\ SumFunctionOnSet(e, S) = h[S]
  BY SumTable
<1>3. g[S] = h[S]
  <2>1. S \in SUBSET (S \cap S)
    OBVIOUS
  <2> QED
    BY <1>1, <1>2, <2>1, TablesAgree
<1> QED
  BY <1>1, <1>2, <1>3

\* A member counts for its value.
THEOREM SumSplits ==
  ASSUME NEW f, NEW S, IsFiniteSet(S), \A y \in S : f[y] \in Int, NEW x \in S
  PROVE  SumFunctionOnSet(f, S) = f[x] + SumFunctionOnSet(f, S \ {x})
<1> DEFINE T == S \ {x}
<1>1. PICK g : Adds(g, f, S) /\ SumFunctionOnSet(f, S) = g[S]
  BY SumTable
<1>2. IsFiniteSet(T)
  BY FS_RemoveElement
<1>3. PICK h : Adds(h, f, T) /\ SumFunctionOnSet(f, T) = h[T]
  BY <1>2, SumTable
<1>4. h[T] = g[T]
  <2>1. T \in SUBSET (T \cap S)
    OBVIOUS
  <2> HIDE DEF T
  <2> QED
    BY <1>1, <1>2, <1>3, <2>1, TablesAgree
<1>5. g[S] = f[x] + g[T]
  BY <1>1, AnyOrder
<1> QED
  BY <1>1, <1>3, <1>4, <1>5

THEOREM SumAdds ==
  ASSUME NEW f, NEW S, IsFiniteSet(S), \A y \in S : f[y] \in Int, NEW x, x \notin S, f[x] \in Int
  PROVE  SumFunctionOnSet(f, S \cup {x}) = SumFunctionOnSet(f, S) + f[x]
<1> DEFINE T == S \cup {x}
<1>1. IsFiniteSet(T) /\ x \in T /\ T \ {x} = S /\ \A y \in T : f[y] \in Int
  BY FS_AddElement
<1>2. SumFunctionOnSet(f, S) \in Int
  BY SumTyped
<1> HIDE DEF T
<1>3. SumFunctionOnSet(f, T) = f[x] + SumFunctionOnSet(f, S)
  BY <1>1, SumSplits
<1> QED
  BY <1>2, <1>3 DEF T

\* A value that changes moves the sum by what it changes.
THEOREM SumMoves ==
  ASSUME NEW f, NEW e, NEW S, IsFiniteSet(S), \A y \in S : f[y] \in Int, NEW x \in S,
         e[x] \in Int, \A y \in S \ {x} : e[y] = f[y]
  PROVE  SumFunctionOnSet(e, S) = SumFunctionOnSet(f, S) + e[x] - f[x]
<1> DEFINE T == S \ {x}
<1>1. IsFiniteSet(T) /\ \A y \in T : f[y] \in Int
  BY FS_RemoveElement
<1>2. SumFunctionOnSet(e, T) = SumFunctionOnSet(f, T)
  BY <1>1, SumAgrees
<1>3. SumFunctionOnSet(f, T) \in Int
  BY <1>1, SumTyped
<1>4. \A y \in S : e[y] \in Int
  OBVIOUS
<1>5. /\ SumFunctionOnSet(e, S) = e[x] + SumFunctionOnSet(e, T)
      /\ SumFunctionOnSet(f, S) = f[x] + SumFunctionOnSet(f, T)
  BY <1>4, SumSplits
<1> HIDE DEF T
<1> QED
  BY <1>2, <1>3, <1>5

\* The greater function has the greater sum.
THEOREM SumMonotone ==
  ASSUME NEW f, NEW e, NEW S, IsFiniteSet(S),
         \A y \in S : f[y] \in Int /\ e[y] \in Int /\ f[y] <= e[y]
  PROVE  SumFunctionOnSet(f, S) <= SumFunctionOnSet(e, S)
<1> DEFINE Less(s) == SumFunctionOnSet(f, s) <= SumFunctionOnSet(e, s)
           Bad == {s \in SUBSET S : ~Less(s)}
<1>1. SUFFICES ASSUME Bad # {} PROVE FALSE
  OBVIOUS
<1>2. \A s \in SUBSET S : IsFiniteSet(s)
  BY FS_Subset
<1>3. PICK s \in Bad : \A t \in Bad : Cardinality(s) <= Cardinality(t)
  <2>1. \A t \in Bad : IsFiniteSet(t)
    BY <1>2
  <2> HIDE DEF Bad
  <2> QED
    BY <1>1, <2>1, SmallestFound
<1>4. s \in SUBSET S /\ ~Less(s) /\ IsFiniteSet(s)
  BY <1>2
<1>5. s # {}
  <2>1. SumFunctionOnSet(f, {}) = 0 /\ SumFunctionOnSet(e, {}) = 0
    BY SumEmpty
  <2> QED
    BY <1>4, <2>1
<1>6. PICK x \in s : TRUE
  BY <1>5
<1> DEFINE t == s \ {x}
<1>7. t \in SUBSET S /\ IsFiniteSet(t) /\ Less(t)
  <2>1. IsFiniteSet(t) /\ Cardinality(t) = Cardinality(s) - 1 /\ Cardinality(s) \in Nat
    BY <1>4, <1>6, FS_RemoveElement, FS_CardinalityType
  <2>2. ~(Cardinality(s) <= Cardinality(t))
    BY <2>1
  <2> QED
    BY <1>3, <1>4, <2>1, <2>2
<1>8. /\ \A y \in s : f[y] \in Int /\ e[y] \in Int
      /\ \A y \in t : f[y] \in Int /\ e[y] \in Int
      /\ f[x] <= e[x]
  BY <1>4
<1>9. /\ SumFunctionOnSet(f, s) = f[x] + SumFunctionOnSet(f, t)
      /\ SumFunctionOnSet(e, s) = e[x] + SumFunctionOnSet(e, t)
  BY <1>4, <1>8, SumSplits
<1>10. SumFunctionOnSet(f, t) \in Int /\ SumFunctionOnSet(e, t) \in Int
  BY <1>7, <1>8, SumTyped
<1> HIDE DEF t
<1> QED
  BY <1>4, <1>6, <1>7, <1>8, <1>9, <1>10

\* Members that count for nothing can be left out.
THEOREM SumSkips ==
  ASSUME NEW f, NEW S, IsFiniteSet(S), \A y \in S : f[y] \in Int,
         NEW T \in SUBSET S, \A y \in S \ T : f[y] = 0
  PROVE  SumFunctionOnSet(f, S) = SumFunctionOnSet(f, T)
<1> DEFINE Same(s) == SumFunctionOnSet(f, s) = SumFunctionOnSet(f, T)
           Bad == {s \in SUBSET S : T \subseteq s /\ ~Same(s)}
<1>1. SUFFICES ASSUME Bad # {} PROVE FALSE
  OBVIOUS
<1>2. \A s \in SUBSET S : IsFiniteSet(s)
  BY FS_Subset
<1>3. PICK s \in Bad : \A t \in Bad : Cardinality(s) <= Cardinality(t)
  <2>1. \A t \in Bad : IsFiniteSet(t)
    BY <1>2
  <2> HIDE DEF Bad
  <2> QED
    BY <1>1, <2>1, SmallestFound
<1>4. s \in SUBSET S /\ T \subseteq s /\ ~Same(s) /\ IsFiniteSet(s)
  BY <1>2
<1>5. PICK x \in s : x \notin T
  BY <1>4
<1> DEFINE t == s \ {x}
<1>6. Same(t)
  <2>1. Cardinality(t) = Cardinality(s) - 1 /\ Cardinality(s) \in Nat
    BY <1>4, FS_RemoveElement, FS_CardinalityType
  <2>2. ~(Cardinality(s) <= Cardinality(t))
    BY <2>1
  <2> QED
    BY <1>3, <1>4, <1>5, <2>2
<1>7. SumFunctionOnSet(f, s) = f[x] + SumFunctionOnSet(f, t) /\ f[x] = 0
  <2>1. \A y \in s : f[y] \in Int
    BY <1>4
  <2>2. f[x] = 0
    BY <1>4, <1>5
  <2> QED
    BY <1>4, <2>1, <2>2, SumSplits
<1>8. SumFunctionOnSet(f, t) \in Int
  <2>1. IsFiniteSet(t) /\ \A y \in t : f[y] \in Int
    BY <1>4, FS_RemoveElement
  <2> HIDE DEF t
  <2> QED
    BY <2>1, SumTyped
<1> HIDE DEF t
<1> QED
  BY <1>4, <1>6, <1>7, <1>8

\* The sum of two functions is the sum of their sums.
THEOREM SumPlus ==
  ASSUME NEW f, NEW e, NEW h, NEW S, IsFiniteSet(S),
         \A y \in S : f[y] \in Int /\ e[y] \in Int /\ h[y] = f[y] + e[y]
  PROVE  SumFunctionOnSet(h, S) = SumFunctionOnSet(f, S) + SumFunctionOnSet(e, S)
<1> DEFINE Adding(s) == SumFunctionOnSet(h, s) = SumFunctionOnSet(f, s) + SumFunctionOnSet(e, s)
           Bad == {s \in SUBSET S : ~Adding(s)}
<1>1. SUFFICES ASSUME Bad # {} PROVE FALSE
  OBVIOUS
<1>2. \A s \in Bad : IsFiniteSet(s)
  BY FS_Subset
<1>3. PICK s \in Bad : \A t \in Bad : Cardinality(s) <= Cardinality(t)
  <2> HIDE DEF Bad
  <2> QED
    BY <1>1, <1>2, SmallestFound
<1>4. s \in SUBSET S /\ IsFiniteSet(s) /\ ~Adding(s)
  BY <1>2
<1>5. PICK x \in s : TRUE
  <2>1. ASSUME s = {} PROVE FALSE
    <3>1. SumFunctionOnSet(h, s) = 0 /\ SumFunctionOnSet(f, s) = 0 /\ SumFunctionOnSet(e, s) = 0
      BY <2>1, SumEmpty
    <3> QED
      BY <1>4, <3>1
  <2> QED
    BY <2>1
<1>6. Adding(s \ {x})
  <2>1. IsFiniteSet(s \ {x}) /\ Cardinality(s \ {x}) = Cardinality(s) - 1 /\ Cardinality(s) \in Nat
    BY <1>4, <1>5, FS_RemoveElement, FS_CardinalityType
  <2>2. s \ {x} \notin Bad
    BY <1>3, <2>1
  <2> QED
    BY <1>4, <2>2
<1> DEFINE t == s \ {x}
<1>7. /\ IsFiniteSet(t)
      /\ \A y \in s : f[y] \in Int /\ e[y] \in Int /\ h[y] \in Int
      /\ h[x] = f[x] + e[x]
  BY <1>4, <1>5, FS_RemoveElement
<1>8. /\ SumFunctionOnSet(f, s) = f[x] + SumFunctionOnSet(f, t)
      /\ SumFunctionOnSet(e, s) = e[x] + SumFunctionOnSet(e, t)
      /\ SumFunctionOnSet(h, s) = h[x] + SumFunctionOnSet(h, t)
  BY <1>4, <1>5, <1>7, SumSplits
<1>9. SumFunctionOnSet(f, t) \in Int /\ SumFunctionOnSet(e, t) \in Int
  BY <1>7, SumTyped
<1> QED
  BY <1>4, <1>5, <1>6, <1>7, <1>8, <1>9

\* Every member counts for at most b.
THEOREM SumBounded ==
  ASSUME NEW f, NEW S, IsFiniteSet(S), NEW b \in Int, \A y \in S : f[y] \in Int /\ f[y] <= b
  PROVE  SumFunctionOnSet(f, S) <= Cardinality(S) * b
<1> DEFINE Within(s) == SumFunctionOnSet(f, s) <= Cardinality(s) * b
           Bad == {s \in SUBSET S : ~Within(s)}
<1>1. SUFFICES ASSUME Bad # {} PROVE FALSE
  OBVIOUS
<1>2. \A s \in Bad : IsFiniteSet(s)
  BY FS_Subset
<1>3. PICK s \in Bad : \A t \in Bad : Cardinality(s) <= Cardinality(t)
  <2> HIDE DEF Bad
  <2> QED
    BY <1>1, <1>2, SmallestFound
<1>4. s \in SUBSET S /\ IsFiniteSet(s) /\ ~Within(s)
  BY <1>2
<1>5. PICK x \in s : TRUE
  <2>1. ASSUME s = {} PROVE FALSE
    <3>1. SumFunctionOnSet(f, s) = 0 /\ Cardinality(s) = 0
      BY <2>1, SumEmpty, FS_EmptySet
    <3> QED
      BY <1>4, <3>1
  <2> QED
    BY <2>1
<1> DEFINE t == s \ {x}
<1>6. IsFiniteSet(t) /\ Cardinality(t) = Cardinality(s) - 1 /\ Cardinality(s) \in Nat
  BY <1>4, <1>5, FS_RemoveElement, FS_CardinalityType
<1>7. Within(t)
  <2>1. t \notin Bad
    BY <1>3, <1>6
  <2> QED
    BY <1>4, <2>1
<1>8. SumFunctionOnSet(f, s) = f[x] + SumFunctionOnSet(f, t) /\ SumFunctionOnSet(f, t) \in Int
      /\ f[x] \in Int /\ f[x] <= b
  <2>1. \A y \in s : f[y] \in Int /\ f[y] <= b
    BY <1>4
  <2>2. SumFunctionOnSet(f, s) = f[x] + SumFunctionOnSet(f, t)
    BY <1>4, <1>5, <2>1, SumSplits
  <2>3. SumFunctionOnSet(f, t) \in Int
    BY <1>6, <2>1, SumTyped
  <2> QED
    BY <1>5, <2>1, <2>2, <2>3
<1>9. (Cardinality(s) - 1) * b + b = Cardinality(s) * b
  BY <1>6
<1> QED
  BY <1>4, <1>6, <1>7, <1>8, <1>9
=============================================================================
