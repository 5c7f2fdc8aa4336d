-------------------------------- MODULE Sums --------------------------------
(***************************************************************************)
(* Sums over finite sets.  SumFunctionOnSet of the community modules picks *)
(* the elements of the set in an order it chooses; what is proved here is  *)
(* that the order does not matter, how a sum changes with its set and with *)
(* its function, and that sums of natural numbers are natural and grow     *)
(* with their set.  Induction is over the strict subset ordering: a        *)
(* minimal counterexample is shown not to exist.                           *)
(***************************************************************************)
EXTENDS Integers, FiniteSets, Functions, FiniteSetTheorems, WellFoundedInduction, TLAPS

\* sum is the table of partial sums that SumFunctionOnSet(f, S) reads.
IsSum(f, S, sum) ==
  sum = [s \in SUBSET S |-> IF s = {} THEN 0
                            ELSE f[CHOOSE x \in s : TRUE] + sum[s \ {CHOOSE x \in s : TRUE}]]

\* The library's sum reads its table at the whole set.
LEMMA SumDef ==
  ASSUME NEW f, NEW S
  PROVE  SumFunctionOnSet(f, S) = (CHOOSE sum : IsSum(f, S, sum))[S]
BY DEF SumFunctionOnSet, FoldFunctionOnSet, MapThenFoldSet, IsSum

\* Among finite sets, one that is minimal for inclusion
LEMMA MinimalSet ==
  ASSUME NEW S, IsFiniteSet(S), NEW T, T \subseteq SUBSET S, T # {}
  PROVE  \E s \in T : \A t \in SUBSET s : t # s => t \notin T
<1>1. IsWellFoundedOn(StrictSubsetOrdering(S), SUBSET S)
  BY FS_StrictSubsetOrderingWellFounded, FS_FiniteSubsetsOfFinite
<1>2. PICK s \in T : \A t \in T : <<t, s>> \notin StrictSubsetOrdering(S)
  BY <1>1, WFMin
<1>3. ASSUME NEW t \in SUBSET s, t # s, t \in T
      PROVE  FALSE
  BY <1>2, <1>3 DEF StrictSubsetOrdering
<1> QED
  BY <1>2, <1>3

\* Two tables of partial sums agree where both are defined.
LEMMA SumUnique ==
  ASSUME NEW f, NEW S, IsFiniteSet(S), NEW T \in SUBSET S, NEW g, NEW h,
         IsSum(f, S, g), IsSum(f, T, h)
  PROVE  \A s \in SUBSET T : g[s] = h[s]
<1> DEFINE Bad == {s \in SUBSET T : g[s] # h[s]}
<1> SUFFICES ASSUME Bad # {} PROVE FALSE
  OBVIOUS
<1>1. IsFiniteSet(T)
  BY FS_Subset
<1>2. PICK s \in Bad : \A t \in SUBSET s : t # s => t \notin Bad
  <2>1. Bad \subseteq SUBSET T
    OBVIOUS
  <2> HIDE DEF Bad
  <2> QED
    BY <1>1, <2>1, MinimalSet
<1> DEFINE x == CHOOSE x \in s : TRUE
<1>3. s # {}
  BY <1>2 DEF IsSum
<1>4. x \in s
  BY <1>3
<1>5. g[s \ {x}] = h[s \ {x}]
  BY <1>2, <1>4
<1>6. s \in SUBSET S /\ s \in SUBSET T
  OBVIOUS
<1>7. g[s] = f[x] + g[s \ {x}]
  BY <1>3, <1>6 DEF IsSum
<1>8. h[s] = f[x] + h[s \ {x}]
  BY <1>3, <1>6 DEF IsSum
<1> QED
  BY <1>2, <1>5, <1>7, <1>8

\* The table exists.
LEMMA SumExists ==
  ASSUME NEW f, NEW S, IsFiniteSet(S)
  PROVE  \E sum : IsSum(f, S, sum)
<1> DEFINE Bad == {s \in SUBSET S : ~ \E sum : IsSum(f, s, sum)}
<1> SUFFICES ASSUME Bad # {} PROVE FALSE
  OBVIOUS
<1>1. PICK s \in Bad : \A t \in SUBSET s : t # s => t \notin Bad
  <2>1. Bad \subseteq SUBSET S
    OBVIOUS
  <2> HIDE DEF Bad
  <2> QED
    BY <2>1, MinimalSet
<1> DEFINE Table(t) == CHOOSE sum : IsSum(f, t, sum)
           pick(t) == CHOOSE x \in t : TRUE
           new == [t \in SUBSET s |-> IF t = {} THEN 0
                                      ELSE f[pick(t)] + Table(t \ {pick(t)})[t \ {pick(t)}]]
<1>2. ASSUME NEW t \in SUBSET s, t # s
      PROVE  IsSum(f, t, Table(t))
  BY <1>1, <1>2
<1>3. ASSUME NEW t \in SUBSET s, t # {}
      PROVE  pick(t) \in t
  BY <1>3
<1>4. ASSUME NEW t \in SUBSET s, t # s
      PROVE  new[t] = Table(t)[t]
  <2>1. CASE t = {}
    <3>1. IsSum(f, t, Table(t))
      BY <1>2, <1>4
    <3> HIDE DEF Table
    <3> QED
      BY <2>1, <3>1 DEF IsSum
  <2>2. CASE t # {}
    <3> DEFINE u == t \ {pick(t)}
    <3>1. u \in SUBSET t /\ u # s /\ u \in SUBSET s
      BY <1>4
    <3>2. IsSum(f, t, Table(t)) /\ IsSum(f, u, Table(u))
      BY <1>2, <1>4, <3>1
    <3>3. IsFiniteSet(t)
      BY FS_Subset
    <3>4. Table(t)[u] = Table(u)[u]
      <4> HIDE DEF Table, u, pick
      <4> QED
        BY <3>1, <3>2, <3>3, SumUnique
    <3>5. Table(t)[t] = f[pick(t)] + Table(t)[u]
      <4> HIDE DEF Table
      <4> QED
        BY <2>2, <3>2 DEF IsSum
    <3>6. new[t] = f[pick(t)] + Table(u)[u]
      <4> HIDE DEF Table, pick
      <4> QED
        BY <2>2
    <3> HIDE DEF Table, u, new, pick
    <3> QED
      BY <3>4, <3>5, <3>6
  <2> QED
    BY <2>1, <2>2
<1>5. IsSum(f, s, new)
  <2>1. ASSUME NEW t \in SUBSET s, t # {}
        PROVE  new[t] = f[pick(t)] + new[t \ {pick(t)}]
    <3>1. pick(t) \in t /\ t \ {pick(t)} \in SUBSET s /\ t \ {pick(t)} # s
      BY <1>3, <2>1
    <3>2. new[t \ {pick(t)}] = Table(t \ {pick(t)})[t \ {pick(t)}]
      <4> HIDE DEF Table, new, pick
      <4> QED
        BY <1>4, <3>1
    <3>3. new[t] = f[pick(t)] + Table(t \ {pick(t)})[t \ {pick(t)}]
      <4> HIDE DEF Table, pick
      <4> QED
        BY <2>1
    <3> QED
      BY <3>2, <3>3
  <2>2. new[{}] = 0
    OBVIOUS
  <2>3. new = [t \in SUBSET s |-> new[t]]
    OBVIOUS
  <2>4. \A t \in SUBSET s : new[t] = IF t = {} THEN 0 ELSE f[pick(t)] + new[t \ {pick(t)}]
    <3> HIDE DEF new, pick
    <3> QED
      BY <2>1, <2>2
  <2> HIDE DEF new
  <2> QED
    BY <2>3, <2>4 DEF IsSum
<1> HIDE DEF new
<1> QED
  BY <1>1, <1>5

\* The sum of nothing
LEMMA SumEmpty ==
  ASSUME NEW f
  PROVE  SumFunctionOnSet(f, {}) = 0
<1>1. PICK sum : IsSum(f, {}, sum)
  BY SumExists, FS_EmptySet
<1>2. \A sums : IsSum(f, {}, sums) => sums[{}] = 0
  BY DEF IsSum
<1> QED
  BY <1>1, <1>2, SumDef

\* The sum over a set is the value at the chosen element and the sum of the rest.
LEMMA SumChosen ==
  ASSUME NEW f, NEW S, IsFiniteSet(S), S # {}
  PROVE  LET x == CHOOSE x \in S : TRUE
         IN  SumFunctionOnSet(f, S) = f[x] + SumFunctionOnSet(f, S \ {x})
<1> DEFINE x == CHOOSE x \in S : TRUE
           Table(s) == CHOOSE sum : IsSum(f, s, sum)
<1>1. x \in S
  OBVIOUS
<1>2. IsFiniteSet(S \ {x})
  BY FS_Subset
<1>3. IsSum(f, S, Table(S)) /\ IsSum(f, S \ {x}, Table(S \ {x}))
  BY <1>2, SumExists
<1>4. Table(S)[S \ {x}] = Table(S \ {x})[S \ {x}]
  <2> DEFINE rest == S \ {x}
  <2>1. rest \in SUBSET S /\ rest \in SUBSET rest
    OBVIOUS
  <2> HIDE DEF Table, rest
  <2>2. \A s \in SUBSET rest : Table(S)[s] = Table(rest)[s]
    BY <1>3, <2>1, SumUnique DEF rest
  <2> QED
    BY <2>1, <2>2 DEF rest
<1>5. Table(S)[S] = f[x] + Table(S)[S \ {x}]
  <2> HIDE DEF Table
  <2> QED
    BY <1>3 DEF IsSum
<1>6. SumFunctionOnSet(f, S) = Table(S)[S]
  BY SumDef
<1>7. SumFunctionOnSet(f, S \ {x}) = Table(S \ {x})[S \ {x}]
  <2> HIDE DEF x
  <2> QED
    BY SumDef
<1> HIDE DEF Table
<1> QED
  BY <1>4, <1>5, <1>6, <1>7

\* A sum of integers is an integer.
LEMMA SumInt ==
  ASSUME NEW f, NEW S, IsFiniteSet(S), \A x \in S : f[x] \in Int
  PROVE  SumFunctionOnSet(f, S) \in Int
<1> DEFINE Bad == {s \in SUBSET S : SumFunctionOnSet(f, s) \notin Int}
<1> SUFFICES ASSUME Bad # {} PROVE FALSE
  OBVIOUS
<1>1. PICK s \in Bad : \A t \in SUBSET s : t # s => t \notin Bad
  <2>1. Bad \subseteq SUBSET S
    OBVIOUS
  <2> HIDE DEF Bad
  <2> QED
    BY <2>1, MinimalSet
<1> DEFINE x == CHOOSE x \in s : TRUE
<1>2. s # {}
  BY SumEmpty
<1>3. x \in s /\ IsFiniteSet(s)
  BY <1>2, FS_Subset
<1>4. SumFunctionOnSet(f, s \ {x}) \in Int
  <2> HIDE DEF x
  <2> QED BY <1>1, <1>3
<1>5. SumFunctionOnSet(f, s) = f[x] + SumFunctionOnSet(f, s \ {x})
  BY <1>2, <1>3, SumChosen
<1> HIDE DEF x
<1> QED
  BY <1>3, <1>4, <1>5

\* Any element can be taken out first.
LEMMA SumRemove ==
  ASSUME NEW f, NEW S, IsFiniteSet(S), \A x \in S : f[x] \in Int, NEW e \in S
  PROVE  SumFunctionOnSet(f, S) = f[e] + SumFunctionOnSet(f, S \ {e})
<1> DEFINE Fine(s) == \A y \in s : SumFunctionOnSet(f, s) = f[y] + SumFunctionOnSet(f, s \ {y})
           Bad == {s \in SUBSET S : ~ Fine(s)}
<1> SUFFICES ASSUME Bad # {} PROVE FALSE
  OBVIOUS
<1>1. PICK s \in Bad : \A t \in SUBSET s : t # s => t \notin Bad
  <2>1. Bad \subseteq SUBSET S
    OBVIOUS
  <2> HIDE DEF Bad
  <2> QED
    BY <2>1, MinimalSet
<1>2. PICK y \in s : SumFunctionOnSet(f, s) # f[y] + SumFunctionOnSet(f, s \ {y})
  OBVIOUS
<1> DEFINE x == CHOOSE x \in s : TRUE
<1>3. x \in s /\ IsFiniteSet(s)
  BY FS_Subset
<1>4. SumFunctionOnSet(f, s) = f[x] + SumFunctionOnSet(f, s \ {x})
  BY <1>3, SumChosen
<1> HIDE DEF x
<1>5. x # y
  BY <1>2, <1>4
<1>6. SumFunctionOnSet(f, s \ {x}) = f[y] + SumFunctionOnSet(f, (s \ {x}) \ {y})
  BY <1>1, <1>3, <1>5
<1>7. SumFunctionOnSet(f, s \ {y}) = f[x] + SumFunctionOnSet(f, (s \ {y}) \ {x})
  BY <1>1, <1>3, <1>5
<1>8. (s \ {x}) \ {y} = (s \ {y}) \ {x}
  OBVIOUS
<1>9. SumFunctionOnSet(f, (s \ {x}) \ {y}) \in Int
  <2>1. IsFiniteSet((s \ {x}) \ {y})
    BY <1>3, FS_Subset
  <2> QED
    BY <2>1, SumInt
<1>10. f[x] \in Int /\ f[y] \in Int
  BY <1>3
<1>11. SumFunctionOnSet(f, s) = f[x] + (f[y] + SumFunctionOnSet(f, (s \ {x}) \ {y}))
  BY <1>4, <1>6
<1>12. SumFunctionOnSet(f, s \ {y}) = f[x] + SumFunctionOnSet(f, (s \ {x}) \ {y})
  BY <1>7, <1>8
<1>13. SumFunctionOnSet(f, s) = f[y] + SumFunctionOnSet(f, s \ {y})
  BY <1>9, <1>10, <1>11, <1>12
<1> QED
  BY <1>2, <1>13

\* Equal values have equal sums.
LEMMA SumEqual ==
  ASSUME NEW f, NEW g, NEW S, IsFiniteSet(S), \A x \in S : f[x] = g[x]
  PROVE  SumFunctionOnSet(f, S) = SumFunctionOnSet(g, S)
<1> DEFINE Bad == {s \in SUBSET S : SumFunctionOnSet(f, s) # SumFunctionOnSet(g, s)}
<1> SUFFICES ASSUME Bad # {} PROVE FALSE
  OBVIOUS
<1>1. PICK s \in Bad : \A t \in SUBSET s : t # s => t \notin Bad
  <2>1. Bad \subseteq SUBSET S
    OBVIOUS
  <2> HIDE DEF Bad
  <2> QED
    BY <2>1, MinimalSet
<1> DEFINE x == CHOOSE x \in s : TRUE
<1>2. s # {}
  BY SumEmpty
<1>3. x \in s /\ IsFiniteSet(s)
  BY <1>2, FS_Subset
<1>4. SumFunctionOnSet(f, s) = f[x] + SumFunctionOnSet(f, s \ {x})
  BY <1>2, <1>3, SumChosen
<1>5. SumFunctionOnSet(g, s) = g[x] + SumFunctionOnSet(g, s \ {x})
  BY <1>2, <1>3, SumChosen
<1> HIDE DEF x
<1>6. SumFunctionOnSet(f, s \ {x}) = SumFunctionOnSet(g, s \ {x})
  BY <1>1, <1>3
<1> QED
  BY <1>3, <1>4, <1>5, <1>6

\* Natural numbers have a natural sum.
LEMMA SumNat ==
  ASSUME NEW f, NEW S, IsFiniteSet(S), \A x \in S : f[x] \in Nat
  PROVE  SumFunctionOnSet(f, S) \in Nat
<1> DEFINE Bad == {s \in SUBSET S : SumFunctionOnSet(f, s) \notin Nat}
<1> SUFFICES ASSUME Bad # {} PROVE FALSE
  OBVIOUS
<1>1. PICK s \in Bad : \A t \in SUBSET s : t # s => t \notin Bad
  <2>1. Bad \subseteq SUBSET S
    OBVIOUS
  <2> HIDE DEF Bad
  <2> QED
    BY <2>1, MinimalSet
<1>2. s # {}
  BY SumEmpty
<1>3. PICK x : x \in s
  BY <1>2
<1>4. IsFiniteSet(s)
  BY FS_Subset
<1>5. SumFunctionOnSet(f, s \ {x}) \in Nat
  BY <1>1, <1>3
<1>6. SumFunctionOnSet(f, s) = f[x] + SumFunctionOnSet(f, s \ {x})
  BY <1>3, <1>4, SumRemove
<1> QED
  BY <1>3, <1>5, <1>6

\* One value changes: the sum changes as much.
LEMMA SumUpdate ==
  ASSUME NEW f, NEW g, NEW S, IsFiniteSet(S), NEW e \in S,
         \A x \in S : f[x] \in Int, g[e] \in Int,
         \A x \in S \ {e} : g[x] = f[x]
  PROVE  SumFunctionOnSet(g, S) = SumFunctionOnSet(f, S) + g[e] - f[e]
<1>1. IsFiniteSet(S \ {e})
  BY FS_Subset
<1>2. SumFunctionOnSet(f, S) = f[e] + SumFunctionOnSet(f, S \ {e})
  BY SumRemove
<1>3. \A x \in S : g[x] \in Int
  OBVIOUS
<1>4. SumFunctionOnSet(g, S) = g[e] + SumFunctionOnSet(g, S \ {e})
  BY <1>3, SumRemove
<1>5. SumFunctionOnSet(f, S \ {e}) = SumFunctionOnSet(g, S \ {e})
  BY <1>1, SumEqual
<1>6. SumFunctionOnSet(f, S \ {e}) \in Int
  BY <1>1, SumInt
<1> QED
  BY <1>2, <1>4, <1>5, <1>6

\* One element more
LEMMA SumAddElement ==
  ASSUME NEW f, NEW S, IsFiniteSet(S), NEW e, e \notin S,
         \A x \in S \cup {e} : f[x] \in Int
  PROVE  SumFunctionOnSet(f, S \cup {e}) = SumFunctionOnSet(f, S) + f[e]
<1>1. IsFiniteSet(S \cup {e})
  BY FS_AddElement
<1>2. (S \cup {e}) \ {e} = S
  OBVIOUS
<1>3. SumFunctionOnSet(f, S \cup {e}) = f[e] + SumFunctionOnSet(f, S)
  BY <1>1, <1>2, SumRemove
<1>4. SumFunctionOnSet(f, S) \in Int
  BY SumInt
<1> QED
  BY <1>3, <1>4

\* A sum of zeros
LEMMA SumZero ==
  ASSUME NEW f, NEW S, IsFiniteSet(S), \A x \in S : f[x] = 0
  PROVE  SumFunctionOnSet(f, S) = 0
<1> DEFINE Bad == {s \in SUBSET S : SumFunctionOnSet(f, s) # 0}
<1> SUFFICES ASSUME Bad # {} PROVE FALSE
  OBVIOUS
<1>1. PICK s \in Bad : \A t \in SUBSET s : t # s => t \notin Bad
  <2>1. Bad \subseteq SUBSET S
    OBVIOUS
  <2> HIDE DEF Bad
  <2> QED
    BY <2>1, MinimalSet
<1>2. s # {}
  BY SumEmpty
<1>3. PICK x : x \in s
  BY <1>2
<1>4. IsFiniteSet(s)
  BY FS_Subset
<1>5. SumFunctionOnSet(f, s \ {x}) = 0
  BY <1>1, <1>3
<1>6. SumFunctionOnSet(f, s) = f[x] + SumFunctionOnSet(f, s \ {x})
  BY <1>3, <1>4, SumRemove
<1> QED
  BY <1>3, <1>5, <1>6

\* A sum of natural numbers grows with its set.
LEMMA SumMonotone ==
  ASSUME NEW f, NEW T, IsFiniteSet(T), \A x \in T : f[x] \in Nat, NEW S \in SUBSET T
  PROVE  SumFunctionOnSet(f, S) <= SumFunctionOnSet(f, T)
<1> DEFINE Bad == {s \in SUBSET T : S \subseteq s /\ ~ (SumFunctionOnSet(f, S) <= SumFunctionOnSet(f, s))}
<1>0. ASSUME NEW s \in SUBSET T
      PROVE  IsFiniteSet(s) /\ SumFunctionOnSet(f, s) \in Nat
  BY <1>0, FS_Subset, SumNat
<1> SUFFICES ASSUME Bad # {} PROVE FALSE
  OBVIOUS
<1>1. PICK s \in Bad : \A t \in SUBSET s : t # s => t \notin Bad
  <2>1. Bad \subseteq SUBSET T
    OBVIOUS
  <2> HIDE DEF Bad
  <2> QED
    BY <2>1, MinimalSet
<1>2. s \in SUBSET T /\ S \subseteq s /\ ~ (SumFunctionOnSet(f, S) <= SumFunctionOnSet(f, s))
  BY <1>1
<1>3. s # S
  BY <1>0, <1>2
<1>4. PICK e \in s : e \notin S
  BY <1>2, <1>3
<1>5. s \ {e} \in SUBSET s /\ s \ {e} # s /\ s \ {e} \in SUBSET T /\ S \subseteq s \ {e}
  BY <1>2, <1>4
<1>6. SumFunctionOnSet(f, S) <= SumFunctionOnSet(f, s \ {e})
  BY <1>1, <1>5
<1>7. \A x \in s : f[x] \in Int
  BY <1>2
<1>8. SumFunctionOnSet(f, s) = f[e] + SumFunctionOnSet(f, s \ {e})
  BY <1>0, <1>2, <1>4, <1>7, SumRemove
<1>9. f[e] \in Nat
  BY <1>2, <1>4
<1>10. /\ SumFunctionOnSet(f, s \ {e}) \in Nat /\ SumFunctionOnSet(f, S) \in Nat
  BY <1>0, <1>5
<1> QED
  BY <1>2, <1>6, <1>8, <1>9, <1>10

----------------------------------------------------------------------------
(* Sums over intervals of integers                                         *)

\* A set of natural numbers has a least element.
LEMMA LeastNatural ==
  ASSUME NEW T, T \subseteq Nat, T # {}
  PROVE  \E m \in T : \A k \in T : m <= k
<1>1. PICK m \in T : \A k \in T : ~ (<<k, m>> \in OpToRel(<, Nat))
  BY NatLessThanWellFounded, WFMin
<1>2. ASSUME NEW k \in T, k < m
      PROVE  FALSE
  <2>1. k \in Nat /\ m \in Nat
    OBVIOUS
  <2>2. <<k, m>> \in OpToRel(<, Nat)
    BY <1>2, <2>1 DEF OpToRel
  <2> QED
    BY <1>1, <2>2
<1>3. \A k \in T : k \in Nat /\ m \in Nat
  OBVIOUS
<1> QED
  BY <1>2, <1>3

\* A set of integers with a lower bound has a least element.
LEMMA LeastInteger ==
  ASSUME NEW T, NEW a \in Int, T \subseteq Int, T # {}, \A k \in T : a <= k
  PROVE  \E m \in T : \A k \in T : m <= k
<1> DEFINE N == {k \in Nat : a + k \in T}
<1>1. N # {}
  <2>1. PICK k \in T : TRUE
    OBVIOUS
  <2>2. k - a \in Nat /\ a + (k - a) = k
    BY <2>1
  <2> QED
    BY <2>1, <2>2
<1>2. PICK n \in N : \A k \in N : n <= k
  <2>1. N \subseteq Nat
    OBVIOUS
  <2> HIDE DEF N
  <2> QED
    BY <1>1, <2>1, LeastNatural
<1>3. ASSUME NEW k \in T
      PROVE  a + n <= k
  <2>1. k - a \in Nat /\ a + (k - a) = k /\ k \in Int
    OBVIOUS
  <2>2. n <= k - a /\ n \in Nat
    BY <1>2, <2>1
  <2> QED
    BY <2>1, <2>2
<1> QED
  BY <1>2, <1>3

\* The last element is taken out.
LEMMA SumLast ==
  ASSUME NEW f, NEW a \in Int, NEW k \in Int, a <= k, \A x \in a .. k : f[x] \in Int
  PROVE  SumFunctionOnSet(f, a .. k) = SumFunctionOnSet(f, a .. (k - 1)) + f[k]
<1> DEFINE S == a .. (k - 1)
<1>1. IsFiniteSet(S)
  BY FS_Interval
<1>2. S \cup {k} = a .. k /\ k \notin S
  OBVIOUS
<1>3. \A x \in S \cup {k} : f[x] \in Int
  BY <1>2
<1> HIDE DEF S
<1>4. SumFunctionOnSet(f, S \cup {k}) = SumFunctionOnSet(f, S) + f[k]
  BY <1>1, <1>2, <1>3, SumAddElement
<1> QED
  BY <1>2, <1>4 DEF S

\* A constant times the length
LEMMA SumConstant ==
  ASSUME NEW f, NEW a \in Int, NEW b \in Int, a <= b + 1, NEW c \in Int,
         \A x \in a .. b : f[x] = c
  PROVE  SumFunctionOnSet(f, a .. b) = c * (b + 1 - a)
<1> DEFINE F(k) == SumFunctionOnSet(f, a .. k)
           Bad == {k \in a - 1 .. b : F(k) # c * (k + 1 - a)}
<1>1. b \in a - 1 .. b
  OBVIOUS
<1> SUFFICES ASSUME Bad # {} PROVE FALSE
  BY <1>1
<1>2. PICK m \in Bad : \A k \in Bad : m <= k
  <2>1. Bad \subseteq Int /\ a - 1 \in Int /\ \A k \in Bad : a - 1 <= k
    OBVIOUS
  <2> HIDE DEF Bad
  <2> QED
    BY <2>1, LeastInteger
<1>3. m \in Int /\ m >= a - 1 /\ m <= b /\ F(m) # c * (m + 1 - a)
  BY <1>2
<1>4. m # a - 1
  <2>1. a .. (a - 1) = {}
    OBVIOUS
  <2>2. F(a - 1) = 0
    BY <2>1, SumEmpty
  <2>3. c * ((a - 1) + 1 - a) = 0
    OBVIOUS
  <2> QED
    BY <1>3, <2>2, <2>3
<1>5. F(m - 1) = c * (m - a)
  <2> HIDE DEF F
  <2>1. m - 1 \in a - 1 .. b /\ ~ (m <= m - 1)
    BY <1>3, <1>4
  <2>2. (m - 1) + 1 - a = m - a
    BY <1>3
  <2> QED
    BY <1>2, <2>1, <2>2
<1>6. F(m) = F(m - 1) + f[m]
  BY <1>3, <1>4, SumLast
<1>7. f[m] = c
  BY <1>3, <1>4
<1> HIDE DEF F
<1>8. c * (m - a) + c = c * (m + 1 - a)
  BY <1>3
<1> QED
  BY <1>3, <1>5, <1>6, <1>7, <1>8

\* An interval is summed in two parts.
LEMMA SumSplit ==
  ASSUME NEW f, NEW a \in Int, NEW b \in Int, NEW d \in Int, a <= b, b <= d + 1,
         \A x \in a .. d : f[x] \in Int
  PROVE  SumFunctionOnSet(f, a .. d)
           = SumFunctionOnSet(f, a .. (b - 1)) + SumFunctionOnSet(f, b .. d)
<1> DEFINE F(k) == SumFunctionOnSet(f, a .. k)
           G(k) == SumFunctionOnSet(f, b .. k)
           Bad == {k \in b - 1 .. d : F(k) # F(b - 1) + G(k)}
<1>1. d \in b - 1 .. d
  OBVIOUS
<1> SUFFICES ASSUME Bad # {} PROVE FALSE
  BY <1>1
<1>2. PICK m \in Bad : \A k \in Bad : m <= k
  <2>1. Bad \subseteq Int /\ b - 1 \in Int /\ \A k \in Bad : b - 1 <= k
    OBVIOUS
  <2> HIDE DEF Bad
  <2> QED
    BY <2>1, LeastInteger
<1>3. m \in Int /\ m >= b - 1 /\ m <= d /\ F(m) # F(b - 1) + G(m)
  BY <1>2
<1>4. ASSUME NEW k \in Int, k <= d
      PROVE  F(k) \in Int /\ G(k) \in Int
  <2>1. IsFiniteSet(a .. k) /\ IsFiniteSet(b .. k)
    BY FS_Interval
  <2>2. (\A x \in a .. k : f[x] \in Int) /\ (\A x \in b .. k : f[x] \in Int)
    BY <1>4
  <2> QED
    BY <2>1, <2>2, SumInt
<1>5. m # b - 1
  <2>1. b .. (b - 1) = {}
    OBVIOUS
  <2>2. G(b - 1) = 0
    BY <2>1, SumEmpty
  <2>3. F(b - 1) \in Int
    BY <1>4
  <2> HIDE DEF F, G
  <2> QED
    BY <1>3, <2>2, <2>3
<1>6. F(m - 1) = F(b - 1) + G(m - 1)
  <2> HIDE DEF F, G
  <2>1. m - 1 \in b - 1 .. d /\ ~ (m <= m - 1)
    BY <1>3, <1>5
  <2> QED
    BY <1>2, <2>1
<1>7. F(m) = F(m - 1) + f[m]
  <2>1. a <= m /\ \A x \in a .. m : f[x] \in Int
    BY <1>3, <1>5
  <2> QED
    BY <1>3, <2>1, SumLast
<1>8. G(m) = G(m - 1) + f[m]
  <2>1. b <= m /\ \A x \in b .. m : f[x] \in Int
    BY <1>3, <1>5
  <2> QED
    BY <1>3, <2>1, SumLast
<1>9. f[m] \in Int
  BY <1>3, <1>5
<1>10. F(b - 1) \in Int /\ G(m - 1) \in Int
  BY <1>3, <1>4
<1> HIDE DEF F, G
<1> QED
  BY <1>3, <1>6, <1>7, <1>8, <1>9, <1>10
----------------------------------------------------------------------------
(* Folds over a finite set, for a function F that stands for the operator  *)
(* and a set Q of pairs that stands for the invariant of the loop          *)

IsFold(F, base, pick, S, run) ==
  run = [s \in SUBSET S |-> IF s = {} THEN base ELSE F[<<pick[s], run[s \ {pick[s]}]>>]]

Picks(pick, S) == \A s \in SUBSET S : s # {} => pick[s] \in s

\* Q holds of the base and a step keeps it.
Preserves(F, base, pick, S, Q) ==
  /\ <<{}, base>> \in Q
  /\ \A s \in SUBSET S : \A v : s # {} /\ <<s \ {pick[s]}, v>> \in Q => <<s, F[<<pick[s], v>>]>> \in Q

\* The table follows F where Q holds.
Follows(F, base, pick, S, Q, run) ==
  /\ run[{}] = base
  /\ \A s \in SUBSET S : s # {} /\ <<s \ {pick[s]}, run[s \ {pick[s]}]>> \in Q =>
       run[s] = F[<<pick[s], run[s \ {pick[s]}]>>]

LEMMA FoldUnique ==
  ASSUME NEW F, NEW base, NEW pick, NEW S, IsFiniteSet(S), NEW T \in SUBSET S, NEW g, NEW h,
         \A s \in SUBSET S : s # {} => pick[s] \in s,
         IsFold(F, base, pick, S, g), IsFold(F, base, pick, T, h)
  PROVE  \A s \in SUBSET T : g[s] = h[s]
<1> DEFINE Bad == {s \in SUBSET T : g[s] # h[s]}
<1> SUFFICES ASSUME Bad # {} PROVE FALSE
  OBVIOUS
<1>1. IsFiniteSet(T)
  BY FS_Subset
<1>2. PICK s \in Bad : \A t \in SUBSET s : t # s => t \notin Bad
  <2>1. Bad \subseteq SUBSET T
    OBVIOUS
  <2> HIDE DEF Bad
  <2> QED
    BY <1>1, <2>1, MinimalSet
<1> DEFINE x == pick[s]
<1>3. s # {}
  BY <1>2 DEF IsFold
<1>4. x \in s
  BY <1>3
<1>5. g[s \ {x}] = h[s \ {x}]
  BY <1>2, <1>4
<1>6. s \in SUBSET S /\ s \in SUBSET T
  OBVIOUS
<1>7. g[s] = F[<<x, g[s \ {x}]>>]
  BY <1>3, <1>6 DEF IsFold
<1>8. h[s] = F[<<x, h[s \ {x}]>>]
  BY <1>3, <1>6 DEF IsFold
<1> QED
  BY <1>2, <1>5, <1>7, <1>8

LEMMA FoldExists ==
  ASSUME NEW F, NEW base, NEW pick, NEW S, IsFiniteSet(S), \A s \in SUBSET S : s # {} => pick[s] \in s
  PROVE  \E run : IsFold(F, base, pick, S, run)
<1> DEFINE Bad == {s \in SUBSET S : ~ \E run : IsFold(F, base, pick, s, run)}
<1> SUFFICES ASSUME Bad # {} PROVE FALSE
  OBVIOUS
<1>1. PICK s \in Bad : \A t \in SUBSET s : t # s => t \notin Bad
  <2>1. Bad \subseteq SUBSET S
    OBVIOUS
  <2> HIDE DEF Bad
  <2> QED
    BY <2>1, MinimalSet
<1> DEFINE Table(t) == CHOOSE run : IsFold(F, base, pick, t, run)
           new == [t \in SUBSET s |-> IF t = {} THEN base
                                      ELSE F[<<pick[t], Table(t \ {pick[t]})[t \ {pick[t]}]>>]]
<1>2. ASSUME NEW t \in SUBSET s, t # s
      PROVE  IsFold(F, base, pick, t, Table(t))
  BY <1>1, <1>2
<1>3. ASSUME NEW t \in SUBSET s, t # {}
      PROVE  pick[t] \in t
  BY <1>3
<1>4. ASSUME NEW t \in SUBSET s, t # s
      PROVE  new[t] = Table(t)[t]
  <2>1. CASE t = {}
    <3>1. IsFold(F, base, pick, t, Table(t))
      BY <1>2, <1>4
    <3> HIDE DEF Table
    <3> QED
      BY <2>1, <3>1 DEF IsFold
  <2>2. CASE t # {}
    <3> DEFINE u == t \ {pick[t]}
    <3>1. u \in SUBSET t /\ u # s /\ u \in SUBSET s
      BY <1>4
    <3>2. IsFold(F, base, pick, t, Table(t)) /\ IsFold(F, base, pick, u, Table(u))
      BY <1>2, <1>4, <3>1
    <3>3. IsFiniteSet(t) /\ \A w \in SUBSET t : w # {} => pick[w] \in w
      BY FS_Subset
    <3>4. Table(t)[u] = Table(u)[u]
      <4> HIDE DEF Table, u
      <4> QED
        BY <3>1, <3>2, <3>3, FoldUnique
    <3>5. Table(t)[t] = F[<<pick[t], Table(t)[u]>>]
      <4> HIDE DEF Table
      <4> QED
        BY <2>2, <3>2 DEF IsFold
    <3>6. new[t] = F[<<pick[t], Table(u)[u]>>]
      <4> HIDE DEF Table
      <4> QED
        BY <2>2
    <3> HIDE DEF Table, u, new
    <3> QED
      BY <3>4, <3>5, <3>6
  <2> QED
    BY <2>1, <2>2
<1>5. IsFold(F, base, pick, s, new)
  <2>1. ASSUME NEW t \in SUBSET s, t # {}
        PROVE  new[t] = F[<<pick[t], new[t \ {pick[t]}]>>]
    <3>1. pick[t] \in t /\ t \ {pick[t]} \in SUBSET s /\ t \ {pick[t]} # s
      BY <1>3, <2>1
    <3>2. new[t \ {pick[t]}] = Table(t \ {pick[t]})[t \ {pick[t]}]
      <4> HIDE DEF Table, new
      <4> QED
        BY <1>4, <3>1
    <3>3. new[t] = F[<<pick[t], Table(t \ {pick[t]})[t \ {pick[t]}]>>]
      <4> HIDE DEF Table
      <4> QED
        BY <2>1
    <3> QED
      BY <3>2, <3>3
  <2>2. new[{}] = base
    OBVIOUS
  <2>3. new = [t \in SUBSET s |-> new[t]]
    OBVIOUS
  <2>4. \A t \in SUBSET s : new[t] = IF t = {} THEN base ELSE F[<<pick[t], new[t \ {pick[t]}]>>]
    <3> HIDE DEF new
    <3> QED
      BY <2>1, <2>2
  <2> HIDE DEF new
  <2> QED
    BY <2>3, <2>4 DEF IsFold
<1> HIDE DEF new
<1> QED
  BY <1>1, <1>5

\* A table that follows F where Q holds keeps Q.
LEMMA FoldInvariant ==
  ASSUME NEW F, NEW base, NEW pick, NEW S, IsFiniteSet(S), Picks(pick, S),
         NEW Q, Preserves(F, base, pick, S, Q), NEW run, Follows(F, base, pick, S, Q, run)
  PROVE  \A s \in SUBSET S : <<s, run[s]>> \in Q
<1> DEFINE Bad == {s \in SUBSET S : <<s, run[s]>> \notin Q}
<1> SUFFICES ASSUME Bad # {} PROVE FALSE
  OBVIOUS
<1>1. PICK s \in Bad : \A t \in SUBSET s : t # s => t \notin Bad
  <2>1. Bad \subseteq SUBSET S
    OBVIOUS
  <2> HIDE DEF Bad
  <2> QED
    BY <2>1, MinimalSet
<1> DEFINE x == pick[s]
<1>2. s # {}
  BY <1>1 DEF Preserves, Follows
<1>3. x \in s
  BY <1>2 DEF Picks
<1>4. <<s \ {x}, run[s \ {x}]>> \in Q
  BY <1>1, <1>3
<1> QED
  BY <1>1, <1>2, <1>4 DEF Preserves, Follows

\* The table of a fold, and what holds of every entry
LEMMA FoldRun ==
  ASSUME NEW F, NEW base, NEW pick, NEW S, IsFiniteSet(S), Picks(pick, S),
         NEW Q, Preserves(F, base, pick, S, Q)
  PROVE  \E run : IsFold(F, base, pick, S, run) /\ \A s \in SUBSET S : <<s, run[s]>> \in Q
<1>1. PICK run : IsFold(F, base, pick, S, run)
  BY FoldExists DEF Picks
<1>2. Follows(F, base, pick, S, Q, run)
  BY <1>1 DEF IsFold, Follows
<1> QED
  BY <1>1, <1>2, FoldInvariant

----------------------------------------------------------------------------
(* Sums that are products, and sums of quotients                           *)

\* The sum of a constant
LEMMA SumOfConstant ==
  ASSUME NEW f, NEW S, IsFiniteSet(S), NEW c \in Int, \A x \in S : f[x] = c
  PROVE  SumFunctionOnSet(f, S) = c * Cardinality(S)
<1> DEFINE Fine(s) == SumFunctionOnSet(f, s) = c * Cardinality(s)
           Bad == {s \in SUBSET S : ~ Fine(s)}
<1>0. Bad = {} => Fine(S)
  OBVIOUS
<1> SUFFICES ASSUME Bad # {} PROVE FALSE
  BY <1>0
<1>1. PICK s \in Bad : \A t \in SUBSET s : t # s => t \notin Bad
  <2>1. Bad \subseteq SUBSET S
    OBVIOUS
  <2> HIDE DEF Bad
  <2> QED
    BY <2>1, MinimalSet
<1>2. s # {}
  <2>1. SumFunctionOnSet(f, {}) = 0 /\ Cardinality({}) = 0 /\ c * 0 = 0
    BY SumEmpty, FS_EmptySet
  <2>2. Fine({})
    BY <2>1
  <2> QED
    BY <1>1, <2>2
<1>3. PICK x : x \in s
  BY <1>2
<1>4. IsFiniteSet(s) /\ IsFiniteSet(s \ {x})
  BY FS_Subset
<1>5. Cardinality(s \ {x}) = Cardinality(s) - 1 /\ Cardinality(s) \in Nat
  BY <1>3, <1>4, FS_RemoveElement, FS_CardinalityType
<1>6. SumFunctionOnSet(f, s \ {x}) = c * Cardinality(s \ {x})
  BY <1>1, <1>3
<1>7. SumFunctionOnSet(f, s) = f[x] + SumFunctionOnSet(f, s \ {x})
  BY <1>3, <1>4, SumRemove
<1>8. SumFunctionOnSet(f, s) = c + c * (Cardinality(s) - 1)
  BY <1>3, <1>5, <1>6, <1>7
<1>9. \A n \in Nat : c + c * (n - 1) = c * n
  OBVIOUS
<1> QED
  BY <1>5, <1>8, <1>9

\* Zeros can be left out.
LEMMA SumSubset ==
  ASSUME NEW f, NEW T, IsFiniteSet(T), \A x \in T : f[x] \in Int, NEW S \in SUBSET T,
         \A x \in T \ S : f[x] = 0
  PROVE  SumFunctionOnSet(f, T) = SumFunctionOnSet(f, S)
<1> DEFINE Bad == {s \in SUBSET T : S \subseteq s /\ SumFunctionOnSet(f, s) # SumFunctionOnSet(f, S)}
<1> SUFFICES ASSUME Bad # {} PROVE FALSE
  OBVIOUS
<1>1. PICK s \in Bad : \A t \in SUBSET s : t # s => t \notin Bad
  <2>1. Bad \subseteq SUBSET T
    OBVIOUS
  <2> HIDE DEF Bad
  <2> QED
    BY <2>1, MinimalSet
<1>2. S \subseteq s /\ s # S
  BY <1>1
<1>3. PICK e \in s : e \notin S
  BY <1>2
<1>4. SumFunctionOnSet(f, s \ {e}) = SumFunctionOnSet(f, S)
  BY <1>1, <1>2, <1>3
<1>5. IsFiniteSet(s) /\ IsFiniteSet(s \ {e})
  BY FS_Subset
<1>6. SumFunctionOnSet(f, s) = f[e] + SumFunctionOnSet(f, s \ {e}) /\ SumFunctionOnSet(f, s \ {e}) \in Int
  BY <1>5, SumRemove, SumInt
<1> QED
  BY <1>1, <1>3, <1>4, <1>6

LEMMA Distributes ==
  ASSUME NEW a \in Int, NEW b \in Int, NEW c \in Int
  PROVE  a * (b + c) = a * b + a * c /\ a * b \in Int /\ a * c \in Int
OBVIOUS

\* f[x] is R * w[x] divided by K and rounded down: so is the sum, but for less than 1
\* for each of its terms.
LEMMA SumOfQuotients ==
  ASSUME NEW f, NEW w, NEW S, IsFiniteSet(S), NEW R \in Int, NEW K \in Int,
         \A x \in S : f[x] \in Int /\ w[x] \in Int,
         \A x \in S : K * f[x] <= R * w[x] /\ R * w[x] < K * f[x] + K
  PROVE  /\ K * SumFunctionOnSet(f, S) <= R * SumFunctionOnSet(w, S)
         /\ S # {} => R * SumFunctionOnSet(w, S) < K * SumFunctionOnSet(f, S) + K * Cardinality(S)
<1> DEFINE F(s) == SumFunctionOnSet(f, s)
           W(s) == SumFunctionOnSet(w, s)
           Fine(s) == /\ K * F(s) <= R * W(s)
                      /\ s # {} => R * W(s) < K * F(s) + K * Cardinality(s)
           Bad == {s \in SUBSET S : ~ Fine(s)}
<1> SUFFICES ASSUME Bad # {} PROVE FALSE
  OBVIOUS
<1>1. PICK s \in Bad : \A t \in SUBSET s : t # s => t \notin Bad
  <2>1. Bad \subseteq SUBSET S
    OBVIOUS
  <2> HIDE DEF Bad
  <2> QED
    BY <2>1, MinimalSet
<1>2. s # {}
  <2>1. F({}) = 0 /\ W({}) = 0
    BY SumEmpty
  <2>2. K * 0 = 0 /\ R * 0 = 0
    OBVIOUS
  <2> HIDE DEF F, W
  <2>3. Fine({})
    BY <2>1, <2>2
  <2> QED
    BY <1>1, <2>3
<1>3. PICK x : x \in s
  BY <1>2
<1> DEFINE u == s \ {x}
<1>4. IsFiniteSet(s) /\ IsFiniteSet(u) /\ u \in SUBSET S /\ u # s
  BY <1>3, FS_Subset
<1>5. Fine(u)
  BY <1>1, <1>3, <1>4
<1>6. F(s) = f[x] + F(u) /\ W(s) = w[x] + W(u)
  BY <1>3, <1>4, SumRemove
<1>7. F(u) \in Int /\ W(u) \in Int /\ f[x] \in Int /\ w[x] \in Int
  BY <1>3, <1>4, SumInt
<1>8. Cardinality(s) = 1 + Cardinality(u) /\ Cardinality(u) \in Nat
  BY <1>3, <1>4, FS_RemoveElement, FS_CardinalityType
<1>9. u = {} => Cardinality(u) = 0 /\ F(u) = 0 /\ W(u) = 0
  BY SumEmpty, FS_EmptySet
<1>10. K * f[x] <= R * w[x] /\ R * w[x] < K * f[x] + K
  BY <1>3
<1> DEFINE c == Cardinality(u)
           fx == f[x]
           wx == w[x]
           fu == F(u)
           wu == W(u)
<1>11. /\ K * (fx + fu) = K * fx + K * fu /\ K * fx \in Int /\ K * fu \in Int
  BY <1>7, Distributes
<1>12. R * (wx + wu) = R * wx + R * wu /\ R * wx \in Int /\ R * wu \in Int
  BY <1>7, Distributes
<1>13. K * (1 + c) = K + K * c /\ K * c \in Int /\ c \in Int
  <2>1. c \in Int /\ 1 \in Int /\ K * 1 = K
    BY <1>8
  <2> HIDE DEF c
  <2>2. K * (1 + c) = K * 1 + K * c /\ K * c \in Int
    BY <2>1, Distributes
  <2> QED
    BY <2>1, <2>2
<1>14. /\ K * fu <= R * wu
       /\ u # {} => R * wu < K * fu + K * c
       /\ u = {} => R * wu = 0 /\ K * fu = 0 /\ K * c = 0
  <2>1. K * 0 = 0 /\ R * 0 = 0
    OBVIOUS
  <2> QED
    BY <1>5, <1>9, <2>1
<1>15. K * fx <= R * wx /\ R * wx < K * fx + K
  BY <1>10
<1>16. F(s) = fx + fu /\ W(s) = wx + wu /\ Cardinality(s) = 1 + c
  BY <1>6, <1>8
<1> HIDE DEF c, fx, wx, fu, wu, F, W, u
<1>17. K * (fx + fu) <= R * (wx + wu)
  BY <1>11, <1>12, <1>14, <1>15
<1>18. R * (wx + wu) < K * (fx + fu) + K * (1 + c)
  <2>1. R * wu <= K * fu + K * c
    BY <1>11, <1>12, <1>13, <1>14
  <2> QED
    BY ONLY <1>11, <1>12, <1>13, <1>15, <2>1, K \in Int
<1>19. Fine(s)
  BY <1>16, <1>17, <1>18
<1> QED
  BY <1>1, <1>19
=============================================================================
