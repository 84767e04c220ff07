----------------------------- MODULE DownloadProofs -----------------------------
(***************************************************************************)
(* Theorems about Download for every set of formats, every limit and every *)
(* number of entries and pieces: what is fetched is what was picked, the   *)
(* budget holds, a request that was seen ends the job, late numbers are    *)
(* true.                                                                   *)
(*                                                                         *)
(* The sums come first, as the model takes them from folds.  The theorem   *)
(* of the library about recursion on finite sets has an operator as its    *)
(* parameter; the existence of a sum and its uniqueness are therefore      *)
(* shown here, by least counterexamples.                                   *)
(***************************************************************************)
EXTENDS Download, FiniteSetTheorems, TLAPS

-----------------------------------------------------------------------------
(* Sums: a fold over a finite set takes its elements in some order; the sum is *)
(* the same for every one.                                                     *)

\* Among subsets of a finite set one is minimal: what the inductions over finite
\* sets below rest on.
LEMMA LeastSubset ==
    ASSUME NEW S, IsFiniteSet(S), NEW B \in SUBSET (SUBSET S), B # {}
    PROVE  \E m \in B : \A t \in B : t \subseteq m => t = m
<1>1. IsWellFoundedOn(StrictSubsetOrdering(S), SUBSET S)
  BY FS_StrictSubsetOrderingWellFounded, FS_FiniteSubsetsOfFinite
<1>2. \E m \in B : \A t \in B : <<t, m>> \notin StrictSubsetOrdering(S)
  BY <1>1, WFMin, Zenon
<1>3. PICK m \in B : \A t \in B : <<t, m>> \notin StrictSubsetOrdering(S)
  BY <1>2
<1>4. ASSUME NEW t \in B, t \subseteq m, t # m PROVE FALSE
  <2>1. <<t, m>> \in (SUBSET S) \X (SUBSET S)
    OBVIOUS
  <2>2. <<t, m>> \in StrictSubsetOrdering(S)
    BY <1>4, <2>1 DEF StrictSubsetOrdering
  <2> QED
    BY <1>3, <2>2
<1> QED
  BY <1>4

\* g[s] adds up what v says of the members of s, for every s within S.
IsSum(g, v, S) ==
    /\ g \in [SUBSET S -> Nat] /\ g[{}] = 0
    /\ \A s \in SUBSET S : \A x \in s : g[s] = v[x] + g[s \ {x}]

\* There is a sum over every finite set.
LEMMA SumExists ==
    ASSUME NEW D, IsFiniteSet(D), NEW v \in [D -> Nat]
    PROVE  \E g : IsSum(g, v, D)
<1> DEFINE B == {S \in SUBSET D : ~ \E g : IsSum(g, v, S)}
<1>1. SUFFICES ASSUME B # {} PROVE FALSE
  <2>1. D \in SUBSET D
    OBVIOUS
  <2>2. ASSUME B = {} PROVE \E g : IsSum(g, v, D)
    BY <2>1, <2>2, Zenon
  <2> QED
    BY <2>2
<1>2. B \in SUBSET (SUBSET D)
  OBVIOUS
<1>3. PICK S \in B : \A t \in B : t \subseteq S => t = S
  <2> HIDE DEF B
  <2> QED
    BY <1>1, <1>2, LeastSubset
<1>4. S # {}
  <2>1. IsSum([s \in SUBSET {} |-> 0], v, {})
    BY DEF IsSum
  <2> QED
    BY <2>1
<1>5. PICK y : y \in S
  BY <1>4
<1> DEFINE T == S \ {y}
<1>6. PICK h : IsSum(h, v, T)
  BY <1>3, <1>5
<1> DEFINE g == [s \in SUBSET S |-> IF y \in s THEN v[y] + h[s \ {y}] ELSE h[s]]
<1>7. \A s \in SUBSET S : y \notin s => s \in SUBSET T
  OBVIOUS
<1>8. \A s \in SUBSET S : s \ {y} \in SUBSET T
  OBVIOUS
<1>9. v[y] \in Nat
  BY <1>5
<1>10. g \in [SUBSET S -> Nat]
  BY <1>6, <1>7, <1>8, <1>9 DEF IsSum
<1>11. g[{}] = 0
  BY <1>6 DEF IsSum
<1>12. ASSUME NEW s \in SUBSET S, NEW x \in s PROVE g[s] = v[x] + g[s \ {x}]
  <2>1. v[x] \in Nat
    OBVIOUS
  <2>2. CASE x = y
    <3>1. g[s] = v[y] + h[s \ {y}]
      BY <2>2
    <3>2. g[s \ {y}] = h[s \ {y}]
      OBVIOUS
    <3> QED
      BY <2>2, <3>1, <3>2
  <2>3. CASE x # y /\ y \in s
    <3>1. g[s] = v[y] + h[s \ {y}]
      BY <2>3
    <3>2. g[s \ {x}] = v[y] + h[(s \ {x}) \ {y}]
      BY <2>3
    <3>3. (s \ {x}) \ {y} = (s \ {y}) \ {x} /\ s \ {y} \in SUBSET T /\ x \in s \ {y}
      BY <2>3
    <3>4. h[s \ {y}] = v[x] + h[(s \ {y}) \ {x}]
      BY <1>6, <3>3 DEF IsSum
    <3>5. h[(s \ {y}) \ {x}] \in Nat
      BY <1>6, <3>3 DEF IsSum
    <3>6. g[s \ {x}] = v[y] + h[(s \ {y}) \ {x}]
      BY <3>2, <3>3
    <3> HIDE DEF g, T
    <3> QED
      BY <1>9, <2>1, <3>1, <3>4, <3>5, <3>6
  <2>4. CASE y \notin s
    <3>1. g[s] = h[s] /\ g[s \ {x}] = h[s \ {x}]
      BY <2>4
    <3>2. s \in SUBSET T
      BY <2>4
    <3>3. h[s] = v[x] + h[s \ {x}]
      BY <1>6, <3>2 DEF IsSum
    <3> QED
      BY <3>1, <3>3
  <2> QED
    BY <2>2, <2>3, <2>4
<1>13. IsSum(g, v, S)
  BY <1>10, <1>11, <1>12 DEF IsSum
<1> QED
  BY <1>13

\* h adds up as well, but takes for every set an order of its own.
Adds(h, v, S) ==
    /\ h[{}] = 0
    /\ \A s \in SUBSET S : s # {} => \E x \in s : \/ h[s] = v[x] + h[s \ {x}]
                                                \/ h[s] = h[s \ {x}] + v[x]

\* Whatever order of the elements a definition takes.
LEMMA SumUnique ==
    ASSUME NEW D, IsFiniteSet(D), NEW v \in [D -> Nat], NEW g, IsSum(g, v, D),
           NEW h, Adds(h, v, D)
    PROVE  h[D] = g[D]
<1> DEFINE B == {s \in SUBSET D : h[s] # g[s]}
<1>1. SUFFICES ASSUME B # {} PROVE FALSE
  OBVIOUS
<1>2. PICK s \in B : \A t \in B : t \subseteq s => t = s
  <2>1. B \in SUBSET (SUBSET D)
    OBVIOUS
  <2> HIDE DEF B
  <2> QED
    BY <1>1, <2>1, LeastSubset
<1>3. s # {}
  BY DEF IsSum, Adds
<1>4. PICK x \in s : h[s] = v[x] + h[s \ {x}] \/ h[s] = h[s \ {x}] + v[x]
  BY <1>3 DEF Adds
<1>5. h[s \ {x}] = g[s \ {x}]
  BY <1>2
<1>6. g[s \ {x}] \in Nat /\ g[s] = v[x] + g[s \ {x}]
  BY DEF IsSum
<1> QED
  BY <1>4, <1>5, <1>6

\* The fold that Total is made of is the sum.
LEMMA TotalIs ==
    ASSUME NEW D, IsFiniteSet(D), NEW v \in [D -> Nat]
    PROVE  \E g : IsSum(g, v, D) /\ Total(v) = g[D]
<1> DEFINE E(it) == [s \in SUBSET D |-> IF s = {} THEN 0
                                        ELSE v[CHOOSE x \in s : TRUE] + it[s \ {CHOOSE x \in s : TRUE}]]
           it == CHOOSE h : h = E(h)
<1>1. PICK g : IsSum(g, v, D)
  BY SumExists
<1>2. g = E(g)
  <2>1. \A s \in SUBSET D : g[s] = E(g)[s]
    BY <1>1 DEF IsSum
  <2> QED
    BY <1>1, <2>1 DEF IsSum
<1>3. it = E(it)
  BY <1>2
<1>4. DOMAIN v = D
  OBVIOUS
<1>5. Total(v) = it[D]
  BY <1>4 DEF Total, FoldFunction, FoldFunctionOnSet, MapThenFoldSet
<1> HIDE DEF it
<1>6. it[{}] = 0
  BY <1>3
<1>7. \A s \in SUBSET D : s # {} =>
         \E x \in s : it[s] = v[x] + it[s \ {x}] \/ it[s] = it[s \ {x}] + v[x]
  <2>1. SUFFICES ASSUME NEW s \in SUBSET D, s # {} PROVE \E x \in s : it[s] = v[x] + it[s \ {x}]
    BY Zenon
  <2> QED
    BY <1>3, <2>1
<1> HIDE DEF E
<1>8. it[D] = g[D]
  <2>1. Adds(it, v, D)
    BY <1>6, <1>7 DEF Adds
  <2> QED
    BY <1>1, <2>1, SumUnique, Zenon
<1> QED
  BY <1>1, <1>5, <1>8

\* Sums grow with what is added up, and with the set.
LEMMA SumMonotone ==
    ASSUME NEW D, IsFiniteSet(D), NEW v \in [D -> Nat], NEW w \in [D -> Nat],
           NEW g, IsSum(g, v, D), NEW h, IsSum(h, w, D),
           NEW S \in SUBSET D, \A x \in S : v[x] <= w[x]
    PROVE  g[S] <= h[S]
<1> DEFINE B == {s \in SUBSET D : s \subseteq S /\ ~(g[s] <= h[s])}
<1>1. SUFFICES ASSUME B # {} PROVE FALSE
  OBVIOUS
<1>2. PICK s \in B : \A t \in B : t \subseteq s => t = s
  <2>1. B \in SUBSET (SUBSET D)
    OBVIOUS
  <2> HIDE DEF B
  <2> QED
    BY <1>1, <2>1, LeastSubset
<1>3. PICK x : x \in s
  <2>1. g[{}] <= h[{}]
    BY DEF IsSum
  <2> QED
    BY <2>1
<1>4. g[s \ {x}] <= h[s \ {x}]
  BY <1>2, <1>3
<1>5. /\ g[s] = v[x] + g[s \ {x}] /\ g[s \ {x}] \in Nat
      /\ h[s] = w[x] + h[s \ {x}] /\ h[s \ {x}] \in Nat
  BY <1>3 DEF IsSum
<1>6. v[x] \in Nat /\ w[x] \in Nat /\ v[x] <= w[x]
  BY <1>3
<1>7. g[s] <= h[s]
  BY <1>4, <1>5, <1>6
<1> QED
  BY <1>7

LEMMA SumOfSubset ==
    ASSUME NEW D, IsFiniteSet(D), NEW v \in [D -> Nat], NEW g, IsSum(g, v, D),
           NEW S \in SUBSET D
    PROVE  g[S] <= g[D]
<1> DEFINE B == {t \in SUBSET D : S \subseteq t /\ ~(g[S] <= g[t])}
<1>1. SUFFICES ASSUME B # {} PROVE FALSE
  OBVIOUS
<1>2. PICK t \in B : \A u \in B : u \subseteq t => u = t
  <2>1. B \in SUBSET (SUBSET D)
    OBVIOUS
  <2> HIDE DEF B
  <2> QED
    BY <1>1, <2>1, LeastSubset
<1>3. g[S] \in Nat
  BY DEF IsSum
<1>4. PICK x : x \in t \ S
  BY <1>3
<1>5. g[S] <= g[t \ {x}]
  BY <1>2, <1>4
<1>6. g[t] = v[x] + g[t \ {x}] /\ g[t \ {x}] \in Nat /\ v[x] \in Nat
  BY <1>4 DEF IsSum
<1> QED
  BY <1>3, <1>5, <1>6

\* The totals of the model: natural numbers, monotone, zero for nothing, and
\* changed by an update as one expects.
LEMMA TotalNat ==
    ASSUME NEW D, IsFiniteSet(D), NEW v \in [D -> Nat]
    PROVE  Total(v) \in Nat
<1>1. PICK g : IsSum(g, v, D) /\ Total(v) = g[D]
  BY TotalIs
<1> QED
  BY <1>1 DEF IsSum

LEMMA TotalMonotone ==
    ASSUME NEW D, IsFiniteSet(D), NEW v \in [D -> Nat], NEW w \in [D -> Nat],
           \A x \in D : v[x] <= w[x]
    PROVE  Total(v) <= Total(w)
<1>1. PICK g : IsSum(g, v, D) /\ Total(v) = g[D]
  BY TotalIs
<1>2. PICK h : IsSum(h, w, D) /\ Total(w) = h[D]
  BY TotalIs
<1>3. D \in SUBSET D
  OBVIOUS
<1>4. g[D] <= h[D]
  BY <1>1, <1>2, <1>3, SumMonotone
<1> QED
  BY <1>1, <1>2, <1>4

LEMMA TotalOfZeros ==
    ASSUME NEW D, IsFiniteSet(D)
    PROVE  Total([d \in D |-> 0]) = 0
<1> DEFINE z == [d \in D |-> 0]
           g == [s \in SUBSET D |-> 0]
<1>1. z \in [D -> Nat]
  OBVIOUS
<1>2. IsSum(g, z, D)
  BY DEF IsSum
<1>3. g[D] = 0
  OBVIOUS
<1> HIDE DEF z, g
<1>4. PICK h : IsSum(h, z, D) /\ Total(z) = h[D]
  BY <1>1, TotalIs
<1>5. D \in SUBSET D /\ \A x \in D : z[x] <= z[x]
  BY <1>1
<1>6. h[D] <= g[D] /\ h[D] \in Nat
  BY <1>1, <1>2, <1>4, <1>5, SumMonotone DEF IsSum
<1>7. Total(z) = 0
  BY <1>3, <1>4, <1>6
<1> QED
  BY <1>7 DEF z

LEMMA TotalOfUpdate ==
    ASSUME NEW D, IsFiniteSet(D), NEW v \in [D -> Nat], NEW d \in D, NEW n \in Nat
    PROVE  Total([v EXCEPT ![d] = n]) = (Total(v) - v[d]) + n
<1> DEFINE w == [v EXCEPT ![d] = n]
           E == D \ {d}
<1>1. w \in [D -> Nat] /\ w[d] = n
  OBVIOUS
<1>2. E \in SUBSET D /\ D \in SUBSET D /\ \A x \in E : v[x] <= w[x] /\ w[x] <= v[x]
  OBVIOUS
<1> HIDE DEF w
<1>3. PICK g : IsSum(g, v, D) /\ Total(v) = g[D]
  BY TotalIs
<1>4. PICK h : IsSum(h, w, D) /\ Total(w) = h[D]
  BY <1>1, TotalIs
<1>5. g[D] = v[d] + g[E] /\ h[D] = n + h[E] /\ g[E] \in Nat /\ h[E] \in Nat
  BY <1>1, <1>2, <1>3, <1>4 DEF IsSum
<1> HIDE DEF E
<1>6. g[E] <= h[E]
  BY <1>1, <1>2, <1>3, <1>4, SumMonotone
<1>7. h[E] <= g[E]
  BY <1>1, <1>2, <1>3, <1>4, SumMonotone
<1>8. Total(w) = (Total(v) - v[d]) + n
  BY <1>3, <1>4, <1>5, <1>6, <1>7
<1> QED
  BY <1>8 DEF w

\* What BudgetHolds adds up of the rows.
RowSum(R) == FoldSet(LAMBDA r, n : n + r.size, 0, R)

\* This fold is a sum as well.
LEMMA RowSumIs ==
    ASSUME NEW R, IsFiniteSet(R), \A r \in R : r.size \in Nat
    PROVE  \E g : IsSum(g, [r \in R |-> r.size], R) /\ RowSum(R) = g[R]
<1> DEFINE v == [r \in R |-> r.size]
           E(it) == [s \in SUBSET R |-> IF s = {} THEN 0
                                        ELSE it[s \ {CHOOSE x \in s : TRUE}]
                                               + (CHOOSE x \in s : TRUE).size]
           it == CHOOSE h : h = E(h)
<1>1. v \in [R -> Nat] /\ \A r \in R : v[r] = r.size
  OBVIOUS
<1> HIDE DEF v
<1>2. PICK g : IsSum(g, v, R)
  BY <1>1, SumExists
<1>3. \A s \in SUBSET R : g[s] = E(g)[s]
  <2>1. SUFFICES ASSUME NEW s \in SUBSET R, s # {} PROVE g[s] = E(g)[s]
    BY <1>2 DEF IsSum
  <2> DEFINE x == CHOOSE y \in s : TRUE
  <2>2. x \in s
    BY <2>1
  <2>3. E(g)[s] = g[s \ {x}] + x.size
    BY <2>1
  <2> HIDE DEF x
  <2>4. g[s] = v[x] + g[s \ {x}] /\ g[s \ {x}] \in Nat
    BY <1>2, <2>2 DEF IsSum
  <2>5. v[x] = x.size /\ v[x] \in Nat
    BY <1>1, <2>2
  <2> QED
    BY <2>3, <2>4, <2>5
<1>4. g = E(g)
  BY <1>2, <1>3 DEF IsSum
<1>5. it = E(it)
  BY <1>4
<1>6. RowSum(R) = it[R]
  BY DEF RowSum, FoldSet, MapThenFoldSet
<1> HIDE DEF it
<1>7. it[{}] = 0
  BY <1>5
<1>8. \A s \in SUBSET R : s # {} =>
         \E x \in s : it[s] = v[x] + it[s \ {x}] \/ it[s] = it[s \ {x}] + v[x]
  <2>1. SUFFICES ASSUME NEW s \in SUBSET R, s # {} PROVE \E x \in s : it[s] = it[s \ {x}] + v[x]
    BY Zenon
  <2>2. \E x \in s : it[s] = it[s \ {x}] + x.size
    BY <1>5, <2>1
  <2> QED
    BY <1>1, <2>2
<1> HIDE DEF E
<1>9. it[R] = g[R]
  <2>1. Adds(it, v, R)
    BY <1>7, <1>8 DEF Adds
  <2> QED
    BY <1>1, <1>2, <2>1, SumUnique, Zenon
<1> QED
  BY <1>2, <1>6, <1>9 DEF v


\* The rows are those of the files, and an archive as large as all of them.
LEMMA RecordsSum ==
    ASSUME files \in [1 .. Items -> Nat], NEW zip \in {{}, {0}}, NEW first
    PROVE  /\ IsFiniteSet(Records(zip, first))
           /\ RowSum(Records(zip, first)) <= 2 * Total(files)
<1> DEFINE D == 1 .. Items
           row(i) == [file |-> i, size |-> files[i], primary |-> zip = {} /\ i = first]
           arch == [file |-> 0, size |-> Total(files), primary |-> TRUE]
           M(S) == {row(i) : i \in S}
           R == Records(zip, first)
           v == [r \in R |-> r.size]
<1>1. IsFiniteSet(D) /\ IsFiniteSet(Made) /\ Made \in SUBSET D
  <2>1. Items \in Nat
    BY DownloadAssumption
  <2>2. IsFiniteSet(D)
    BY <2>1, FS_Interval
  <2>3. Made \in SUBSET D
    BY DEF Made
  <2> QED
    BY <2>2, <2>3, FS_Subset
<1>2. R = M(Made) \cup {arch : z \in zip}
  BY DEF Records
<1>3. PICK h : IsSum(h, files, D) /\ Total(files) = h[D]
  BY <1>1, TotalIs
<1>4. Total(files) \in Nat /\ h[Made] <= Total(files) /\ h[Made] \in Nat
  <2>1. h[Made] <= h[D]
    BY <1>1, <1>3, SumOfSubset
  <2>2. h[Made] \in Nat /\ h[D] \in Nat
    BY <1>1, <1>3 DEF IsSum
  <2> QED
    BY <1>3, <2>1, <2>2
<1>5. \A i \in D : files[i] \in Nat
  OBVIOUS
<1>6. IsFiniteSet(M(Made))
  <2> DEFINE m == [i \in Made |-> row(i)]
  <2>1. m \in Surjection(Made, M(Made))
    BY DEF Surjection
  <2> HIDE DEF m, M
  <2> QED
    BY <1>1, <2>1, FS_Surjection
<1>7. IsFiniteSet(R)
  <2>1. {arch : z \in zip} = {} \/ {arch : z \in zip} = {arch}
    OBVIOUS
  <2>2. IsFiniteSet({arch : z \in zip})
    <3> HIDE DEF arch
    <3>1. IsFiniteSet({}) /\ IsFiniteSet({arch})
      BY FS_EmptySet, FS_Singleton, Zenon
    <3> QED
      BY <2>1, <3>1, Zenon
  <2> HIDE DEF R, M
  <2> QED
    BY <1>2, <1>6, <2>2, FS_Union
<1>8. \A r \in R : r.size \in Nat
  BY <1>1, <1>2, <1>4, <1>5
<1> HIDE DEF R
<1>9. PICK g : IsSum(g, v, R) /\ RowSum(R) = g[R]
  BY <1>7, <1>8, RowSumIs
<1>10. \A S \in SUBSET Made : M(S) \in SUBSET R
  BY <1>2
<1>11. g[M(Made)] = h[Made]
  <2> DEFINE B == {S \in SUBSET Made : g[M(S)] # h[S]}
  <2>1. SUFFICES ASSUME B # {} PROVE FALSE
    OBVIOUS
  <2>2. PICK S \in B : \A t \in B : t \subseteq S => t = S
    <3>1. B \in SUBSET (SUBSET Made)
      OBVIOUS
    <3>2. IsFiniteSet(Made)
      BY <1>1
    <3> HIDE DEF B, M, row, v, arch, D
    <3> QED
      BY <2>1, <3>1, <3>2, LeastSubset
  <2>3. S \in SUBSET Made /\ S \in SUBSET D /\ g[M(S)] # h[S]
    BY <1>1
  <2>4. S # {}
    <3>1. M({}) = {}
      OBVIOUS
    <3>2. g[M({})] = h[{}]
      BY <1>3, <1>9, <3>1 DEF IsSum
    <3> QED
      BY <2>3, <3>2
  <2>5. PICK i : i \in S
    BY <2>4
  <2>6. g[M(S \ {i})] = h[S \ {i}]
    BY <2>2, <2>5
  <2>7. M(S \ {i}) = M(S) \ {row(i)} /\ row(i) \in M(S)
    <3>1. \A j \in S : row(j) = row(i) => j = i
      OBVIOUS
    <3> QED
      BY <2>5, <3>1
  <2>8. M(S) \in SUBSET R
    BY <1>10, <2>3
  <2>9. v[row(i)] = files[i]
    BY <2>7, <2>8
  <2> HIDE DEF M, row, v, B
  <2>10. g[M(S)] = v[row(i)] + g[M(S) \ {row(i)}]
    BY <1>9, <2>7, <2>8 DEF IsSum
  <2>11. h[S] = files[i] + h[S \ {i}]
    BY <1>3, <2>3, <2>5 DEF IsSum
  <2> QED
    BY <2>3, <2>6, <2>7, <2>9, <2>10, <2>11
<1>12. CASE zip = {}
  <2>1. R = M(Made)
    BY <1>2, <1>12
  <2> QED
    BY <1>4, <1>7, <1>9, <1>11, <2>1 DEF R
<1>13. CASE zip = {0}
  <2>1. R = M(Made) \cup {arch}
    BY <1>2, <1>13
  <2>2. arch \notin M(Made)
    <3>1. arch.file = 0 /\ \A i \in Made : row(i).file = i /\ i # 0
      BY <1>1
    <3> HIDE DEF arch, row
    <3> QED
      BY <3>1
  <2>3. R \ {arch} = M(Made) /\ arch \in R
    BY <2>1, <2>2
  <2>4. v[arch] = Total(files)
    BY <2>3
  <2> HIDE DEF arch, v, M
  <2>5. g[R] = v[arch] + g[R \ {arch}]
    BY <1>9, <2>3 DEF IsSum
  <2>6. g[R] = Total(files) + h[Made]
    BY <1>11, <2>3, <2>4, <2>5
  <2>7. RowSum(R) <= 2 * Total(files)
    BY <1>4, <1>9, <2>6
  <2> QED
    BY <1>7, <2>7 DEF R
<1> QED
  BY <1>12, <1>13

-----------------------------------------------------------------------------
(* Numbers and selectors.                                                      *)

\* The percentage stays below 95.
LEMMA DivBounds ==
    ASSUME NEW a \in Nat, NEW b \in Nat \ {0}, a <= b
    PROVE  (94 * a) \div b \in 0 .. 94
BY SMTT(30)

\* The selector has five alternatives at the most, the first that matches counts.
LEMMA MinOf ==
    ASSUME NEW S \in SUBSET (1 .. 5), S # {}
    PROVE  Min(S) \in S /\ \A m \in S : Min(S) <= m
<1> DEFINE Least(n) == n \in S /\ \A m \in S : n <= m
<1>0. \A x \in S : x = 1 \/ x = 2 \/ x = 3 \/ x = 4 \/ x = 5
  OBVIOUS
<1>1. 1 \in S => Least(1)
  OBVIOUS
<1>2. 1 \notin S /\ 2 \in S => Least(2)
  OBVIOUS
<1>3. 1 \notin S /\ 2 \notin S /\ 3 \in S => Least(3)
  OBVIOUS
<1>4. 1 \notin S /\ 2 \notin S /\ 3 \notin S /\ 4 \in S => Least(4)
  OBVIOUS
<1>5. 1 \notin S /\ 2 \notin S /\ 3 \notin S /\ 4 \notin S => 5 \in S
  BY <1>0
<1>6. 1 \notin S /\ 2 \notin S /\ 3 \notin S /\ 4 \notin S => Least(5)
  BY <1>0, <1>5
<1> HIDE DEF Least
<1>7. \E n : Least(n)
  BY <1>1, <1>2, <1>3, <1>4, <1>6
<1>8. \E n \in S : \A m \in S : n <= m
  BY <1>7 DEF Least
<1> QED
  BY <1>8 DEF Min

LEMMA SelectedIs ==
    ASSUME NEW c, NEW C, NEW n \in 1 .. 5, Len(Selector(c, C)) = n
    PROVE  \/ Selected(c, C) = {} /\ \A i \in 1 .. n : Selector(c, C)[i] = {}
           \/ \E i \in 1 .. n : /\ Selected(c, C) = Selector(c, C)[i] /\ Selector(c, C)[i] # {}
                                /\ \A k \in 1 .. n : k < i => Selector(c, C)[k] = {}
<1> DEFINE sel == Selector(c, C)
           I == {i \in 1 .. n : sel[i] # {}}
<1> HIDE DEF sel
<1>1. Selected(c, C) = LET k == IF I # {} THEN Min(I) ELSE 0 IN IF k = 0 THEN {} ELSE sel[k]
  BY DEF Selected, SelectInSeq, sel
<1>2. CASE I = {}
  BY <1>1, <1>2 DEF sel
<1>3. CASE I # {}
  <2>1. I \in SUBSET (1 .. 5)
    OBVIOUS
  <2>2. Min(I) \in I /\ \A m \in I : Min(I) <= m
    BY <1>3, <2>1, MinOf
  <2> DEFINE i == Min(I)
  <2>3. i \in 1 .. n /\ sel[i] # {}
    BY <2>2
  <2>4. Selected(c, C) = IF i = 0 THEN {} ELSE sel[i]
    BY <1>1, <1>3
  <2>5. \A k \in 1 .. n : sel[k] # {} => i <= k
    BY <2>2
  <2> HIDE DEF i
  <2>6. \A k \in 1 .. n : k < i => sel[k] = {}
    BY <2>3, <2>5
  <2> QED
    BY <2>3, <2>4, <2>6 DEF sel
<1> QED
  BY <1>2, <1>3

\* What an alternative of one format, or of a picture and a sound, consists of.
LEMMA SingleIs ==
    ASSUME NEW C, NEW S \in SUBSET C, NEW s \in Single(S, C)
    PROVE  \E f \in S : s = {f} /\ (Sounds(C) # {} => f.audio)
BY DEF Single, Videos, Sounds, OnlySound

LEMMA MergedIs ==
    ASSUME NEW V, NEW A, NEW s \in Merged(V, A)
    PROVE  \E v \in V : \/ v.audio /\ s = {v}
                        \/ ~v.audio /\ \E a \in A : s = {v, a}
<1>1. PICK v \in V, a \in A : s = IF v.audio THEN {v} ELSE {v, a}
  BY DEF Merged
<1> QED
  BY <1>1

LEMMA NothingMerged ==
    ASSUME NEW V, NEW A, Merged(V, A) = {}
    PROVE  V = {} \/ A = {}
<1>1. \A v \in V, a \in A : (IF v.audio THEN {v} ELSE {v, a}) \in Merged(V, A)
  BY DEF Merged
<1> QED
  BY <1>1

\* What PickHonoured says of a choice, a selection and the formats there are.
Honours(c, s, C) ==
    LET L == Upto(C, c.height) IN
    /\ s \subseteq C
    /\ c.policy = "exact" => \E f \in s : f.id = c.id
    /\ c.policy = "resolution" /\ CompleteUpto(L, C) => Videos(s) \subseteq L
    /\ c.policy # "exact" /\ Sounds(C) # {} => Sounds(s) # {}

\* The four kinds of choices, one lemma each: what is selected honours them.
LEMMA KindsOfPicks ==
    ASSUME NEW c \in Picks
    PROVE  \/ c = Cover
           \/ c.kind = "audio" /\ c.policy = "best"
           \/ c.kind = "video" /\ c.policy \in {"best", "resolution", "exact"}
<1>1. Best.kind = "video" /\ Best.policy = "best" /\ Audio.kind = "audio" /\ Audio.policy = "best"
  BY SMT DEF Best, Audio, Video
<1>2. c \in Limited(Heights) => c.kind = "video" /\ c.policy = "resolution"
  <2>1. SUFFICES ASSUME c \in Limited(Heights) PROVE c.kind = "video" /\ c.policy = "resolution"
    OBVIOUS
  <2>2. PICK h \in Heights : c = Video("resolution", h, "")
    BY <2>1 DEF Limited
  <2> QED
    BY <2>2 DEF Video
<1>3. c \in Exact(Videos(Formats)) => c.kind = "video" /\ c.policy = "exact"
  BY DEF Exact, Video
<1> QED
  BY <1>1, <1>2, <1>3 DEF Picks

LEMMA SelectorOfSound ==
    ASSUME NEW c, c.kind = "audio", c.policy = "best", NEW C
    PROVE  Selector(c, C) = <<{{a} : a \in OnlySound(C)}, Single(C, C)>>
BY DEF Selector

LEMMA AudioHonoured ==
    ASSUME NEW c, c.kind = "audio", c.policy = "best", NEW C, NEW s \in Selected(c, C)
    PROVE  Honours(c, s, C)
<1>1. Selector(c, C) = <<{{a} : a \in OnlySound(C)}, Single(C, C)>>
  BY SelectorOfSound
<1>2. s \in {{a} : a \in OnlySound(C)} \/ s \in Single(C, C)
  BY <1>1, SelectedIs
<1>3. Sounds(C) # {} => Sounds(s) # {}
  BY <1>2, SingleIs DEF Sounds, OnlySound
<1>4. s \subseteq C
  BY <1>2, SingleIs DEF Sounds, OnlySound
<1> QED
  BY <1>3, <1>4 DEF Honours

LEMMA BestHonoured ==
    ASSUME NEW c, c.kind = "video", c.policy = "best", NEW C, NEW s \in Selected(c, C)
    PROVE  Honours(c, s, C)
<1>1. Selector(c, C) = <<Merged(Mp4s(Videos(C)), Mp4s(OnlySound(C))), Single(Mp4s(C), C),
                         Merged(Videos(C), OnlySound(C)), Single(C, C)>>
  BY DEF Selector
<1>2. \/ s \in Merged(Mp4s(Videos(C)), Mp4s(OnlySound(C))) \/ s \in Single(Mp4s(C), C)
      \/ s \in Merged(Videos(C), OnlySound(C)) \/ s \in Single(C, C)
  BY <1>1, SelectedIs
<1>3. s \in Merged(Mp4s(Videos(C)), Mp4s(OnlySound(C))) => Sounds(s) # {}
  BY MergedIs DEF Sounds, OnlySound, Mp4s
<1>4. s \in Merged(Videos(C), OnlySound(C)) => Sounds(s) # {}
  BY MergedIs DEF Sounds, OnlySound
<1>5. Sounds(C) # {} /\ (s \in Single(Mp4s(C), C) \/ s \in Single(C, C)) => Sounds(s) # {}
  BY SingleIs DEF Sounds, Mp4s
<1>6. s \in Single(Mp4s(C), C) \/ s \in Single(C, C) => s \subseteq C
  BY SingleIs DEF Mp4s
<1>7. (s \in Merged(Mp4s(Videos(C)), Mp4s(OnlySound(C))) \/ s \in Merged(Videos(C), OnlySound(C)))
         => s \subseteq C
  BY MergedIs DEF Mp4s, Videos, OnlySound, Sounds
<1> QED
  BY <1>2, <1>3, <1>4, <1>5, <1>6, <1>7 DEF Honours

LEMMA ExactHonoured ==
    ASSUME NEW c, c.kind = "video", c.policy = "exact", NEW C, NEW s \in Selected(c, C)
    PROVE  Honours(c, s, C)
<1> DEFINE E == {f \in C : f.id = c.id}
<1>1. Selector(c, C) = <<Merged(E, OnlySound(C) \cup Sounds(E)), {{f} : f \in E}>>
  BY DEF Selector
<1>2. s \in Merged(E, OnlySound(C) \cup Sounds(E)) \/ s \in {{f} : f \in E}
  BY <1>1, SelectedIs
<1>3. s \in Merged(E, OnlySound(C) \cup Sounds(E)) => \E f \in s : f.id = c.id
  BY MergedIs
<1>4. s \in {{f} : f \in E} => \E f \in s : f.id = c.id
  OBVIOUS
<1>5. s \subseteq C
  BY <1>2, MergedIs DEF OnlySound, Sounds
<1> QED
  BY <1>2, <1>3, <1>4, <1>5 DEF Honours

\* The fifth alternative is reached only when there is nothing complete within
\* the limit.
LEMMA ResolutionHonoured ==
    ASSUME NEW c, c.kind = "video", c.policy = "resolution", NEW C, NEW s \in Selected(c, C)
    PROVE  Honours(c, s, C)
<1> DEFINE L == Upto(C, c.height)
           A1 == Merged(Mp4s(Videos(L)), Mp4s(OnlySound(C)))
           A2 == Single(Mp4s(L), C)
           A3 == Merged(Videos(L), OnlySound(C))
           A4 == Single(L, C)
<1>1. Selector(c, C) = <<A1, A2, A3, A4, Single(C, C)>>
  BY DEF Selector, SelectUpto
<1> HIDE DEF A1, A2, A3, A4
<1>2. \/ s \in A1 \/ s \in A2 \/ s \in A3 \/ s \in A4
      \/ s \in Single(C, C) /\ A3 = {} /\ A4 = {}
  BY <1>1, SelectedIs
<1>3. L \in SUBSET C
  BY DEF Upto
<1> HIDE DEF L
<1>4. s \in A1 \/ s \in A3 => Sounds(s) # {} /\ Videos(s) \subseteq L
  BY MergedIs DEF A1, A3, Sounds, Videos, OnlySound, Mp4s
<1>5. s \in A2 \/ s \in A4 => Videos(s) \subseteq L
  BY <1>3, SingleIs DEF A2, A4, Videos, Mp4s
<1>6. Sounds(C) # {} /\ (s \in A2 \/ s \in A4 \/ s \in Single(C, C)) => Sounds(s) # {}
  BY <1>3, SingleIs DEF A2, A4, Sounds, Mp4s
<1>7. A3 = {} /\ A4 = {} => ~CompleteUpto(L, C)
  BY NothingMerged DEF A3, A4, CompleteUpto
<1>8. s \in A1 \/ s \in A3 => s \subseteq C
  BY <1>3, MergedIs DEF A1, A3, Sounds, Videos, OnlySound, Mp4s
<1>9. s \in A2 \/ s \in A4 \/ s \in Single(C, C) => s \subseteq C
  BY <1>3, SingleIs DEF A2, A4, Mp4s
<1> QED
  BY <1>2, <1>4, <1>5, <1>6, <1>7, <1>8, <1>9 DEF Honours, L

\* What is selected honours the choice.
LEMMA SelectedHonours ==
    ASSUME NEW c \in Picks, c # Cover, NEW C, NEW s \in Selected(c, C)
    PROVE  Honours(c, s, C)
BY KindsOfPicks, AudioHonoured, BestHonoured, ExactHonoured, ResolutionHonoured

\* A choice that build_choices offers for formats that are still there selects
\* something, except for a resolution without anything complete below it.
LEMMA OfferedIsThere ==
    ASSUME NEW C, NEW K \in SUBSET C, NEW r, NEW cover, NEW c \in Offer(K, r, cover),
           c # Cover, Selected(c, C) = {}
    PROVE  c.policy = "resolution" /\ ~CompleteUpto(Upto(C, c.height), C)
<1>1. CASE c = Best /\ Videos(K) # {}
  <2>1. Selector(c, C) = <<Merged(Mp4s(Videos(C)), Mp4s(OnlySound(C))), Single(Mp4s(C), C),
                           Merged(Videos(C), OnlySound(C)), Single(C, C)>>
    BY <1>1 DEF Selector, Best, Video
  <2>2. Merged(Videos(C), OnlySound(C)) = {} /\ Single(C, C) = {}
    BY <2>1, SelectedIs
  <2>3. Videos(C) # {}
    BY <1>1 DEF Videos
  <2>4. OnlySound(C) = {}
    BY <2>2, <2>3, NothingMerged
  <2> QED
    BY <2>2, <2>3, <2>4 DEF Single, OnlySound, Videos, Sounds
<1>2. CASE c = Audio /\ Sounds(K) # {}
  <2>0. c.kind = "audio" /\ c.policy = "best"
    <3>1. Audio.kind = "audio" /\ Audio.policy = "best"
      BY SMT DEF Audio, Best, Video
    <3> QED
      BY <1>2, <3>1
  <2>1. Selector(c, C) = <<{{a} : a \in OnlySound(C)}, Single(C, C)>>
    BY <2>0, SelectorOfSound
  <2>2. {{a} : a \in OnlySound(C)} = {} /\ Single(C, C) = {}
    <3> DEFINE A == {{a} : a \in OnlySound(C)}
    <3> HIDE DEF A
    <3>1. Selector(c, C) = <<A, Single(C, C)>>
      BY <2>1 DEF A
    <3>2. A = {} /\ Single(C, C) = {}
      BY <3>1, SelectedIs
    <3> QED
      BY <3>2 DEF A
  <2>3. Sounds(C) # {}
    BY <1>2 DEF Sounds
  <2>4. OnlySound(C) = {}
    BY <2>2
  <2> QED
    BY <2>2, <2>3, <2>4 DEF Single, OnlySound, Videos, Sounds
<1>3. CASE c \in Exact(Videos(K))
  <2>1. PICK f \in K : c = Video("exact", f.height, f.id)
    BY <1>3 DEF Exact, Videos
  <2> DEFINE E == {g \in C : g.id = c.id}
  <2>2. Selector(c, C) = <<Merged(E, OnlySound(C) \cup Sounds(E)), {{g} : g \in E}>>
    BY <2>1 DEF Selector, Video
  <2>3. {{g} : g \in E} = {}
    <3> DEFINE A == Merged(E, OnlySound(C) \cup Sounds(E))
               B == {{g} : g \in E}
    <3> HIDE DEF A, B
    <3>1. Selector(c, C) = <<A, B>>
      BY <2>2 DEF A, B
    <3>2. Len(<<A, B>>) = 2 /\ <<A, B>>[2] = B
      OBVIOUS
    <3>3. Selector(c, C)[2] = {}
      BY <3>1, <3>2, SelectedIs
    <3> QED
      BY <3>1, <3>2, <3>3 DEF B
  <2>4. f \in E
    BY <2>1 DEF Video
  <2> QED
    BY <2>3, <2>4
<1>4. CASE c \in Limited(Heights)
  <2>1. c.kind = "video" /\ c.policy = "resolution"
    <3>1. PICK h \in Heights : c = Video("resolution", h, "")
      BY <1>4 DEF Limited
    <3> QED
      BY <3>1 DEF Video
  <2> DEFINE L == Upto(C, c.height)
  <2>2. Selector(c, C) = <<Merged(Mp4s(Videos(L)), Mp4s(OnlySound(C))), Single(Mp4s(L), C),
                           Merged(Videos(L), OnlySound(C)), Single(L, C), Single(C, C)>>
    BY <2>1 DEF Selector, SelectUpto
  <2>3. Merged(Videos(L), OnlySound(C)) = {} /\ Single(L, C) = {}
    BY <2>2, SelectedIs
  <2> QED
    BY <2>1, <2>3, NothingMerged DEF CompleteUpto
<1> QED
  BY <1>1, <1>2, <1>3, <1>4 DEF Offer

-----------------------------------------------------------------------------
(* The inductive invariants.                                                   *)

\* Where the worker is tells what it holds: nothing is chosen between two entries,
\* nothing left to fetch when the postprocessors run, and rows come at the end.
PlaceOK ==
    /\ item <= Count
    /\ step # "done" => outcome = "none"
    /\ outcome # "delivered" => rows = {}
    /\ step \in {"choose", "start", "item", "nomatch", "after", "finalize"} => chosen = {}
    /\ step = "post" => todo = {}

Inv == TypeOK /\ PlaceOK

\* A single media has shown no late number before its streams are selected.
NumbersOK ==
    /\ ~playlist /\ step \in {"choose", "start", "item"} => shown < 95
    /\ LateNumbersTrue

\* From the moment a check has found the request only a few steps are left.
WarnedOK ==
    warned => /\ cancel
              /\ \/ step \in {"item", "after", "broken"}
                 \/ step = "done" /\ outcome \in {"cancelled", "error"}

\* What was chosen was selected for the pick, and the pick had been offered.
PickOK ==
    /\ chosen # {} => pick # Cover /\ chosen \in Selected(pick, current)
    /\ step = "nomatch" => pick # Cover /\ Selected(pick, current) = {}
    /\ ~playlist /\ step # "choose" =>
         \E K \in Kept(seen), restricted, cover \in BOOLEAN : pick \in Offer(K, restricted, cover)

\* What is on the disk has been heard of, and what has been heard of stays within
\* the limit until the piece that ends the job.
BudgetOK ==
    /\ \A p \in Parts : got[p] <= bytes[p]
    /\ Total(bytes) <= MaxBytes + 1
    /\ step # "done" => Total(bytes) <= MaxBytes
    /\ RowSum(rows) <= 2 * MaxBytes

\* The number of a piece of any entry is below 95.
LEMMA NumberRange ==
    ASSUME TypeOK, PlaceOK, NEW share \in 0 .. Pieces
    PROVE  Number(share) \in 0 .. 94
<1> DEFINE a == (item - 1) * Pieces + share
           b == Count * Pieces
<1>1. item \in Nat \ {0} /\ Count \in Nat \ {0} /\ Pieces \in Nat \ {0} /\ item <= Count
  BY DownloadAssumption DEF TypeOK, PlaceOK, Count
<1>2. a \in Nat /\ b \in Nat \ {0} /\ a <= b
  <2>1. item - 1 \in Nat /\ item - 1 <= Count - 1
    BY <1>1
  <2>2. (item - 1) * Pieces <= (Count - 1) * Pieces /\ (item - 1) * Pieces \in Nat
    BY <1>1, <2>1, Z3
  <2>3. (Count - 1) * Pieces + Pieces = b /\ b \in Nat \ {0}
    BY <1>1, Z3
  <2>4. (Count - 1) * Pieces \in Nat
    BY <1>1, Z3
  <2> QED
    BY <1>1, <2>2, <2>3, <2>4
<1> HIDE DEF a, b
<1>3. (94 * a) \div b \in 0 .. 94
  BY <1>2, DivBounds
<1> QED
  BY <1>3 DEF Number, a, b

\* The larger of two numbers.
LEMMA MaxOf ==
    ASSUME NEW a \in Int, NEW b \in Int
    PROVE  Max({a, b}) = IF a >= b THEN a ELSE b
<1>1. \E x \in {a, b} : \A y \in {a, b} : x >= y
  OBVIOUS
<1> QED
  BY <1>1 DEF Max

\* The first row of a delivery is the only one that is primary.
Primaries(R) == {r \in R : r.primary}

LEMMA PrimaryOfNone == Cardinality(Primaries({})) # 1
<1>1. Primaries({}) = {}
  BY DEF Primaries
<1> QED
  BY <1>1, FS_EmptySet

LEMMA PrimaryOfRecords ==
    ASSUME files \in [1 .. Items -> Nat], NEW zip \in {{}, {0}}, NEW first \in Made
    PROVE  /\ Cardinality(Primaries(Records(zip, first))) = 1
           /\ Records(zip, first) \subseteq [file : 0 .. Items, size : Nat, primary : BOOLEAN]
<1> DEFINE row(i) == [file |-> i, size |-> files[i], primary |-> zip = {} /\ i = first]
           arch == [file |-> 0, size |-> Total(files), primary |-> TRUE]
<1>1. Items \in Nat /\ Made \subseteq 1 .. Items
  BY DownloadAssumption DEF Made
<1>2. Total(files) \in Nat
  <2>1. IsFiniteSet(1 .. Items)
    BY <1>1, FS_Interval
  <2> QED
    BY <2>1, TotalNat
<1>3. Records(zip, first) = {row(i) : i \in Made} \cup {arch : z \in zip}
  BY DEF Records
<1>4. \A i \in Made : row(i) \in [file : 0 .. Items, size : Nat, primary : BOOLEAN]
  BY <1>1
<1>5. arch \in [file : 0 .. Items, size : Nat, primary : BOOLEAN]
  BY <1>1, <1>2
<1>6. \A i \in Made : row(i).primary <=> zip = {} /\ i = first
  OBVIOUS
<1>7. arch.primary
  OBVIOUS
<1> HIDE DEF row, arch
<1>8. \E p : Primaries(Records(zip, first)) = {p}
  <2>1. CASE zip = {}
    <3>1. Primaries(Records(zip, first)) = {row(first)}
      BY <1>3, <1>6, <2>1 DEF Primaries
    <3> QED
      BY <3>1
  <2>2. CASE zip = {0}
    <3>1. Primaries(Records(zip, first)) = {arch}
      BY <1>3, <1>6, <1>7, <2>2 DEF Primaries
    <3> QED
      BY <3>1
  <2> QED
    BY <2>1, <2>2
<1>9. Cardinality(Primaries(Records(zip, first))) = 1
  <2> PICK p : Primaries(Records(zip, first)) = {p}
    BY <1>8
  <2> QED
    BY FS_Singleton
<1>10. Records(zip, first) \subseteq [file : 0 .. Items, size : Nat, primary : BOOLEAN]
  BY <1>3, <1>4, <1>5
<1> QED
  BY <1>9, <1>10

\* What a piece adds to what is on the disk and to what has been heard of it.
LEMMA HeardOf ==
    ASSUME TypeOK, NEW f \in Formats, got[Part(f)] < Pieces
    PROVE  LET n == got[Part(f)] + 1  p == Part(f) IN
           /\ p \in Parts /\ n \in 0 .. Pieces
           /\ [got EXCEPT ![p] = n] \in [Parts -> 0 .. Pieces]
           /\ Heard(f, n) \in [Parts -> 0 .. Pieces]
           /\ Heard(f, n) = [bytes EXCEPT ![p] = IF @ >= n THEN @ ELSE n]
<1> DEFINE p == Part(f)
           n == got[p] + 1
<1>1. p \in Parts
  BY DEF TypeOK, Part, Parts
<1>2. got[p] \in 0 .. Pieces /\ bytes[p] \in 0 .. Pieces /\ Pieces \in Nat
  BY <1>1, DownloadAssumption DEF TypeOK
<1>3. n \in 0 .. Pieces
  BY <1>2
<1>4. Max({bytes[p], n}) = IF bytes[p] >= n THEN bytes[p] ELSE n
  BY <1>2, <1>3, MaxOf
<1> HIDE DEF p
<1>5. Heard(f, n) = [bytes EXCEPT ![p] = IF @ >= n THEN @ ELSE n]
  BY <1>4 DEF Heard, p
<1>6. [got EXCEPT ![p] = n] \in [Parts -> 0 .. Pieces]
  BY <1>1, <1>3 DEF TypeOK
<1>7. Heard(f, n) \in [Parts -> 0 .. Pieces]
  BY <1>1, <1>2, <1>3, <1>5 DEF TypeOK
<1> QED
  BY <1>1, <1>3, <1>5, <1>6, <1>7 DEF p

\* What is offered is a choice the model knows.
LEMMA OfferedArePicks ==
    /\ \A cover : ListOffer(cover) \subseteq Picks
    /\ \A K \in SUBSET Formats : \A restricted, cover : Offer(K, restricted, cover) \subseteq Picks
<1>1. Limited(ListHeights) \subseteq Limited(Heights)
  BY DownloadAssumption DEF Limited
<1>2. \A K \in SUBSET Formats : Exact(Videos(K)) \subseteq Exact(Videos(Formats))
  BY DEF Exact, Videos
<1>3. \A cover : ListOffer(cover) \subseteq Picks
  BY <1>1 DEF ListOffer, Picks
<1>4. ASSUME NEW K \in SUBSET Formats, NEW restricted, NEW cover
      PROVE  Offer(K, restricted, cover) \subseteq Picks
  BY <1>2 DEF Offer, Picks
<1> QED
  BY <1>3, <1>4

LEMMA KeptAreSeen ==
    ASSUME NEW F, NEW K \in Kept(F)
    PROVE  K \in SUBSET F
BY DEF Kept

\* The first invariant: types and places.
LEMMA InitType == Init => Inv
<1> SUFFICES ASSUME Init PROVE Inv
  OBVIOUS
<1>1. Items \in Nat \ {0} /\ Pieces \in Nat \ {0}
  BY DownloadAssumption
<1>2. Cardinality({r \in rows : r.primary}) # 1
  BY PrimaryOfNone DEF Init, Primaries
<1>3. TypeOK
  <2>1. /\ got \in [Parts -> 0 .. Pieces] /\ bytes \in [Parts -> 0 .. Pieces]
        /\ files \in [1 .. Items -> Nat]
    BY <1>1 DEF Init
  <2>2. pick \in Picks
    BY Zenon DEF Init, Picks
  <2>3. outcome = "delivered" <=> Cardinality({r \in rows : r.primary}) = 1
    BY <1>2 DEF Init
  <2>4. playlist \in BOOLEAN /\ cancel \in BOOLEAN /\ warned \in BOOLEAN
    BY Zenon DEF Init
  <2>7. item \in 1 .. Items /\ seen \subseteq Formats /\ current = {} /\ chosen = {} /\ todo = {}
    <3>1. item = 1 /\ seen \subseteq Formats /\ current = {} /\ chosen = {} /\ todo = {}
      BY DEF Init
    <3> QED
      BY <1>1, <3>1
  <2>6. shown \in 0 .. 100 /\ last \in -1 .. 100
    <3>1. shown = 0 /\ last = -1
      BY DEF Init
    <3> QED
      BY <3>1
  <2>5. step = "choose" /\ status = "running" /\ rows = {} /\ outcome = "none"
    BY DEF Init
  <2> QED
    BY <2>1, <2>2, <2>3, <2>4, <2>5, <2>6, <2>7 DEF TypeOK, Active
<1>4. PlaceOK
  BY <1>1 DEF Init, PlaceOK, Count
<1> QED
  BY <1>3, <1>4 DEF Inv

\* A step that adds no row and delivers nothing.
LEMMA NoRowsAdded ==
    ASSUME TypeOK, PlaceOK, rows' = rows,
           \/ outcome' = outcome
           \/ step # "done" /\ outcome' # "delivered"
    PROVE  outcome' = "delivered" <=> Cardinality({r \in rows' : r.primary}) = 1
<1>1. CASE outcome' = outcome
  BY <1>1 DEF TypeOK
<1>2. CASE step # "done" /\ outcome' # "delivered"
  <2>1. rows' = {}
    BY <1>2 DEF PlaceOK
  <2> QED
    BY <1>2, <2>1, PrimaryOfNone DEF Primaries
<1> QED
  BY <1>1, <1>2

LEMMA NextKeepsType ==
    ASSUME Inv, [Next]_vars
    PROVE  Inv'
<1> USE DEF Inv
<1>a. Items \in Nat \ {0} /\ Pieces \in Nat \ {0} /\ MaxBytes \in Nat \ {0}
  BY DownloadAssumption
<1>n. TypeOK /\ PlaceOK
  OBVIOUS
<1>1. CASE Choose
  <2>1. pick' \in Picks
    BY <1>1, OfferedArePicks, KeptAreSeen DEF Choose, TypeOK
  <2>2. TypeOK'
    BY <1>1, <1>n, <2>1, NoRowsAdded DEF Choose, TypeOK
  <2> QED
    BY <1>1, <2>2 DEF Choose, PlaceOK, Count
<1>2. CASE RequestCancel
  <2>1. TypeOK'
    BY <1>2, <1>n, NoRowsAdded DEF RequestCancel, TypeOK, media, Active
  <2> QED
    BY <1>2, <2>1 DEF RequestCancel, PlaceOK, Count, media
<1>3. CASE NoticeCancel
  <2>1. TypeOK'
    BY <1>3, <1>n, NoRowsAdded DEF NoticeCancel, End, TypeOK, media
  <2> QED
    BY <1>3, <2>1 DEF NoticeCancel, End, PlaceOK, Count, media
<1>4. CASE Begin
  <2>1. TypeOK'
    BY <1>4, <1>n, NoRowsAdded DEF Begin, TypeOK, media
  <2> QED
    BY <1>4, <2>1 DEF Begin, PlaceOK, Count, media
<1>5. CASE Fail \/ OtherError
  <2>1. TypeOK'
    BY <1>5, <1>n, NoRowsAdded DEF Fail, OtherError, End, TypeOK, media
  <2> QED
    BY <1>5, <2>1 DEF Fail, OtherError, End, PlaceOK, Count, media
<1>6. ASSUME NEW C \in SUBSET Formats, NEW barred \in BOOLEAN, Refuse(C, barred)
      PROVE  Inv'
  <2>1. item' \in 1 .. Items /\ item' <= Count /\ step' \in {"item", "after"}
    BY <1>6, <1>a DEF Refuse, NextItem, TypeOK, PlaceOK, Count
  <2>2. TypeOK'
    BY <1>6, <1>n, <2>1, NoRowsAdded DEF Refuse, TypeOK, media
  <2> QED
    BY <1>6, <2>1, <2>2 DEF Refuse, PlaceOK, Count, media
<1>7. ASSUME NEW C \in SUBSET Formats, SelectNone(C)
      PROVE  Inv'
  <2>1. TypeOK'
    BY <1>7, <1>n, NoRowsAdded DEF SelectNone, TypeOK, media
  <2> QED
    BY <1>7, <2>1 DEF SelectNone, PlaceOK, Count, media
<1>8. ASSUME NEW C \in SUBSET Formats, Select(C)
      PROVE  Inv'
  <2>1. chosen' \subseteq C
    BY <1>8, SelectedHonours DEF Select, TypeOK, Honours
  <2>2. TypeOK'
    BY <1>8, <1>n, <2>1, NoRowsAdded DEF Select, TypeOK, media
  <2> QED
    BY <1>8, <2>2 DEF Select, PlaceOK, Count, media
<1>9. CASE SelectCover
  <2>1. TypeOK'
    BY <1>9, <1>n, NoRowsAdded DEF SelectCover, TypeOK, media
  <2> QED
    BY <1>9, <2>1 DEF SelectCover, PlaceOK, Count, media
<1>10. CASE Break
  <2>1. TypeOK'
    BY <1>10, <1>n, NoRowsAdded DEF Break, TypeOK, media
  <2> QED
    BY <1>10, <2>1 DEF Break, PlaceOK, Count, media
<1>11. CASE Postprocess
  <2>1. shown' \in 0 .. 100
    BY <1>11 DEF Postprocess, Write, TypeOK
  <2>2. TypeOK'
    BY <1>11, <1>n, <2>1, NoRowsAdded DEF Postprocess, TypeOK, media
  <2> QED
    BY <1>11, <2>2 DEF Postprocess, PlaceOK, Count, media
<1>12. ASSUME NEW f \in Formats, NEW share \in 0 .. Pieces, Piece(f, share)
       PROVE  Inv'
  <2>1. Number(share) \in 0 .. 94
    BY <1>n, NumberRange
  <2>2. shown' \in 0 .. 100 /\ last' \in -1 .. 100
    <3>1. shown' \in {shown, Number(share)} /\ last' \in {last, Number(share)}
      BY <1>12 DEF Piece, Write
    <3>2. shown \in 0 .. 100 /\ last \in -1 .. 100
      BY DEF TypeOK
    <3> QED
      BY <2>1, <3>1, <3>2
  <2>3. got' \in [Parts -> 0 .. Pieces] /\ bytes' \in [Parts -> 0 .. Pieces]
    BY <1>12, <1>n, HeardOf DEF Piece
  <2>4. TypeOK'
    BY <1>12, <1>n, <2>2, <2>3, NoRowsAdded DEF Piece, TypeOK, media
  <2> QED
    BY <1>12, <2>4 DEF Piece, PlaceOK, Count, media
<1>13. ASSUME NEW f \in Formats, PieceTooMuch(f)
       PROVE  Inv'
  <2>1. got' \in [Parts -> 0 .. Pieces] /\ bytes' \in [Parts -> 0 .. Pieces]
    BY <1>13, <1>n, HeardOf DEF PieceTooMuch
  <2>2. TypeOK'
    BY <1>13, <1>n, <2>1, NoRowsAdded DEF PieceTooMuch, Fetching, End, TypeOK, media
  <2> QED
    BY <1>13, <2>2 DEF PieceTooMuch, Fetching, End, PlaceOK, Count, media
<1>14. ASSUME NEW f \in Formats, Restart(f)
       PROVE  Inv'
  <2>1. got' \in [Parts -> 0 .. Pieces]
    <3>1. got \in [Parts -> 0 .. Pieces] /\ 0 \in 0 .. Pieces
      BY <1>a DEF TypeOK
    <3>2. got' = [got EXCEPT ![Part(f)] = 0]
      BY <1>14 DEF Restart
    <3> QED
      BY <3>1, <3>2
  <2>2. TypeOK'
    BY <1>14, <1>n, <2>1, NoRowsAdded DEF Restart, TypeOK, media
  <2> QED
    BY <1>14, <2>2 DEF Restart, PlaceOK, Count, media
<1>15. ASSUME NEW f \in Formats, Finish(f)
       PROVE  Inv'
  <2>1. shown' \in 0 .. 100
    <3>1. shown \in 0 .. 100
      BY DEF TypeOK
    <3>2. Max({shown, 95}) \in 0 .. 100
      BY <3>1, MaxOf
    <3> QED
      BY <1>15, <3>1, <3>2 DEF Finish
  <2>2. TypeOK'
    BY <1>15, <1>n, <2>1, NoRowsAdded DEF Finish, TypeOK, media, Active
  <2> QED
    BY <1>15, <2>2 DEF Finish, Fetching, PlaceOK, Count, media
<1>16. ASSUME NEW size \in 1 .. MaxBytes + 1, Produce(size)
       PROVE  Inv'
  <2>1. item' \in 1 .. Items /\ item' <= Count /\ step' \in {"item", "after"}
    BY <1>16, <1>a DEF Produce, NextItem, TypeOK, PlaceOK, Count
  <2>2. files' \in [1 .. Items -> Nat]
    BY <1>16, <1>a DEF Produce, TypeOK
  <2>3. TypeOK'
    BY <1>16, <1>n, <2>1, <2>2, NoRowsAdded DEF Produce, TypeOK, media
  <2> QED
    BY <1>16, <2>1, <2>3 DEF Produce, PlaceOK, Count, media
<1>17. CASE After
  <2>1. shown' \in 0 .. 100
    BY <1>17 DEF After, Write, TypeOK
  <2>2. TypeOK'
    BY <1>17, <1>n, <2>1, NoRowsAdded DEF After, TypeOK, media
  <2> QED
    BY <1>17, <2>2 DEF After, PlaceOK, Count, media
<1>18. CASE NoArtifact
  <2>1. TypeOK'
    BY <1>18, <1>n, NoRowsAdded DEF NoArtifact, End, TypeOK, media
  <2> QED
    BY <1>18, <2>1 DEF NoArtifact, End, PlaceOK, Count, media
<1>19. CASE TooLarge
  <2>1. TypeOK'
    BY <1>19, <1>n, NoRowsAdded DEF TooLarge, End, TypeOK, media
  <2> QED
    BY <1>19, <2>1 DEF TooLarge, End, PlaceOK, Count, media
<1>20. ASSUME NEW first \in 1 .. Items, Finalize(first)
       PROVE  Inv'
  <2>1. PICK zip \in {{}, {0}} : rows' = Records(zip, first)
    BY <1>20 DEF Finalize
  <2>2. Cardinality({r \in rows' : r.primary}) = 1
    BY <1>20, <2>1, PrimaryOfRecords DEF Finalize, TypeOK, Primaries
  <2>3. rows' \subseteq [file : 0 .. Items, size : Nat, primary : BOOLEAN]
    BY <1>20, <2>1, PrimaryOfRecords DEF Finalize, TypeOK
  <2>4. TypeOK'
    BY <1>20, <2>2, <2>3 DEF Finalize, End, TypeOK, media
  <2> QED
    BY <1>20, <2>4 DEF Finalize, End, PlaceOK, Count, media
<1>21. CASE UNCHANGED vars
  <2>1. TypeOK'
    BY <1>21, <1>n, NoRowsAdded DEF vars, TypeOK, media
  <2> QED
    BY <1>21, <2>1 DEF vars, PlaceOK, Count, media
<1> QED
  BY <1>1, <1>2, <1>3, <1>4, <1>5, <1>6, <1>7, <1>8, <1>9, <1>10, <1>11, <1>12, <1>13,
     <1>14, <1>15, <1>16, <1>17, <1>18, <1>19, <1>20, <1>21 DEF Next

\* Every action keeps the other four invariants.
LEMMA NextKeepsWarned ==
    ASSUME WarnedOK, [Next]_vars
    PROVE  WarnedOK'
<1> USE DEF WarnedOK, media
<1>1. CASE Choose
  BY <1>1 DEF Choose
<1>2. CASE RequestCancel
  BY <1>2 DEF RequestCancel
<1>3. CASE NoticeCancel
  BY <1>3 DEF NoticeCancel, End
<1>4. CASE Begin \/ Fail \/ OtherError \/ After \/ NoArtifact \/ TooLarge
  BY <1>4 DEF Begin, Fail, OtherError, After, NoArtifact, TooLarge, End
<1>5. ASSUME NEW C \in SUBSET Formats, NEW barred \in BOOLEAN, Refuse(C, barred)
      PROVE  WarnedOK'
  BY <1>5 DEF Refuse, NextItem
<1>6. ASSUME NEW C \in SUBSET Formats, SelectNone(C) \/ Select(C)
      PROVE  WarnedOK'
  BY <1>6 DEF SelectNone, Select
<1>7. CASE SelectCover \/ Postprocess
  BY <1>7 DEF SelectCover, Postprocess
<1>8. CASE Break
  BY <1>8 DEF Break
<1>9. ASSUME NEW f \in Formats, NEW share \in 0 .. Pieces, Piece(f, share)
      PROVE  WarnedOK'
  BY <1>9 DEF Piece, Fetching
<1>10. ASSUME NEW f \in Formats, PieceTooMuch(f) \/ Restart(f) \/ Finish(f)
       PROVE  WarnedOK'
  BY <1>10 DEF PieceTooMuch, Restart, Finish, Fetching, End
<1>11. ASSUME NEW size \in 1 .. MaxBytes + 1, Produce(size)
       PROVE  WarnedOK'
  BY <1>11 DEF Produce, NextItem
<1>12. ASSUME NEW first \in 1 .. Items, Finalize(first)
       PROVE  WarnedOK'
  BY <1>12 DEF Finalize, End
<1>13. CASE UNCHANGED vars
  BY <1>13 DEF vars
<1> QED
  BY <1>1, <1>2, <1>3, <1>4, <1>5, <1>6, <1>7, <1>8, <1>9, <1>10, <1>11, <1>12, <1>13 DEF Next

LEMMA NextKeepsNumbers ==
    ASSUME Inv, NumbersOK, [Next]_vars
    PROVE  NumbersOK'
<1> USE DEF Inv, NumbersOK, LateNumbersTrue, media
<1>t. shown \in 0 .. 100 /\ todo \subseteq chosen
  BY DEF TypeOK
<1>1. CASE Choose
  BY <1>1 DEF Choose
<1>2. CASE RequestCancel \/ NoticeCancel
  BY <1>2 DEF RequestCancel, NoticeCancel, End
<1>3. CASE Begin \/ Fail \/ OtherError \/ NoArtifact \/ TooLarge
  BY <1>3 DEF Begin, Fail, OtherError, NoArtifact, TooLarge, End
<1>4. ASSUME NEW C \in SUBSET Formats, NEW barred \in BOOLEAN, Refuse(C, barred)
      PROVE  NumbersOK'
  BY <1>4 DEF Refuse, NextItem, Count
<1>5. ASSUME NEW C \in SUBSET Formats, SelectNone(C) \/ Select(C)
      PROVE  NumbersOK'
  BY <1>5, <1>t DEF SelectNone, Select
<1>6. CASE SelectCover
  BY <1>6 DEF SelectCover
<1>7. CASE Break
  BY <1>7 DEF Break
<1>8. CASE Postprocess \/ After
  <2>1. todo' = {} /\ step' \in {"post", "finalize"}
    BY <1>8, <1>t DEF Postprocess, After, PlaceOK
  <2> QED
    BY <2>1
<1>9. ASSUME NEW f \in Formats, NEW share \in 0 .. Pieces, Piece(f, share)
      PROVE  NumbersOK'
  <2>1. Number(share) \in 0 .. 94
    BY NumberRange
  <2>2. shown' = Number(share) \/ shown' = shown
    BY <1>9 DEF Piece, Write
  <2>3. step' = "stream" /\ playlist' = playlist /\ chosen' = chosen /\ todo' = todo
    BY <1>9 DEF Piece, Fetching
  <2> QED
    BY <2>1, <2>2, <2>3
<1>10. ASSUME NEW f \in Formats, PieceTooMuch(f) \/ Restart(f)
       PROVE  NumbersOK'
  BY <1>10 DEF PieceTooMuch, Restart, Fetching, End
<1>11. ASSUME NEW f \in Formats, Finish(f)
       PROVE  NumbersOK'
  <2>1. f \in todo /\ todo' = todo \ {f} /\ chosen' = chosen /\ step' \in {"post", "stream"}
    BY <1>11 DEF Finish, Fetching
  <2>2. todo' # chosen'
    BY <1>t, <2>1
  <2>3. ~playlist => ~(shown >= 96)
    BY <2>1
  <2>4. shown' = shown \/ shown' = Max({shown, 95})
    BY <1>11 DEF Finish
  <2>5. ~playlist => ~(shown' >= 96)
    BY <1>t, <2>3, <2>4, MaxOf
  <2>6. playlist' = playlist
    BY <1>11 DEF Finish
  <2> QED
    BY <2>1, <2>2, <2>5, <2>6
<1>12. ASSUME NEW size \in 1 .. MaxBytes + 1, Produce(size)
       PROVE  NumbersOK'
  BY <1>12 DEF Produce, NextItem, Count, PlaceOK, TypeOK
<1>13. ASSUME NEW first \in 1 .. Items, Finalize(first)
       PROVE  NumbersOK'
  BY <1>13 DEF Finalize, End
<1>14. CASE UNCHANGED vars
  BY <1>14 DEF vars
<1> QED
  BY <1>1, <1>2, <1>3, <1>4, <1>5, <1>6, <1>7, <1>8, <1>9, <1>10, <1>11, <1>12, <1>13,
     <1>14 DEF Next

LEMMA NextKeepsPick ==
    ASSUME Inv, PickOK, [Next]_vars
    PROVE  PickOK'
<1> USE DEF PickOK, media
<1>1. CASE Choose
  <2>1. chosen' = {} /\ step' # "nomatch"
    BY <1>1 DEF Choose, Inv, PlaceOK
  <2>2. ~playlist' => \E K \in Kept(seen'), restricted, cover \in BOOLEAN :
                          pick' \in Offer(K, restricted, cover)
    BY <1>1 DEF Choose
  <2> QED
    BY <2>1, <2>2
<1>2. CASE RequestCancel \/ NoticeCancel \/ Begin \/ Fail \/ OtherError
  BY <1>2 DEF RequestCancel, NoticeCancel, Begin, Fail, OtherError, End
<1>3. ASSUME NEW C \in SUBSET Formats, NEW barred \in BOOLEAN, Refuse(C, barred)
      PROVE  PickOK'
  BY <1>3 DEF Refuse, NextItem
<1>4. ASSUME NEW C \in SUBSET Formats, SelectNone(C)
      PROVE  PickOK'
  BY <1>4 DEF SelectNone
<1>5. ASSUME NEW C \in SUBSET Formats, Select(C)
      PROVE  PickOK'
  BY <1>5 DEF Select
<1>6. CASE SelectCover \/ Break \/ Postprocess
  BY <1>6 DEF SelectCover, Break, Postprocess
<1>7. ASSUME NEW f \in Formats, NEW share \in 0 .. Pieces, Piece(f, share)
      PROVE  PickOK'
  BY <1>7 DEF Piece, Fetching
<1>8. ASSUME NEW f \in Formats, PieceTooMuch(f) \/ Restart(f) \/ Finish(f)
      PROVE  PickOK'
  BY <1>8 DEF PieceTooMuch, Restart, Finish, Fetching, End
<1>9. ASSUME NEW size \in 1 .. MaxBytes + 1, Produce(size)
      PROVE  PickOK'
  BY <1>9 DEF Produce, NextItem
<1>10. CASE After \/ NoArtifact \/ TooLarge
  BY <1>10 DEF After, NoArtifact, TooLarge, End
<1>11. ASSUME NEW first \in 1 .. Items, Finalize(first)
       PROVE  PickOK'
  BY <1>11 DEF Finalize, End
<1>12. CASE UNCHANGED vars
  BY <1>12 DEF vars
<1> QED
  BY <1>1, <1>2, <1>3, <1>4, <1>5, <1>6, <1>7, <1>8, <1>9, <1>10, <1>11, <1>12 DEF Next

\* There are finitely many streams and files to add up.
LEMMA PartsFinite == IsFiniteSet(Parts) /\ IsFiniteSet(1 .. Items)
<1>1. IsFiniteSet(1 .. Items)
  BY DownloadAssumption, FS_Interval
<1> QED
  BY <1>1, DownloadAssumption, FS_Product DEF Parts

\* A piece more on the disk is a piece more heard of at the most.
LEMMA HeardOnce ==
    ASSUME TypeOK, BudgetOK, NEW f \in Formats, got[Part(f)] < Pieces,
           got' = [got EXCEPT ![Part(f)] = got[Part(f)] + 1],
           bytes' = Heard(f, got[Part(f)] + 1)
    PROVE  /\ \A p \in Parts : got'[p] <= bytes'[p]
           /\ Total(bytes') \in Int /\ Total(bytes') <= Total(bytes) + 1
<1> DEFINE p == Part(f)
           n == got[p] + 1
           m == IF bytes[p] >= n THEN bytes[p] ELSE n
<1>1. /\ p \in Parts /\ n \in 0 .. Pieces
      /\ bytes' = [bytes EXCEPT ![p] = IF @ >= n THEN @ ELSE n]
  BY HeardOf
<1>2. got \in [Parts -> Nat] /\ bytes \in [Parts -> Nat] /\ Pieces \in Nat
  BY DownloadAssumption DEF TypeOK
<1>3. got[p] \in Nat /\ bytes[p] \in Nat /\ got[p] <= bytes[p]
  BY <1>1, <1>2 DEF BudgetOK
<1>4. n \in Nat /\ m \in Nat /\ n <= m /\ m <= bytes[p] + 1
  BY <1>3
<1>5. bytes' = [bytes EXCEPT ![p] = m] /\ got' = [got EXCEPT ![p] = n]
  BY <1>1
<1> HIDE DEF p, n, m
<1>6. Total(bytes') = (Total(bytes) - bytes[p]) + m
  BY <1>1, <1>2, <1>4, <1>5, PartsFinite, TotalOfUpdate
<1>7. Total(bytes) \in Nat
  BY <1>2, PartsFinite, TotalNat
<1>8. Total(bytes') \in Int /\ Total(bytes') <= Total(bytes) + 1
  BY <1>3, <1>4, <1>6, <1>7
<1>9. \A q \in Parts : got'[q] <= bytes'[q]
  BY <1>1, <1>2, <1>4, <1>5 DEF BudgetOK
<1> QED
  BY <1>8, <1>9

LEMMA NextKeepsBudget ==
    ASSUME Inv, BudgetOK, [Next]_vars
    PROVE  BudgetOK'
<1> USE DEF media
<1>i. MaxBytes \in Nat \ {0} /\ TypeOK /\ PlaceOK
  BY DownloadAssumption DEF Inv
<1>b. Total(bytes) \in Nat
  <2>1. bytes \in [Parts -> Nat]
    BY DownloadAssumption, <1>i DEF TypeOK
  <2> QED
    BY <2>1, PartsFinite, TotalNat
<1>u. ASSUME got' = got, bytes' = bytes, rows' = rows, step' # "done" => step # "done"
      PROVE  BudgetOK'
  BY <1>u DEF BudgetOK
<1>1. CASE Choose \/ RequestCancel \/ NoticeCancel \/ Begin \/ Fail \/ OtherError
  BY <1>1, <1>u DEF Choose, RequestCancel, NoticeCancel, Begin, Fail, OtherError, End
<1>2. ASSUME NEW C \in SUBSET Formats, NEW barred \in BOOLEAN, Refuse(C, barred)
      PROVE  BudgetOK'
  BY <1>2, <1>u DEF Refuse
<1>3. ASSUME NEW C \in SUBSET Formats, SelectNone(C) \/ Select(C)
      PROVE  BudgetOK'
  BY <1>3, <1>u DEF SelectNone, Select
<1>4. CASE SelectCover \/ Break \/ Postprocess
  BY <1>4, <1>u DEF SelectCover, Break, Postprocess
<1>5. ASSUME NEW f \in Formats, NEW share \in 0 .. Pieces, Piece(f, share)
      PROVE  BudgetOK'
  <2>1. /\ got[Part(f)] < Pieces /\ got' = [got EXCEPT ![Part(f)] = got[Part(f)] + 1]
        /\ bytes' = Heard(f, got[Part(f)] + 1) /\ Total(bytes') <= MaxBytes
        /\ rows' = rows
    BY <1>5 DEF Piece
  <2>2. /\ \A p \in Parts : got'[p] <= bytes'[p]
        /\ Total(bytes') \in Int /\ Total(bytes') <= Total(bytes) + 1
    BY <1>i, <2>1, HeardOnce
  <2>3. Total(bytes) <= MaxBytes
    BY <1>5 DEF Piece, Fetching, BudgetOK
  <2>4. Total(bytes') <= MaxBytes + 1
    BY <1>b, <1>i, <2>2, <2>3
  <2>5. RowSum(rows') <= 2 * MaxBytes
    BY <2>1 DEF BudgetOK
  <2> QED
    BY <2>1, <2>2, <2>4, <2>5 DEF BudgetOK
<1>6. ASSUME NEW f \in Formats, PieceTooMuch(f)
      PROVE  BudgetOK'
  <2>1. /\ got[Part(f)] < Pieces /\ got' = [got EXCEPT ![Part(f)] = got[Part(f)] + 1]
        /\ bytes' = Heard(f, got[Part(f)] + 1) /\ step' = "done"
        /\ rows' = rows
    BY <1>6 DEF PieceTooMuch, End
  <2>2. /\ \A p \in Parts : got'[p] <= bytes'[p]
        /\ Total(bytes') \in Int /\ Total(bytes') <= Total(bytes) + 1
    BY <1>i, <2>1, HeardOnce
  <2>3. Total(bytes) <= MaxBytes
    BY <1>6 DEF PieceTooMuch, Fetching, BudgetOK
  <2>4. Total(bytes') <= MaxBytes + 1
    BY <1>b, <1>i, <2>2, <2>3
  <2>5. RowSum(rows') <= 2 * MaxBytes
    BY <2>1 DEF BudgetOK
  <2> QED
    BY <2>1, <2>2, <2>4, <2>5 DEF BudgetOK
<1>7. ASSUME NEW f \in Formats, Restart(f)
      PROVE  BudgetOK'
  <2>1. /\ got' = [got EXCEPT ![Part(f)] = 0] /\ bytes' = bytes /\ rows' = rows /\ step' = step
    BY <1>7 DEF Restart
  <2>2. \A p \in Parts : got[p] \in Nat /\ bytes[p] \in Nat
    BY <1>i, DownloadAssumption DEF TypeOK
  <2>3. \A p \in Parts : got'[p] = got[p] \/ got'[p] = 0
    BY <2>1, <1>i DEF TypeOK
  <2>4. \A p \in Parts : got'[p] <= bytes'[p]
    BY <2>1, <2>2, <2>3 DEF BudgetOK
  <2> QED
    BY <2>1, <2>4 DEF BudgetOK
<1>8. ASSUME NEW f \in Formats, Finish(f)
      PROVE  BudgetOK'
  BY <1>8, <1>u DEF Finish, Fetching
<1>9. ASSUME NEW size \in 1 .. MaxBytes + 1, Produce(size)
      PROVE  BudgetOK'
  BY <1>9, <1>u DEF Produce
<1>10. CASE After \/ NoArtifact \/ TooLarge
  BY <1>10, <1>u DEF After, NoArtifact, TooLarge, End
<1>11. ASSUME NEW first \in 1 .. Items, Finalize(first)
       PROVE  BudgetOK'
  <2>1. PICK zip \in {{}, {0}} : rows' = Records(zip, first)
    BY <1>11 DEF Finalize
  <2>2. files \in [1 .. Items -> Nat] /\ Total(files) <= MaxBytes
    BY <1>11, <1>i DEF Finalize, TypeOK
  <2>3. RowSum(rows') <= 2 * Total(files)
    BY <2>1, <2>2, RecordsSum
  <2>4. Total(files) \in Nat /\ RowSum(rows') \in Nat
    <3>1. Total(files) \in Nat
      BY <2>2, PartsFinite, TotalNat
    <3>2. IsFiniteSet(rows')
      BY <2>1, <2>2, RecordsSum
    <3>3. \A r \in rows' : r.size \in Nat
      BY <1>11, <2>1, <2>2, PrimaryOfRecords DEF Finalize
    <3>4. PICK g : IsSum(g, [r \in rows' |-> r.size], rows') /\ RowSum(rows') = g[rows']
      BY <3>2, <3>3, RowSumIs
    <3> QED
      BY <3>1, <3>4 DEF IsSum
  <2>5. RowSum(rows') <= 2 * MaxBytes
    BY <1>i, <2>2, <2>3, <2>4
  <2>6. got' = got /\ bytes' = bytes /\ step' = "done"
    BY <1>11 DEF Finalize, End
  <2> QED
    BY <2>5, <2>6 DEF BudgetOK
<1>12. CASE UNCHANGED vars
  BY <1>12, <1>u DEF vars
<1> QED
  BY <1>1, <1>2, <1>3, <1>4, <1>5, <1>6, <1>7, <1>8, <1>9, <1>10, <1>11, <1>12 DEF Next

\* The invariants say what the properties say, and hold in the beginning.
LEMMA PickIsHonoured ==
    ASSUME Inv, PickOK
    PROVE  PickHonoured
<1> DEFINE L == Upto(current, pick.height)
<1>1. pick \in Picks
  BY DEF Inv, TypeOK
<1>2. ASSUME chosen # {}
      PROVE  Honours(pick, chosen, current)
  BY <1>1, <1>2, SelectedHonours DEF PickOK
<1>3. ASSUME step = "nomatch", ~playlist, current = seen
      PROVE  pick.policy = "resolution" /\ ~CompleteUpto(L, current)
  <2>1. pick # Cover /\ Selected(pick, current) = {}
    BY <1>3 DEF PickOK
  <2>2. PICK K \in Kept(seen), restricted, cover \in BOOLEAN : pick \in Offer(K, restricted, cover)
    BY <1>3 DEF PickOK
  <2>3. K \in SUBSET current
    BY <1>3, <2>2, KeptAreSeen
  <2> QED
    BY <2>1, <2>2, <2>3, OfferedIsThere
<1> QED
  BY <1>2, <1>3 DEF PickHonoured, Honours

LEMMA InitOthers == Init => NumbersOK /\ WarnedOK /\ PickOK /\ BudgetOK
<1> SUFFICES ASSUME Init PROVE NumbersOK /\ WarnedOK /\ PickOK /\ BudgetOK
  OBVIOUS
<1>1. NumbersOK
  <2>1. shown = 0 /\ chosen = {} /\ todo = {}
    BY DEF Init
  <2> QED
    BY <2>1 DEF NumbersOK, LateNumbersTrue
<1>2. WarnedOK
  BY DEF Init, WarnedOK
<1>3. PickOK
  BY DEF Init, PickOK
<1>4. BudgetOK
  <2>1. Total(bytes) = 0
    BY PartsFinite, TotalOfZeros DEF Init
  <2>2. \A p \in Parts : got[p] <= bytes[p]
    <3>1. \A p \in Parts : got[p] = 0 /\ bytes[p] = 0
      BY DEF Init
    <3> QED
      BY <3>1
  <2>3. RowSum(rows) = 0
    <3>1. rows = {}
      BY DEF Init
    <3>2. IsFiniteSet(rows) /\ \A r \in rows : r.size \in Nat
      BY <3>1, FS_EmptySet
    <3>3. PICK g : IsSum(g, [r \in rows |-> r.size], rows) /\ RowSum(rows) = g[rows]
      BY <3>2, RowSumIs
    <3> QED
      BY <3>1, <3>3 DEF IsSum
  <2> QED
    BY <2>1, <2>2, <2>3, DownloadAssumption DEF BudgetOK
<1> QED
  BY <1>1, <1>2, <1>3, <1>4

LEMMA BudgetIsHeld ==
    ASSUME Inv, BudgetOK
    PROVE  BudgetHolds
<1>1. got \in [Parts -> Nat] /\ bytes \in [Parts -> Nat] /\ MaxBytes \in Nat
  BY DownloadAssumption DEF Inv, TypeOK
<1>2. Total(got) <= Total(bytes)
  BY <1>1, PartsFinite, TotalMonotone DEF BudgetOK
<1>3. Total(got) \in Nat /\ Total(bytes) \in Nat
  BY <1>1, PartsFinite, TotalNat
<1>4. Total(got) <= MaxBytes + 1
  BY <1>1, <1>2, <1>3 DEF BudgetOK
<1> QED
  BY <1>4 DEF BudgetOK, BudgetHolds, RowSum

-----------------------------------------------------------------------------
(* The theorems.                                                               *)

\* Every variable keeps its type; a download is delivered if and only if one row,
\* and no other, is primary (the file or the archive that _finalize_artifacts
\* puts first).
THEOREM TypeCorrect == Spec => []TypeOK
<1>1. Inv => TypeOK
  BY DEF Inv
<1> QED
  BY InitType, NextKeepsType, <1>1, PTL DEF Spec

\* The selector fetches what was picked, and a choice that build_choices has
\* offered can be fetched while the media stays as it was.
THEOREM PicksAreHonoured == Spec => []PickHonoured
<1>1. Inv /\ PickOK /\ [Next]_vars => Inv' /\ PickOK'
  BY NextKeepsType, NextKeepsPick
<1>2. Init => Inv /\ PickOK
  BY InitType, InitOthers
<1>3. Inv /\ PickOK => PickHonoured
  BY PickIsHonoured
<1> QED
  BY <1>1, <1>2, <1>3, PTL DEF Spec

\* The bytes that progress_hook has heard of bound what is on the disk, and the
\* sizes that _finalize_artifacts adds up bound what is published.
THEOREM BudgetIsKept == Spec => []BudgetHolds
<1>1. Inv /\ BudgetOK /\ [Next]_vars => Inv' /\ BudgetOK'
  BY NextKeepsType, NextKeepsBudget
<1>2. Init => Inv /\ BudgetOK
  BY InitType, InitOthers
<1>3. Inv /\ BudgetOK => BudgetHolds
  BY BudgetIsHeld
<1> QED
  BY <1>1, <1>2, <1>3, PTL DEF Spec

\* After match_filter, a hook or the handler of DownloadError has seen a cancel
\* request, nothing is delivered and the media is not blamed: the job ends as
\* cancelled, or as INTERNAL_ERROR where another exception leaves download.
THEOREM SeenCancelsEnd == Spec => []SeenCancelEnds
<1>1. WarnedOK => SeenCancelEnds
  BY DEF WarnedOK, SeenCancelEnds
<1>2. Init => WarnedOK
  BY InitOthers
<1>3. WarnedOK /\ [Next]_vars => WarnedOK'
  BY NextKeepsWarned
<1> QED
  BY <1>1, <1>2, <1>3, PTL DEF Spec

\* The numbers that set_job_postprocessing and postprocessor_hook write for a
\* single media are true.
THEOREM LateNumbersAreTrue == Spec => []LateNumbersTrue
<1>1. Inv /\ NumbersOK /\ [Next]_vars => Inv' /\ NumbersOK'
  BY NextKeepsType, NextKeepsNumbers
<1>2. Init => Inv /\ NumbersOK
  BY InitType, InitOthers
<1>3. NumbersOK => LateNumbersTrue
  BY DEF NumbersOK
<1> QED
  BY <1>1, <1>2, <1>3, PTL DEF Spec

===============================================================================
