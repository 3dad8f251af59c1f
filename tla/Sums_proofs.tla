---------------------------- MODULE Sums_proofs ----------------------------
(***************************************************************************)
(* What a total is and how it changes when one value does: the arithmetic  *)
(* every conservation theorem about balances rests on.                     *)
(***************************************************************************)
EXTENDS Sums, FiniteSetTheorems, TLAPS

\* The units of one owner.
LEMMA OwnUnits ==
    ASSUME NEW x, NEW n \in Nat
    PROVE  IsFiniteSet({x} \X (1 .. n)) /\ Cardinality({x} \X (1 .. n)) = n
<1>1. IsFiniteSet({x}) /\ Cardinality({x}) = 1
  BY FS_Singleton
<1>2. IsFiniteSet(1 .. n) /\ Cardinality(1 .. n) = n
  <2>1. /\ IsFiniteSet(1 .. n)
        /\ Cardinality(1 .. n) = IF 1 > n THEN 0 ELSE n - 1 + 1
    BY FS_Interval
  <2> QED
    BY <2>1
<1>3. /\ IsFiniteSet({x} \X (1 .. n))
      /\ Cardinality({x} \X (1 .. n)) = Cardinality({x}) * Cardinality(1 .. n)
  BY <1>1, <1>2, FS_Product
<1> QED
  BY <1>1, <1>2, <1>3

\* Units of another owner add to a set that has none of them.
LEMMA UnitsBeside ==
    ASSUME NEW R, IsFiniteSet(R), NEW x, NEW m \in Nat, R \cap ({x} \X (1 .. m)) = {}
    PROVE  Cardinality(R \cup ({x} \X (1 .. m))) = Cardinality(R) + m
<1> DEFINE T == {x} \X (1 .. m)
<1>1. IsFiniteSet(T) /\ Cardinality(T) = m
  BY OwnUnits
<1>2. Cardinality(R \cap T) = 0
  BY FS_EmptySet
<1> HIDE DEF T
<1>3. Cardinality(R \cup T) = Cardinality(R) + Cardinality(T) - Cardinality(R \cap T)
  BY <1>1, FS_Union
<1>4. Cardinality(R) \in Nat
  BY FS_CardinalityType
<1> QED
  BY <1>1, <1>2, <1>3, <1>4 DEF T

\* A total of finitely many natural numbers is a natural number.
LEMMA TotalType ==
    ASSUME NEW D, IsFiniteSet(D), NEW f \in [D -> Nat]
    PROVE  IsFiniteSet(Units(f)) /\ Total(f) \in Nat
<1> DEFINE Own == [x \in D |-> {x} \X (1 .. f[x])]
           All == {{x} \X (1 .. f[x]) : x \in D}
<1>1. Own \in Surjection(D, All)
  BY DEF Surjection
<1>2. IsFiniteSet(All)
  BY <1>1, FS_Surjection
<1>3. \A T \in All : IsFiniteSet(T)
  <2> SUFFICES ASSUME NEW x \in D PROVE IsFiniteSet({x} \X (1 .. f[x]))
    OBVIOUS
  <2> QED
    BY OwnUnits
<1>4. Units(f) = UNION All
  BY DEF Units
<1>5. IsFiniteSet(Units(f))
  BY <1>2, <1>3, <1>4, FS_UNION
<1> QED
  BY <1>5, FS_CardinalityType DEF Total

\* Changing one value changes the total by as much.
LEMMA TotalSet ==
    ASSUME NEW D, IsFiniteSet(D), NEW f \in [D -> Nat], NEW x \in D, NEW n \in Nat
    PROVE  Total([f EXCEPT ![x] = n]) = Total(f) - f[x] + n
<1> DEFINE g == [f EXCEPT ![x] = n]
           Rest == UNION {{y} \X (1 .. f[y]) : y \in D \ {x}}
<1>1. g \in [D -> Nat]
  OBVIOUS
<1>2. Units(f) = Rest \cup ({x} \X (1 .. f[x]))
  BY DEF Units
<1>3. Units(g) = Rest \cup ({x} \X (1 .. n))
  BY DEF Units
<1>4. IsFiniteSet(Rest)
  <2>1. Rest \subseteq Units(f)
    BY <1>2
  <2> QED
    BY <2>1, TotalType, FS_Subset
<1>5. \A m \in Nat : Cardinality(Rest \cup ({x} \X (1 .. m))) = Cardinality(Rest) + m
  <2> SUFFICES ASSUME NEW m \in Nat
               PROVE  Cardinality(Rest \cup ({x} \X (1 .. m))) = Cardinality(Rest) + m
    OBVIOUS
  <2>1. Rest \cap ({x} \X (1 .. m)) = {}
    OBVIOUS
  <2> QED
    BY <1>4, <2>1, UnitsBeside
<1>6. f[x] \in Nat /\ Cardinality(Rest) \in Nat
  BY <1>4, FS_CardinalityType
<1>7. Total(f) = Cardinality(Rest) + f[x]
  BY <1>2, <1>5, <1>6 DEF Total
<1>8. Total(g) = Cardinality(Rest) + n
  BY <1>3, <1>5 DEF Total
<1> QED
  BY <1>6, <1>7, <1>8

\* What the units of several owners are.
LEMMA UnitsAre ==
    ASSUME NEW f
    PROVE  /\ \A x, i : <<x, i>> \in Units(f) <=> x \in DOMAIN f /\ i \in 1 .. f[x]
           /\ \A p \in Units(f) : p = <<p[1], p[2]>>
  BY DEF Units

\* The total of the sums of two values is the sum of their totals.
LEMMA TotalPlus ==
    ASSUME NEW D, IsFiniteSet(D), NEW f \in [D -> Nat], NEW g \in [D -> Nat]
    PROVE  Total([x \in D |-> f[x] + g[x]]) = Total(f) + Total(g)
<1> DEFINE both == [x \in D |-> f[x] + g[x]]
           More == Units(both) \ Units(f)
           h == [p \in Units(g) |-> <<p[1], f[p[1]] + p[2]>>]
<1>1. both \in [D -> Nat]
  OBVIOUS
<1>2. IsFiniteSet(Units(f)) /\ IsFiniteSet(Units(g)) /\ IsFiniteSet(Units(both))
  BY <1>1, TotalType
<1>3. Units(f) \subseteq Units(both)
  <2> SUFFICES ASSUME NEW x \in D, NEW i \in 1 .. f[x] PROVE <<x, i>> \in Units(both)
    BY DEF Units
  <2>1. f[x] \in Nat /\ both[x] \in Nat /\ both[x] >= f[x]
    OBVIOUS
  <2> QED
    BY <2>1 DEF Units
<1>4. \A x \in D, i \in Int : <<x, i>> \in More <=> f[x] < i /\ i <= f[x] + g[x]
  <2> SUFFICES ASSUME NEW x \in D, NEW i \in Int
               PROVE  <<x, i>> \in More <=> f[x] < i /\ i <= f[x] + g[x]
    OBVIOUS
  <2>1. <<x, i>> \in Units(f) <=> i \in 1 .. f[x]
    BY DEF Units
  <2>2. <<x, i>> \in Units(both) <=> i \in 1 .. both[x]
    BY DEF Units
  <2>3. f[x] \in Nat /\ g[x] \in Nat /\ both[x] = f[x] + g[x]
    OBVIOUS
  <2> QED
    BY <2>1, <2>2, <2>3
<1>5. h \in Bijection(Units(g), More)
  <2>1. ASSUME NEW p \in Units(g)
        PROVE  /\ p = <<p[1], p[2]>> /\ p[1] \in D /\ p[2] \in 1 .. g[p[1]]
               /\ f[p[1]] \in Nat /\ g[p[1]] \in Nat /\ h[p] = <<p[1], f[p[1]] + p[2]>>
    BY DEF Units
  <2>2. ASSUME NEW p \in Units(g)
        PROVE  h[p] \in More
    <3>1. /\ p[1] \in D /\ h[p] = <<p[1], f[p[1]] + p[2]>>
          /\ f[p[1]] \in Nat /\ g[p[1]] \in Nat /\ p[2] \in 1 .. g[p[1]]
      BY <2>1
    <3>2. /\ f[p[1]] + p[2] \in Int /\ f[p[1]] < f[p[1]] + p[2]
          /\ f[p[1]] + p[2] <= f[p[1]] + g[p[1]]
      BY <3>1
    <3> HIDE DEF More, h
    <3> QED
      BY <1>4, <3>1, <3>2
  <2>3. ASSUME NEW p \in Units(g), NEW q \in Units(g), h[p] = h[q]
        PROVE  p = q
    <3>1. p[1] = q[1] /\ f[p[1]] + p[2] = f[q[1]] + q[2]
      BY <2>1, <2>3
    <3> HIDE DEF More, h
    <3>2. /\ p[2] \in 1 .. g[p[1]] /\ q[2] \in 1 .. g[q[1]]
          /\ f[p[1]] \in Nat /\ g[p[1]] \in Nat /\ g[q[1]] \in Nat
      BY <2>1
    <3>3. p[2] = q[2]
      BY <3>1, <3>2
    <3> QED
      BY <2>1, <3>1, <3>3
  <2>4. ASSUME NEW m \in More
        PROVE  \E p \in Units(g) : h[p] = m
    <3>1. PICK x \in D, i \in Int : m = <<x, i>>
      BY DEF Units
    <3>2. f[x] \in Nat /\ g[x] \in Nat /\ f[x] < i /\ i <= f[x] + g[x]
      BY <1>4, <3>1
    <3>3. <<x, i - f[x]>> \in Units(g)
      BY <3>2 DEF Units
    <3>4. h[<<x, i - f[x]>>] = <<x, f[x] + (i - f[x])>>
      BY <3>3
    <3> QED
      BY <3>1, <3>2, <3>3, <3>4
  <2>5. h \in [Units(g) -> More]
    BY <2>2
  <2> QED
    BY <2>3, <2>4, <2>5 DEF Bijection, Injection, Surjection, IsInjective
<1>6. Cardinality(More) = Cardinality(Units(g))
  <2>1. ExistsBijection(Units(g), More)
    BY <1>5 DEF ExistsBijection
  <2> QED
    BY <2>1, <1>2, FS_Bijection
<1>7. Cardinality(More) = Cardinality(Units(both)) - Cardinality(Units(f))
  <2>1. Units(both) \cap Units(f) = Units(f)
    BY <1>3
  <2> QED
    BY <2>1, <1>2, FS_Difference
<1>8. /\ Cardinality(Units(f)) \in Nat /\ Cardinality(Units(g)) \in Nat
      /\ Cardinality(Units(both)) \in Nat
  BY <1>2, FS_CardinalityType
<1> QED
  BY <1>6, <1>7, <1>8 DEF Total

\* Adding k to every value in W adds k for each of them to the total.
LEMMA TotalRaise ==
    ASSUME NEW D, IsFiniteSet(D), NEW f \in [D -> Nat], NEW W \in SUBSET D, NEW k \in Nat
    PROVE  Total([x \in D |-> f[x] + (IF x \in W THEN k ELSE 0)])
             = Total(f) + k * Cardinality(W)
<1> DEFINE g == [x \in D |-> IF x \in W THEN k ELSE 0]
<1>1. g \in [D -> Nat]
  OBVIOUS
<1>2. Units(g) = W \X (1 .. k)
  <2>1. ASSUME NEW p \in Units(g)
        PROVE  p \in W \X (1 .. k)
    <3>1. PICK x \in D : p \in {x} \X (1 .. g[x])
      BY DEF Units
    <3>2. x \in W
      BY <3>1
    <3> QED
      BY <3>1, <3>2
  <2>2. ASSUME NEW x \in W, NEW i \in 1 .. k
        PROVE  <<x, i>> \in Units(g)
    BY DEF Units
  <2> QED
    BY <2>1, <2>2
<1>3. IsFiniteSet(W) /\ IsFiniteSet(1 .. k) /\ Cardinality(1 .. k) = k
  <2>1. /\ IsFiniteSet(1 .. k)
        /\ Cardinality(1 .. k) = IF 1 > k THEN 0 ELSE k - 1 + 1
    BY FS_Interval
  <2> QED
    BY <2>1, FS_Subset
<1>4. Cardinality(W \X (1 .. k)) = Cardinality(W) * k /\ Cardinality(W) \in Nat
  BY <1>3, FS_Product, FS_CardinalityType
<1>5. Total(g) = k * Cardinality(W)
  <2>1. Total(g) = Cardinality(W \X (1 .. k))
    BY <1>2 DEF Total
  <2> HIDE DEF g
  <2> QED
    BY <1>4, <2>1
<1>6. [x \in D |-> f[x] + g[x]] = [x \in D |-> f[x] + (IF x \in W THEN k ELSE 0)]
  OBVIOUS
<1> HIDE DEF g
<1> QED
  BY <1>1, <1>5, <1>6, TotalPlus

\* The disjoint union of the sets that S gives the members of D.
Tagged(D, S) == UNION {{x} \X S[x] : x \in D}

LEMMA TaggedAre ==
    ASSUME NEW D, NEW S
    PROVE  /\ \A x, y : <<x, y>> \in Tagged(D, S) <=> x \in D /\ y \in S[x]
           /\ \A z \in Tagged(D, S) : z = <<z[1], z[2]>>
  BY DEF Tagged

\* The total of the sizes of some sets is the size of their disjoint union.
LEMMA TotalOfSizes ==
    ASSUME NEW D, IsFiniteSet(D), NEW S, NEW n \in [D -> Nat],
           \A x \in D : IsFiniteSet(S[x]) /\ n[x] = Cardinality(S[x])
    PROVE  IsFiniteSet(Tagged(D, S)) /\ Total(n) = Cardinality(Tagged(D, S))
<1> DEFINE tagged == Tagged(D, S)
           b == [x \in D |-> CHOOSE c : c \in Bijection(1 .. n[x], S[x])]
           h == [p \in Units(n) |-> <<p[1], b[p[1]][p[2]]>>]
<1>1. ASSUME NEW x \in D
      PROVE  b[x] \in Bijection(1 .. n[x], S[x])
  <2>1. \E c : c \in Bijection(1 .. n[x], S[x])
    BY FS_CardinalityType DEF ExistsBijection
  <2> QED
    BY <2>1
<1> HIDE DEF b
<1>2. ASSUME NEW p \in Units(n)
      PROVE  p = <<p[1], p[2]>> /\ p[1] \in D /\ p[2] \in 1 .. n[p[1]]
  BY DEF Units
<1>3. h \in [Units(n) -> tagged]
  <2> SUFFICES ASSUME NEW p \in Units(n) PROVE <<p[1], b[p[1]][p[2]]>> \in tagged
    OBVIOUS
  <2>1. b[p[1]][p[2]] \in S[p[1]]
    BY <1>1, <1>2 DEF Bijection, Injection
  <2> QED
    BY <1>2, <2>1, TaggedAre
<1>4. ASSUME NEW p \in Units(n), NEW q \in Units(n), h[p] = h[q]
      PROVE  p = q
  <2>1. p[1] = q[1] /\ b[p[1]][p[2]] = b[q[1]][q[2]]
    BY <1>4
  <2>2. b[p[1]] \in Bijection(1 .. n[p[1]], S[p[1]])
    BY <1>1, <1>2
  <2>3. \A i, j \in 1 .. n[p[1]] : b[p[1]][i] = b[p[1]][j] => i = j
    BY <2>2 DEF Bijection, Injection, IsInjective
  <2>4. p[2] = q[2]
    BY <1>2, <2>1, <2>3
  <2> QED
    BY <1>2, <2>1, <2>4
<1>5. ASSUME NEW z \in tagged
      PROVE  \E p \in Units(n) : h[p] = z
  <2>1. PICK x \in D : \E y \in S[x] : z = <<x, y>>
    BY TaggedAre
  <2>2. PICK y \in S[x] : z = <<x, y>>
    BY <2>1
  <2>3. PICK i \in 1 .. n[x] : b[x][i] = y
    BY <1>1 DEF Bijection, Surjection
  <2>4. <<x, i>> \in Units(n)
    BY DEF Units
  <2> QED
    BY <2>2, <2>3, <2>4
<1>6. ExistsBijection(Units(n), tagged)
  <2>1. h \in Bijection(Units(n), tagged)
    BY <1>3, <1>4, <1>5 DEF Bijection, Injection, Surjection, IsInjective
  <2> QED
    BY <2>1 DEF ExistsBijection
<1>7. IsFiniteSet(Units(n))
  BY TotalType
<1>8. IsFiniteSet(tagged) /\ Cardinality(tagged) = Cardinality(Units(n))
  BY <1>6, <1>7, FS_Bijection
<1> QED
  BY <1>8 DEF Total

\* A table's total is the same by rows as by columns.
LEMMA TotalSwap ==
    ASSUME NEW D, IsFiniteSet(D), NEW E, IsFiniteSet(E),
           NEW m \in [D -> [E -> Nat]],
           NEW f \in [D -> Nat], \A x \in D : f[x] = Total(m[x]),
           NEW g \in [E -> Nat], \A y \in E : g[y] = Total([x \in D |-> m[x][y]])
    PROVE  Total(f) = Total(g)
<1> DEFINE n == [y \in E |-> [x \in D |-> m[x][y]]]
<1>0. /\ n \in [E -> [D -> Nat]] /\ \A x \in D, y \in E : n[y][x] = m[x][y]
      /\ \A y \in E : g[y] = Total(n[y])
  OBVIOUS
<1> HIDE DEF n
<1> DEFINE rows == [x \in D |-> Units(m[x])]
           columns == [y \in E |-> Units(n[y])]
           byRow == Tagged(D, rows)
           byColumn == Tagged(E, columns)
           h == [p \in byRow |-> <<p[2][1], <<p[1], p[2][2]>>>>]
<1>1. \A x \in D : IsFiniteSet(rows[x]) /\ f[x] = Cardinality(rows[x])
  BY TotalType DEF Total
<1>2. \A y \in E : IsFiniteSet(columns[y]) /\ g[y] = Cardinality(columns[y])
  BY <1>0, TotalType DEF Total
<1>3. IsFiniteSet(byRow) /\ Total(f) = Cardinality(byRow)
  <2> HIDE DEF rows
  <2> QED
    BY <1>1, TotalOfSizes
<1>4. IsFiniteSet(byColumn) /\ Total(g) = Cardinality(byColumn)
  <2> HIDE DEF columns
  <2> QED
    BY <1>2, TotalOfSizes
<1>5. \A x \in D, y \in E, i \in Nat : <<x, <<y, i>>>> \in byRow <=> i \in 1 .. m[x][y]
  BY <1>0, UnitsAre, TaggedAre
<1>6. \A x \in D, y \in E, i \in Nat : <<y, <<x, i>>>> \in byColumn <=> i \in 1 .. m[x][y]
  BY <1>0, UnitsAre, TaggedAre
<1>7. \A p \in byRow : \E x \in D, y \in E, i \in Nat : p = <<x, <<y, i>>>>
  BY <1>0, UnitsAre, TaggedAre
<1>8. \A q \in byColumn : \E x \in D, y \in E, i \in Nat : q = <<y, <<x, i>>>>
  BY <1>0, UnitsAre, TaggedAre
<1> HIDE DEF byRow, byColumn
<1>9. h \in [byRow -> byColumn]
  <2> SUFFICES ASSUME NEW p \in byRow PROVE <<p[2][1], <<p[1], p[2][2]>>>> \in byColumn
    OBVIOUS
  <2>1. PICK x \in D, y \in E, i \in Nat : p = <<x, <<y, i>>>>
    BY <1>7
  <2> QED
    BY <1>5, <1>6, <2>1
<1>10. ASSUME NEW p \in byRow, NEW q \in byRow, h[p] = h[q]
       PROVE  p = q
  <2>1. PICK x \in D, y \in E, i \in Nat : p = <<x, <<y, i>>>>
    BY <1>7
  <2>2. PICK v \in D, w \in E, j \in Nat : q = <<v, <<w, j>>>>
    BY <1>7
  <2>3. h[p] = <<y, <<x, i>>>> /\ h[q] = <<w, <<v, j>>>>
    BY <2>1, <2>2
  <2> QED
    BY <1>10, <2>1, <2>2, <2>3
<1>11. ASSUME NEW q \in byColumn
       PROVE  \E p \in byRow : h[p] = q
  <2>1. PICK x \in D, y \in E, i \in Nat : q = <<y, <<x, i>>>>
    BY <1>8
  <2>2. <<x, <<y, i>>>> \in byRow
    BY <1>5, <1>6, <2>1
  <2>3. h[<<x, <<y, i>>>>] = q
    BY <2>1, <2>2
  <2> QED
    BY <2>2, <2>3
<1>12. ExistsBijection(byRow, byColumn)
  <2>1. h \in Bijection(byRow, byColumn)
    BY <1>9, <1>10, <1>11 DEF Bijection, Injection, Surjection, IsInjective
  <2> QED
    BY <2>1 DEF ExistsBijection
<1>13. Cardinality(byRow) = Cardinality(byColumn)
  BY <1>3, <1>12, FS_Bijection
<1> QED
  BY <1>3, <1>4, <1>13

\* A total over a part of the owners, as a total over all of them.
LEMMA TotalOnMasked ==
    ASSUME NEW D, NEW f \in [D -> Nat], NEW S
    PROVE  TotalOn(f, S) = Total([x \in D |-> IF x \in S THEN f[x] ELSE 0])
<1> DEFINE part == [x \in D \cap S |-> f[x]]
           masked == [x \in D |-> IF x \in S THEN f[x] ELSE 0]
<1>1. Units(part) \subseteq Units(masked)
  <2> SUFFICES ASSUME NEW x \in D \cap S, NEW i \in 1 .. f[x]
               PROVE  <<x, i>> \in Units(masked)
    BY DEF Units
  <2>1. masked[x] = f[x]
    OBVIOUS
  <2> QED
    BY <2>1 DEF Units
<1>2. Units(masked) \subseteq Units(part)
  <2> SUFFICES ASSUME NEW x \in D, NEW i \in 1 .. masked[x]
               PROVE  <<x, i>> \in Units(part)
    BY DEF Units
  <2>1. x \in S /\ masked[x] = f[x]
    OBVIOUS
  <2> QED
    BY <2>1 DEF Units
<1>3. DOMAIN f = D
  OBVIOUS
<1>4. TotalOn(f, S) = Total(part)
  BY <1>3 DEF TotalOn
<1>5. Units(part) = Units(masked)
  BY <1>1, <1>2
<1>6. Total(part) = Total(masked)
  BY <1>5 DEF Total
<1> QED
  BY <1>4, <1>6

\* It is a natural number.
LEMMA TotalOnType ==
    ASSUME NEW D, IsFiniteSet(D), NEW f \in [D -> Nat], NEW S
    PROVE  TotalOn(f, S) \in Nat
<1> DEFINE masked == [x \in D |-> IF x \in S THEN f[x] ELSE 0]
<1>1. masked \in [D -> Nat]
  OBVIOUS
<1>2. Total(masked) \in Nat
  BY <1>1, TotalType
<1> QED
  BY <1>2, TotalOnMasked

\* When one owner's value changes, or the owner joins or leaves the part, the
\* total moves by what that owner counted for and counts for now.
LEMMA TotalOnMove ==
    ASSUME NEW D, IsFiniteSet(D), NEW f \in [D -> Nat], NEW g \in [D -> Nat],
           NEW S, NEW T, NEW x \in D,
           \A y \in D \ {x} : g[y] = f[y] /\ (y \in T <=> y \in S)
    PROVE  TotalOn(g, T) = TotalOn(f, S) - (IF x \in S THEN f[x] ELSE 0)
                                         + (IF x \in T THEN g[x] ELSE 0)
<1> DEFINE before == [y \in D |-> IF y \in S THEN f[y] ELSE 0]
           after == [y \in D |-> IF y \in T THEN g[y] ELSE 0]
           n == IF x \in T THEN g[x] ELSE 0
<1>1. before \in [D -> Nat] /\ n \in Nat
  OBVIOUS
<1>2. after = [before EXCEPT ![x] = n]
  OBVIOUS
<1>3. Total(after) = Total(before) - before[x] + n
  BY <1>1, <1>2, TotalSet
<1>4. before[x] = IF x \in S THEN f[x] ELSE 0
  OBVIOUS
<1> QED
  BY <1>3, <1>4, TotalOnMasked

\* The total is at least what any one of them counts for.
LEMMA TotalOnCovers ==
    ASSUME NEW D, IsFiniteSet(D), NEW f \in [D -> Nat], NEW S, NEW x \in D, x \in S
    PROVE  TotalOn(f, S) >= f[x]
<1> DEFINE Rest == S \ {x}
<1>1. x \notin Rest /\ \A y \in D \ {x} : f[y] = f[y] /\ (y \in Rest <=> y \in S)
  OBVIOUS
<1> HIDE DEF Rest
<1>2. TotalOn(f, Rest) = TotalOn(f, S) - (IF x \in S THEN f[x] ELSE 0)
                                       + (IF x \in Rest THEN f[x] ELSE 0)
  BY <1>1, TotalOnMove
<1>3. TotalOn(f, Rest) \in Nat /\ TotalOn(f, S) \in Nat /\ f[x] \in Nat
  BY TotalOnType
<1> QED
  BY <1>1, <1>2, <1>3

\* Owners who all have nothing have nothing in total.
LEMMA TotalOfZeros ==
    ASSUME NEW D, NEW f \in [D -> Nat], \A x \in D : f[x] = 0
    PROVE  Total(f) = 0
<1>1. Units(f) = {}
  BY DEF Units
<1> QED
  BY <1>1, FS_EmptySet DEF Total

LEMMA TotalOnZeros ==
    ASSUME NEW D, NEW f \in [D -> Nat], NEW S, \A x \in D : x \in S => f[x] = 0
    PROVE  TotalOn(f, S) = 0
<1> DEFINE masked == [x \in D |-> IF x \in S THEN f[x] ELSE 0]
<1>1. masked \in [D -> Nat] /\ \A x \in D : masked[x] = 0
  OBVIOUS
<1>2. Total(masked) = 0
  BY <1>1, TotalOfZeros
<1> QED
  BY <1>2, TotalOnMasked

\* A total is the total of its parts, each owner being in the part of one.
LEMMA TotalOfParts ==
    ASSUME NEW D, IsFiniteSet(D), NEW E, IsFiniteSet(E), NEW f \in [D -> Nat],
           NEW part \in [E -> SUBSET D],
           \A x \in D, y, z \in E : x \in part[y] /\ x \in part[z] => y = z,
           NEW all, \A x \in D : x \in all <=> \E y \in E : x \in part[y],
           NEW g \in [E -> Nat], \A y \in E : g[y] = TotalOn(f, part[y])
    PROVE  Total(g) = TotalOn(f, all)
<1> DEFINE units == [y \in E |-> Units([x \in D \cap part[y] |-> f[x]])]
           tagged == Tagged(E, units)
           whole == [x \in D \cap all |-> f[x]]
           h == [p \in tagged |-> p[2]]
<1>1. \A y \in E : IsFiniteSet(units[y])
  <2> SUFFICES ASSUME NEW y \in E PROVE IsFiniteSet(Units([x \in D \cap part[y] |-> f[x]]))
    OBVIOUS
  <2>1. IsFiniteSet(D \cap part[y])
    BY FS_Subset
  <2>2. [x \in D \cap part[y] |-> f[x]] \in [D \cap part[y] -> Nat]
    OBVIOUS
  <2> QED
    BY <2>1, <2>2, TotalType
<1>2. IsFiniteSet(tagged) /\ Total(g) = Cardinality(tagged)
  <2>1. \A y \in E : g[y] = Cardinality(units[y])
    BY DEF TotalOn, Total
  <2> HIDE DEF units
  <2> QED
    BY <1>1, <2>1, TotalOfSizes
<1>3. \A p \in tagged : \E y \in E, x \in D, i \in Nat :
         p = <<y, <<x, i>>>> /\ x \in part[y] /\ i \in 1 .. f[x]
  <2> SUFFICES ASSUME NEW p \in tagged
               PROVE  \E y \in E, x \in D, i \in Nat :
                         p = <<y, <<x, i>>>> /\ x \in part[y] /\ i \in 1 .. f[x]
    OBVIOUS
  <2>1. p = <<p[1], p[2]>> /\ p[1] \in E /\ p[2] \in units[p[1]]
    <3> HIDE DEF units
    <3> QED
      BY TaggedAre
  <2>2. p[2] \in Units([x \in D \cap part[p[1]] |-> f[x]])
    BY <2>1
  <2>3. /\ p[2] = <<p[2][1], p[2][2]>>
        /\ p[2][1] \in D \cap part[p[1]] /\ p[2][2] \in 1 .. f[p[2][1]]
    BY <2>2, UnitsAre
  <2> HIDE DEF tagged
  <2> QED
    BY <2>1, <2>3
<1>4. \A y \in E, x \in D, i \in Nat : x \in part[y] /\ i \in 1 .. f[x] => <<y, <<x, i>>>> \in tagged
  <2> SUFFICES ASSUME NEW y \in E, NEW x \in D, NEW i, x \in part[y], i \in 1 .. f[x]
               PROVE  <<y, <<x, i>>>> \in tagged
    OBVIOUS
  <2>1. <<x, i>> \in Units([w \in D \cap part[y] |-> f[w]])
    BY UnitsAre
  <2>2. <<x, i>> \in units[y]
    BY <2>1
  <2> HIDE DEF units
  <2> QED
    BY <2>2, TaggedAre
<1>5. \A x \in D, i \in Nat : x \in all /\ i \in 1 .. f[x] <=> <<x, i>> \in Units(whole)
  BY UnitsAre
<1>6. \A q \in Units(whole) : \E x \in D, i \in Nat : q = <<x, i>>
  BY UnitsAre
<1> HIDE DEF tagged, whole
<1>7. h \in [tagged -> Units(whole)]
  <2> SUFFICES ASSUME NEW p \in tagged PROVE p[2] \in Units(whole)
    OBVIOUS
  <2>1. PICK y \in E, x \in D, i \in Nat : p = <<y, <<x, i>>>> /\ x \in part[y] /\ i \in 1 .. f[x]
    BY <1>3
  <2> QED
    BY <1>5, <2>1
<1>8. ASSUME NEW p \in tagged, NEW q \in tagged, h[p] = h[q]
      PROVE  p = q
  <2>1. PICK y \in E, x \in D, i \in Nat : p = <<y, <<x, i>>>> /\ x \in part[y]
    BY <1>3
  <2>2. PICK z \in E, w \in D, j \in Nat : q = <<z, <<w, j>>>> /\ w \in part[z]
    BY <1>3
  <2>3. h[p] = <<x, i>> /\ h[q] = <<w, j>>
    BY <2>1, <2>2
  <2>4. x = w /\ i = j
    BY <1>8, <2>3
  <2> QED
    BY <2>1, <2>2, <2>4
<1>9. ASSUME NEW q \in Units(whole)
       PROVE  \E p \in tagged : h[p] = q
  <2>1. PICK x \in D, i \in Nat : q = <<x, i>>
    BY <1>6
  <2>2. PICK y \in E : x \in part[y] /\ i \in 1 .. f[x]
    BY <1>5, <2>1
  <2>3. <<y, <<x, i>>>> \in tagged
    BY <1>4, <2>2
  <2>4. h[<<y, <<x, i>>>>] = q
    BY <2>1, <2>3
  <2> QED
    BY <2>3, <2>4
<1>10. ExistsBijection(tagged, Units(whole))
  <2>1. h \in Bijection(tagged, Units(whole))
    BY <1>7, <1>8, <1>9 DEF Bijection, Injection, Surjection, IsInjective
  <2> QED
    BY <2>1 DEF ExistsBijection
<1>11. Cardinality(Units(whole)) = Cardinality(tagged)
  BY <1>2, <1>10, FS_Bijection
<1>12. TotalOn(f, all) = Cardinality(Units(whole))
  BY DEF TotalOn, Total, whole
<1> QED
  BY <1>2, <1>11, <1>12
=============================================================================
