------------------------ MODULE ContractCount_proof ------------------------
(***************************************************************************)
(* Sums of contracts: they are integers, and change with one entry by what *)
(* that entry changes.                                                     *)
(***************************************************************************)
EXTENDS ContractCount, FiniteSetTheorems, FunctionTheorems, TLAPS

Column(x, n) == {x} \X (1..n)
Up(n) == IF n > 0 THEN n ELSE 0

LEMMA ColumnCount ==
    ASSUME NEW x, NEW n \in Int
    PROVE  IsFiniteSet(Column(x, n)) /\ Cardinality(Column(x, n)) = Up(n)
<1>1. IsFiniteSet({x}) /\ Cardinality({x}) = 1
    BY FS_Singleton
<1>2. IsFiniteSet(1..n) /\ Cardinality(1..n) = Up(n)
    <2>1. IsFiniteSet(1..n) /\ Cardinality(1..n) = IF 1 > n THEN 0 ELSE n - 1 + 1
        BY FS_Interval
    <2> QED
        BY <2>1 DEF Up
<1>3. Up(n) \in Int
    BY DEF Up
<1>4. IsFiniteSet({x} \X (1..n)) /\ Cardinality({x} \X (1..n)) = Cardinality({x}) * Cardinality(1..n)
    BY <1>1, <1>2, FS_Product
<1> QED
    BY <1>1, <1>2, <1>3, <1>4 DEF Column

(* Finitely many entries count up finitely many units.                     *)
LEMMA UnitsFinite ==
    ASSUME NEW S, IsFiniteSet(S), NEW f \in [S -> Int]
    PROVE  IsFiniteSet(Units(f)) /\ Cardinality(Units(f)) \in Nat
<1> DEFINE g == [s \in S |-> Column(s, f[s])]
<1>1. DOMAIN f = S
    OBVIOUS
<1>2. PICK T : T = Range(g)
    OBVIOUS
<1>3. g \in [S -> {g[s] : s \in S}]
    OBVIOUS
<1>4. IsFiniteSet(T)
    <2>1. g \in Surjection(S, Range(g))
        BY <1>3, Fun_RangeProperties
    <2> QED
        BY <1>2, <2>1, FS_Surjection
<1>5. T = {Column(s, f[s]) : s \in S}
    BY <1>2 DEF Range
<1>6. \A C \in T : IsFiniteSet(C)
    <2> HIDE DEF g
    <2> SUFFICES ASSUME NEW C \in T PROVE IsFiniteSet(C)
        OBVIOUS
    <2>1. PICK s \in S : C = Column(s, f[s])
        BY <1>5
    <2>2. f[s] \in Int
        OBVIOUS
    <2> QED
        BY <2>1, <2>2, ColumnCount
<1>7. Units(f) = UNION T
    BY <1>1, <1>5 DEF Units, Column
<1>8. IsFiniteSet(Units(f))
    BY <1>4, <1>6, <1>7, FS_UNION
<1> QED
    BY <1>8, FS_CardinalityType

LEMMA UnitsMember ==
    ASSUME NEW S, NEW f \in [S -> Int], NEW u
    PROVE  u \in Units(f) <=> \E s \in S : u \in Column(s, f[s])
BY DEF Units, Column

(* The units of one entry, and those of the others.                        *)
Others(f, x) == {u \in Units(f) : u \notin Column(x, f[x])}

LEMMA UnitsSplit ==
    ASSUME NEW S, IsFiniteSet(S), NEW f \in [S -> Int], NEW x \in S
    PROVE  /\ IsFiniteSet(Others(f, x)) /\ Cardinality(Others(f, x)) \in Nat
           /\ Cardinality(Units(f)) = Cardinality(Others(f, x)) + Up(f[x])
           /\ \A u : u \in Others(f, x) <=> \E s \in S \ {x} : u \in Column(s, f[s])
<1> DEFINE C == Column(x, f[x])
           U == Units(f)
           O == {u \in U : u \notin C}
<1>1. f[x] \in Int
    OBVIOUS
<1>2. IsFiniteSet(C) /\ Cardinality(C) = Up(f[x])
    BY <1>1, ColumnCount
<1>3. IsFiniteSet(U)
    BY UnitsFinite
<1>4. C \subseteq U
    BY UnitsMember
<1>5. \A s \in S \ {x} : \A u \in Column(s, f[s]) : u \notin C
    BY DEF Column
<1>6. \A u : u \in O <=> \E s \in S \ {x} : u \in Column(s, f[s])
    <2> SUFFICES ASSUME NEW u PROVE u \in O <=> \E s \in S \ {x} : u \in Column(s, f[s])
        OBVIOUS
    <2>1. u \in U <=> \E s \in S : u \in Column(s, f[s])
        BY UnitsMember
    <2> HIDE DEF U
    <2>2. ASSUME u \in O PROVE \E s \in S \ {x} : u \in Column(s, f[s])
        BY <2>1, <2>2
    <2>3. ASSUME NEW s \in S \ {x}, u \in Column(s, f[s]) PROVE u \in O
        BY <2>1, <2>3, <1>5
    <2> QED
        BY <2>2, <2>3
<1> HIDE DEF U, C
<1>7. IsFiniteSet(O) /\ Cardinality(O) \in Nat
    BY <1>3, FS_Subset, FS_CardinalityType
<1>8. O \cap C = {} /\ O \cup C = U
    BY <1>4
<1>9. Cardinality(U) = Cardinality(O) + Up(f[x])
    <2>1. Cardinality(O \cup C) = Cardinality(O) + Cardinality(C) - Cardinality(O \cap C)
        BY <1>2, <1>7, FS_Union
    <2>2. Cardinality(O \cap C) = 0
        BY <1>8, FS_EmptySet
    <2>3. Up(f[x]) \in Int
        BY <1>1 DEF Up
    <2>4. Cardinality(U) = Cardinality(O) + Up(f[x]) - 0
        BY <1>2, <1>8, <2>1, <2>2
    <2> HIDE DEF O
    <2> QED
        BY <1>7, <2>3, <2>4
<1> QED
    BY <1>6, <1>7, <1>9 DEF U, C, Others

(* Changing one entry changes the count by what the entry counts up.       *)
LEMMA UnitsChange ==
    ASSUME NEW S, IsFiniteSet(S), NEW f \in [S -> Int], NEW g \in [S -> Int], NEW x \in S,
           \A s \in S \ {x} : g[s] = f[s]
    PROVE  Cardinality(Units(g)) = Cardinality(Units(f)) + Up(g[x]) - Up(f[x])
<1> DEFINE F == Others(f, x)
           G == Others(g, x)
<1>1. /\ Cardinality(F) \in Nat
      /\ Cardinality(Units(f)) = Cardinality(F) + Up(f[x])
      /\ \A u : u \in F <=> \E s \in S \ {x} : u \in Column(s, f[s])
    BY UnitsSplit
<1>2. /\ Cardinality(Units(g)) = Cardinality(G) + Up(g[x])
      /\ \A u : u \in G <=> \E s \in S \ {x} : u \in Column(s, g[s])
    BY UnitsSplit
<1> HIDE DEF F, G
<1>3. \A u : u \in F <=> u \in G
    BY <1>1, <1>2
<1>4. F = G
    BY <1>3
<1>5. Up(f[x]) \in Int /\ Up(g[x]) \in Int
    BY DEF Up
<1> QED
    BY <1>1, <1>2, <1>4, <1>5

Negated(f) == [s \in DOMAIN f |-> -f[s]]

(* A sum is an integer, and one that counts nothing down a natural.        *)
LEMMA SumType ==
    ASSUME NEW S, IsFiniteSet(S), NEW f \in [S -> Int]
    PROVE  Sum(f) \in Int
<1>1. Negated(f) \in [S -> Int]
    BY DEF Negated
<1>2. Cardinality(Units(f)) \in Nat /\ Cardinality(Units(Negated(f))) \in Nat
    BY <1>1, UnitsFinite
<1> QED
    BY <1>2 DEF Sum, Negated

LEMMA NoUnits ==
    ASSUME NEW S, NEW f \in [S -> Int], \A s \in S : f[s] <= 0
    PROVE  Units(f) = {} /\ Cardinality(Units(f)) = 0
<1>1. \A s \in S : Column(s, f[s]) = {}
    <2> SUFFICES ASSUME NEW s \in S PROVE Column(s, f[s]) = {}
        OBVIOUS
    <2>1. f[s] \in Int /\ f[s] <= 0
        OBVIOUS
    <2>2. 1..f[s] = {}
        BY <2>1
    <2> QED
        BY <2>2 DEF Column
<1>2. \A u : u \notin Units(f)
    BY <1>1, UnitsMember
<1>3. Units(f) = {}
    BY <1>2
<1> QED
    BY <1>3, FS_EmptySet

LEMMA SumNat ==
    ASSUME NEW S, IsFiniteSet(S), NEW f \in [S -> Int], \A s \in S : f[s] >= 0
    PROVE  Sum(f) \in Nat
<1>1. Negated(f) \in [S -> Int] /\ \A s \in S : Negated(f)[s] <= 0
    BY DEF Negated
<1>2. Cardinality(Units(Negated(f))) = 0
    BY <1>1, NoUnits
<1>3. Cardinality(Units(f)) \in Nat
    BY UnitsFinite
<1> QED
    BY <1>2, <1>3 DEF Sum, Negated

LEMMA SumZero ==
    ASSUME NEW S, NEW f \in [S -> Int], \A s \in S : f[s] = 0
    PROVE  Sum(f) = 0
<1>1. Negated(f) \in [S -> Int] /\ \A s \in S : Negated(f)[s] <= 0
    BY DEF Negated
<1>2. Cardinality(Units(Negated(f))) = 0
    BY <1>1, NoUnits
<1>3. Cardinality(Units(f)) = 0
    BY NoUnits
<1> QED
    BY <1>2, <1>3 DEF Sum, Negated

(* What the models need of sums: a change of one entry is the change of    *)
(* the sum.                                                                *)
THEOREM SumChange ==
    ASSUME NEW S, IsFiniteSet(S), NEW f \in [S -> Int], NEW g \in [S -> Int], NEW x \in S,
           \A s \in S \ {x} : g[s] = f[s]
    PROVE  Sum(g) = Sum(f) + g[x] - f[x]
<1> DEFINE F == Negated(f)
           G == Negated(g)
<1>1. F \in [S -> Int] /\ G \in [S -> Int] /\ \A s \in S \ {x} : G[s] = F[s]
    BY DEF Negated
<1>2. G[x] = -g[x] /\ F[x] = -f[x]
    BY DEF Negated
<1> HIDE DEF F, G
<1>3. Cardinality(Units(g)) = Cardinality(Units(f)) + Up(g[x]) - Up(f[x])
    BY UnitsChange
<1>4. Cardinality(Units(G)) = Cardinality(Units(F)) + Up(G[x]) - Up(F[x])
    BY <1>1, UnitsChange
<1>5. Cardinality(Units(f)) \in Nat /\ Cardinality(Units(F)) \in Nat
    BY <1>1, UnitsFinite
<1>6. Sum(f) = Cardinality(Units(f)) - Cardinality(Units(F))
    BY DEF Sum, F, Negated
<1>7. Sum(g) = Cardinality(Units(g)) - Cardinality(Units(G))
    BY DEF Sum, G, Negated
<1>8. f[x] \in Int /\ g[x] \in Int
    OBVIOUS
<1>9. Up(f[x]) - Up(F[x]) = f[x] /\ Up(g[x]) - Up(G[x]) = g[x]
    BY <1>2, <1>8 DEF Up
<1>10. Up(f[x]) \in Int /\ Up(F[x]) \in Int /\ Up(g[x]) \in Int /\ Up(G[x]) \in Int
    BY <1>2, <1>8 DEF Up
<1> QED
    BY <1>3, <1>4, <1>5, <1>6, <1>7, <1>8, <1>9, <1>10
(* Where nothing counts down, a sum is its number of units.                *)
LEMMA SumUnits ==
    ASSUME NEW S, IsFiniteSet(S), NEW f \in [S -> Nat]
    PROVE  /\ f \in [S -> Int] /\ IsFiniteSet(Units(f))
           /\ Sum(f) = Cardinality(Units(f)) /\ Sum(f) \in Nat
<1>1. f \in [S -> Int] /\ \A s \in S : f[s] >= 0
    OBVIOUS
<1>2. Negated(f) \in [S -> Int] /\ \A s \in S : Negated(f)[s] <= 0
    BY <1>1 DEF Negated
<1>3. Cardinality(Units(Negated(f))) = 0
    BY <1>2, NoUnits
<1>4. IsFiniteSet(Units(f)) /\ Cardinality(Units(f)) \in Nat
    BY <1>1, UnitsFinite
<1> QED
    BY <1>1, <1>3, <1>4 DEF Sum, Negated

(* The larger the entries, the larger the sum.                             *)
LEMMA SumGrows ==
    ASSUME NEW S, IsFiniteSet(S), NEW f \in [S -> Nat], NEW g \in [S -> Nat],
           \A s \in S : f[s] <= g[s]
    PROVE  Sum(f) <= Sum(g)
<1>1. Units(f) \subseteq Units(g)
    <2> SUFFICES ASSUME NEW u \in Units(f) PROVE u \in Units(g)
        OBVIOUS
    <2>1. PICK s \in S : u \in Column(s, f[s])
        BY SumUnits, UnitsMember
    <2>2. u \in Column(s, g[s])
        <3>1. f[s] \in Nat /\ g[s] \in Nat /\ f[s] <= g[s]
            OBVIOUS
        <3>2. 1..f[s] \subseteq 1..g[s]
            BY <3>1
        <3> QED
            BY <2>1, <3>2 DEF Column
    <2> QED
        BY <2>2, SumUnits, UnitsMember
<1>2. Cardinality(Units(f)) <= Cardinality(Units(g))
    BY <1>1, SumUnits, FS_Subset
<1> QED
    BY <1>2, SumUnits

(* No entry is more than the sum.                                          *)
LEMMA SumElement ==
    ASSUME NEW S, IsFiniteSet(S), NEW f \in [S -> Nat], NEW x \in S
    PROVE  f[x] <= Sum(f)
<1> DEFINE g == [f EXCEPT ![x] = 0]
<1>1. g \in [S -> Nat] /\ g[x] = 0 /\ \A s \in S \ {x} : g[s] = f[s]
    OBVIOUS
<1> HIDE DEF g
<1>2. f \in [S -> Int] /\ g \in [S -> Int] /\ Sum(f) \in Nat /\ Sum(g) \in Nat /\ f[x] \in Nat
    BY <1>1, SumUnits
<1>3. Sum(g) = Sum(f) + g[x] - f[x]
    BY <1>1, <1>2, SumChange
<1> QED
    BY <1>1, <1>2, <1>3

(* One entry more.                                                         *)
LEMMA SumMore ==
    ASSUME NEW S, IsFiniteSet(S), NEW x, x \notin S,
           NEW f \in [S -> Nat], NEW g \in [S \cup {x} -> Nat], \A s \in S : g[s] = f[s]
    PROVE  Sum(g) = Sum(f) + g[x]
<1> DEFINE X == S \cup {x}
<1>1. IsFiniteSet(X)
    BY FS_AddElement
<1>2. x \in X /\ X \ {x} = S /\ g \in [X -> Nat] /\ g[x] \in Nat
    OBVIOUS
<1>3. g \in [X -> Int] /\ Sum(g) = Cardinality(Units(g)) /\ Sum(f) = Cardinality(Units(f)) /\ Sum(f) \in Nat
      /\ f \in [S -> Int]
    BY <1>1, <1>2, SumUnits
<1>4. /\ Cardinality(Units(g)) = Cardinality(Others(g, x)) + Up(g[x])
      /\ \A u : u \in Others(g, x) <=> \E s \in S : u \in Column(s, g[s])
    BY <1>1, <1>2, <1>3, UnitsSplit
<1>5. \A u : u \in Units(f) <=> u \in Others(g, x)
    BY <1>3, <1>4, UnitsMember
<1>6. Units(f) = Others(g, x)
    BY <1>5
<1>7. Up(g[x]) = g[x]
    BY <1>2 DEF Up
<1> QED
    BY <1>3, <1>4, <1>6, <1>7

(* Entry by entry the sum of two is the sum of their sums.                 *)
LEMMA SumPlus ==
    ASSUME NEW S, IsFiniteSet(S), NEW f \in [S -> Nat], NEW g \in [S -> Nat], NEW h \in [S -> Nat],
           \A s \in S : h[s] = f[s] + g[s]
    PROVE  Sum(h) = Sum(f) + Sum(g)
<1> DEFINE T == Units(h) \ Units(f)
           move == [u \in Units(g) |-> <<u[1], f[u[1]] + u[2]>>]
<1>1. /\ \A u : u \in Units(f) <=> \E s \in S : u \in Column(s, f[s])
      /\ \A u : u \in Units(g) <=> \E s \in S : u \in Column(s, g[s])
      /\ \A u : u \in Units(h) <=> \E s \in S : u \in Column(s, h[s])
    BY SumUnits, UnitsMember
<1>2. \A s \in S : f[s] \in Nat /\ g[s] \in Nat /\ h[s] \in Nat /\ h[s] = f[s] + g[s]
    OBVIOUS
<1>3. \A s, i, n : <<s, i>> \in Column(s, n) <=> i \in 1..n
    BY DEF Column
<1>4. \A u, s, n : u \in Column(s, n) => u = <<s, u[2]>> /\ u[1] = s /\ u[2] \in 1..n
    BY DEF Column
<1>5. ASSUME NEW u \in Units(g)
      PROVE  /\ u[1] \in S /\ u[2] \in 1..g[u[1]] /\ u = <<u[1], u[2]>>
             /\ move[u] \in T
    <2>1. PICK s \in S : u \in Column(s, g[s])
        BY <1>1
    <2>2. u = <<s, u[2]>> /\ u[1] = s /\ u[2] \in 1..g[s]
        BY <1>4, <2>1
    <2>3. f[s] + u[2] \in 1..h[s] /\ f[s] + u[2] \notin 1..f[s]
        BY <1>2, <2>2
    <2>4. <<s, f[s] + u[2]>> \in Units(h)
        BY <1>1, <1>3, <2>3
    <2>5. <<s, f[s] + u[2]>> \notin Units(f)
        <3> SUFFICES ASSUME <<s, f[s] + u[2]>> \in Units(f) PROVE FALSE
            OBVIOUS
        <3>1. PICK t \in S : <<s, f[s] + u[2]>> \in Column(t, f[t])
            BY <1>1
        <3>2. t = s
            BY <3>1 DEF Column
        <3> QED
            BY <1>3, <2>3, <3>1, <3>2
    <2> QED
        BY <2>2, <2>4, <2>5
<1>6. ASSUME NEW v \in T
      PROVE  \E u \in Units(g) : move[u] = v
    <2>1. PICK s \in S : v \in Column(s, h[s])
        BY <1>1
    <2>2. v = <<s, v[2]>> /\ v[2] \in 1..h[s]
        BY <1>4, <2>1
    <2>3. v[2] \notin 1..f[s]
        BY <1>1, <1>3, <2>2
    <2>4. v[2] - f[s] \in 1..g[s] /\ f[s] + (v[2] - f[s]) = v[2]
        BY <1>2, <2>2, <2>3
    <2>5. <<s, v[2] - f[s]>> \in Units(g)
        BY <1>1, <1>3, <2>4
    <2>6. move[<<s, v[2] - f[s]>>] = <<s, f[s] + (v[2] - f[s])>>
        BY <2>5
    <2> QED
        BY <2>2, <2>4, <2>5, <2>6
<1>7. \A u, v \in Units(g) : move[u] = move[v] => u = v
    <2> SUFFICES ASSUME NEW u \in Units(g), NEW v \in Units(g), move[u] = move[v] PROVE u = v
        OBVIOUS
    <2>1. u[1] = v[1] /\ f[u[1]] + u[2] = f[v[1]] + v[2]
        OBVIOUS
    <2>2. u[2] = v[2]
        BY <1>2, <1>5, <2>1
    <2> QED
        BY <1>5, <2>1, <2>2
<1>8. move \in Bijection(Units(g), T)
    <2>1. move \in [Units(g) -> T]
        BY <1>5
    <2> HIDE DEF move, T
    <2> QED
        BY <1>6, <1>7, <2>1 DEF Bijection, Injection, Surjection, IsInjective
<1>9. Cardinality(T) = Cardinality(Units(g))
    BY <1>8, SumUnits, FS_Bijection DEF ExistsBijection
<1>10. Units(f) \subseteq Units(h)
    <2> SUFFICES ASSUME NEW u \in Units(f) PROVE u \in Units(h)
        OBVIOUS
    <2>1. PICK s \in S : u \in Column(s, f[s])
        BY <1>1
    <2>2. u = <<s, u[2]>> /\ u[2] \in 1..h[s]
        BY <1>2, <1>4, <2>1
    <2> QED
        BY <1>1, <1>3, <2>2
<1>11. Cardinality(T) = Cardinality(Units(h)) - Cardinality(Units(f))
    <2>1. Units(h) \cap Units(f) = Units(f)
        BY <1>10
    <2>2. IsFiniteSet(Units(h))
        BY SumUnits
    <2>3. Cardinality(T) = Cardinality(Units(h)) - Cardinality(Units(h) \cap Units(f))
        BY <2>2, FS_Difference
    <2> QED
        BY <2>1, <2>3
<1>12. Sum(f) = Cardinality(Units(f)) /\ Sum(g) = Cardinality(Units(g)) /\ Sum(h) = Cardinality(Units(h))
       /\ Sum(f) \in Nat /\ Sum(g) \in Nat /\ Sum(h) \in Nat
    BY SumUnits
<1> QED
    BY <1>9, <1>11, <1>12

(* More entries, and none of them less.                                    *)
LEMMA SumWider ==
    ASSUME NEW T, IsFiniteSet(T), NEW S, S \subseteq T, NEW f \in [S -> Nat], NEW g \in [T -> Nat],
           \A s \in S : f[s] <= g[s]
    PROVE  Sum(f) <= Sum(g)
<1>1. IsFiniteSet(S)
    BY FS_Subset
<1>2. /\ f \in [S -> Int] /\ Sum(f) = Cardinality(Units(f))
      /\ g \in [T -> Int] /\ Sum(g) = Cardinality(Units(g)) /\ IsFiniteSet(Units(g))
    BY <1>1, SumUnits
<1>3. Units(f) \subseteq Units(g)
    <2> SUFFICES ASSUME NEW u \in Units(f) PROVE u \in Units(g)
        OBVIOUS
    <2>1. PICK s \in S : u \in Column(s, f[s])
        BY <1>2, UnitsMember
    <2>2. u \in Column(s, g[s])
        BY <2>1 DEF Column
    <2> QED
        BY <1>2, <2>2, UnitsMember
<1>4. Cardinality(Units(f)) <= Cardinality(Units(g))
    BY <1>2, <1>3, FS_Subset
<1> QED
    BY <1>2, <1>4

(* None of the entries is less, and one has room for n more.               *)
LEMMA SumRoom ==
    ASSUME NEW S, IsFiniteSet(S), NEW f \in [S -> Nat], NEW g \in [S -> Nat],
           \A s \in S : f[s] <= g[s], NEW x \in S, NEW n \in Nat, f[x] + n <= g[x]
    PROVE  Sum(f) + n <= Sum(g)
<1> DEFINE h == [f EXCEPT ![x] = f[x] + n]
<1>1. /\ h \in [S -> Nat] /\ h[x] = f[x] + n /\ \A s \in S \ {x} : h[s] = f[s]
    OBVIOUS
<1>2. f[x] \in Nat
    OBVIOUS
<1> HIDE DEF h
<1>3. f \in [S -> Int] /\ h \in [S -> Int] /\ Sum(f) \in Nat /\ Sum(h) \in Nat
    BY <1>1, SumUnits
<1>4. Sum(h) = Sum(f) + h[x] - f[x]
    BY <1>1, <1>3, SumChange
<1>5. \A s \in S : h[s] <= g[s]
    BY <1>1
<1>6. Sum(h) <= Sum(g)
    BY <1>1, <1>5, SumGrows
<1>7. Sum(g) \in Nat
    BY SumUnits
<1> QED
    BY <1>1, <1>2, <1>3, <1>4, <1>6, <1>7
=============================================================================
