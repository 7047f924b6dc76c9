------------------------ MODULE CsClusterHeaderProofs ------------------------
(***************************************************************************)
(* Proofs about where the network coding coefficients of a packet are, and *)
(* how they are written and read, for every number of clusters and rows.   *)
(***************************************************************************)
EXTENDS CsClusterHeader, FiniteSetTheorems, WellFoundedInduction, TLAPS

(* Sums over finite sets.  MapThenSumSet is defined by recursion over the  *)
(* subsets of a set; what is proved of it here is proved by looking at the *)
(* smallest counterexample.                                                *)
LEMMA MinIsElement ==
  ASSUME NEW S, S \subseteq Nat, S # {}
  PROVE  Min(S) \in S /\ \A y \in S : Min(S) <= y
<1>1. PICK x \in S : \A y \in S : ~(<<y, x>> \in OpToRel(<, Nat))
  BY NatLessThanWellFounded, WFMin
<1>2. \A y \in S : ~(y < x)
  BY <1>1 DEF OpToRel
<1>3. \A y \in S : x <= y
  BY <1>2
<1>4. QED  BY <1>3 DEF Min

(* Of sets for which something fails, a smallest one can be had.           *)
LEMMA SmallestSet ==
  ASSUME NEW S, IsFiniteSet(S), NEW F, F \subseteq SUBSET S, F # {}
  PROVE  \E s \in F : \A r \in F : Cardinality(s) <= Cardinality(r)
<1> DEFINE T == {Cardinality(s) : s \in F}
<1>1. T \subseteq Nat /\ T # {}
  <2>1. \A s \in F : Cardinality(s) \in Nat
    BY FS_Subset, FS_CardinalityType
  <2>2. QED  BY <2>1
<1>2. Min(T) \in T /\ \A y \in T : Min(T) <= y
  <2> HIDE DEF T
  <2>1. QED  BY <1>1, MinIsElement
<1>3. QED  BY <1>2

(* What a sum adds first.                                                  *)
Chosen(s) == CHOOSE x \in s : TRUE

LEMMA ChosenRest ==
  ASSUME NEW S, IsFiniteSet(S), NEW s \in SUBSET S
  PROVE  /\ Cardinality(s) \in Nat /\ Cardinality(s) <= Cardinality(S)
         /\ Cardinality(s) = 0 <=> s = {}
         /\ s # {} => /\ Chosen(s) \in s
                      /\ s \ {Chosen(s)} \in SUBSET S
                      /\ Cardinality(s \ {Chosen(s)}) = Cardinality(s) - 1
<1>1. IsFiniteSet(s) /\ Cardinality(s) \in Nat /\ Cardinality(s) <= Cardinality(S)
  BY FS_Subset, FS_CardinalityType
<1>2. Cardinality(s) = 0 <=> s = {}
  BY <1>1, FS_EmptySet
<1>3. ASSUME s # {}
      PROVE  /\ Chosen(s) \in s
             /\ Cardinality(s \ {Chosen(s)}) = Cardinality(s) - 1
  <2>1. Chosen(s) \in s
    BY <1>3 DEF Chosen
  <2>2. QED  BY <1>1, <2>1, FS_RemoveElement
<1>4. QED  BY <1>1, <1>2, <1>3

(* f[s] is the sum of t[x] for the x in s, for every s in D.               *)
AddsUp(f, t, D) ==
  f = [s \in D |-> IF s = {} THEN 0 ELSE t[Chosen(s)] + f[s \ {Chosen(s)}]]

(* The function that a sum over a finite set is defined with exists.       *)
LEMMA SumExists ==
  ASSUME NEW S, IsFiniteSet(S), NEW t
  PROVE  \E f : AddsUp(f, t, SUBSET S)
<1> DEFINE Small(n) == {s \in SUBSET S : Cardinality(s) <= n}
           T == {n \in Nat : ~\E f : AddsUp(f, t, Small(n))}
<1> HIDE DEF T
<1>9. \A s \in SUBSET S : /\ Cardinality(s) \in Nat
                          /\ Cardinality(s) = 0 <=> s = {}
  BY ChosenRest
<1>1. \A n \in Nat : \A s \in Small(n) : s # {} => s \ {Chosen(s)} \in Small(n - 1)
  BY ChosenRest
<1>2. Small(0) = {{}}
  <2>1. {} \in SUBSET S /\ Cardinality({}) = 0
    BY FS_EmptySet
  <2>2. \A s \in Small(0) : s = {}
    BY <1>9
  <2>3. QED  BY <2>1, <2>2
<1>3. \A n \in Nat : Small(n) \subseteq Small(n + 1)
  BY <1>9
<1>4. AddsUp([s \in Small(0) |-> 0], t, Small(0))
  BY <1>2 DEF AddsUp
<1>5. ASSUME NEW n \in Nat, NEW f, AddsUp(f, t, Small(n))
      PROVE  \E g : AddsUp(g, t, Small(n + 1))
  <2> DEFINE val(h, s) == IF s = {} THEN 0 ELSE t[Chosen(s)] + h[s \ {Chosen(s)}]
             g == [s \in Small(n + 1) |-> val(f, s)]
  <2>1. \A s \in Small(n) : g[s] = f[s]
    <3>1. \A s \in Small(n) : f[s] = val(f, s)
      <4> HIDE DEF Small
      <4>1. QED BY <1>5 DEF AddsUp
    <3> HIDE DEF val, Small
    <3>2. QED  BY <1>3, <3>1
  <2>2. \A s \in Small(n + 1) : val(g, s) = val(f, s)
    <3>1. \A s \in Small(n + 1) : s # {} => s \ {Chosen(s)} \in Small(n)
      <4>1. (n + 1) - 1 = n /\ n + 1 \in Nat
        OBVIOUS
      <4> HIDE DEF Small
      <4>2. QED  BY <1>1, <4>1
    <3> HIDE DEF g, Small
    <3>2. QED  BY <2>1, <3>1
  <2>3. g = [s \in Small(n + 1) |-> val(g, s)]
    <3> HIDE DEF val, Small
    <3>1. QED BY <2>2
  <2> HIDE DEF g, Small
  <2>4. AddsUp(g, t, Small(n + 1))
    BY <2>3 DEF AddsUp
  <2>5. QED  BY <2>4
<1>6. T = {}
  <2> SUFFICES ASSUME T # {}
               PROVE  FALSE
    OBVIOUS
  <2>1. Min(T) \in T /\ \A y \in T : Min(T) <= y
    BY MinIsElement DEF T
  <2> HIDE DEF Small
  <2> USE DEF T
  <2>2. Min(T) # 0 /\ Min(T) \in Nat
    BY <1>4, <2>1
  <2>3. Min(T) - 1 \in Nat /\ Min(T) - 1 \notin T
    BY <2>1, <2>2
  <2>4. PICK f : AddsUp(f, t, Small(Min(T) - 1))
    BY <2>3
  <2>5. \E g : AddsUp(g, t, Small((Min(T) - 1) + 1))
    BY <1>5, <2>3, <2>4
  <2>6. (Min(T) - 1) + 1 = Min(T)
    BY <2>2
  <2>7. QED  BY <2>1, <2>5, <2>6
<1>7. Small(Cardinality(S)) = SUBSET S /\ Cardinality(S) \in Nat
  BY ChosenRest
<1> HIDE DEF Small
<1>8. QED  BY <1>6, <1>7 DEF T

(* What such a function does to a set and its subsets.                     *)
LEMMA SumSteps ==
  ASSUME NEW S, NEW t, NEW f, AddsUp(f, t, SUBSET S)
  PROVE  /\ f[{}] = 0
         /\ \A s \in SUBSET S : s # {} => f[s] = t[Chosen(s)] + f[s \ {Chosen(s)}]
<1>1. \A s \in SUBSET S : f[s] = IF s = {} THEN 0 ELSE t[Chosen(s)] + f[s \ {Chosen(s)}]
  BY DEF AddsUp
<1>2. QED  BY <1>1

LEMMA SumType ==
  ASSUME NEW S, IsFiniteSet(S), NEW t \in [S -> Int], NEW f, AddsUp(f, t, SUBSET S)
  PROVE  \A s \in SUBSET S : f[s] \in Int
<1> DEFINE F == {s \in SUBSET S : f[s] \notin Int}
<1> SUFFICES ASSUME F # {} PROVE FALSE
  OBVIOUS
<1>1. PICK s \in F : \A r \in F : Cardinality(s) <= Cardinality(r)
  <2>1. F \subseteq SUBSET S
    OBVIOUS
  <2> HIDE DEF F
  <2>2. QED  BY <2>1, SmallestSet
<1>2. s # {}
  <2>1. f[{}] \in Int
    BY SumSteps
  <2>2. QED  BY <2>1, Zenon
<1> DEFINE r == s \ {Chosen(s)}
<1>3. /\ Chosen(s) \in S /\ r \in SUBSET S
      /\ Cardinality(r) = Cardinality(s) - 1 /\ Cardinality(s) \in Nat
  BY <1>2, ChosenRest
<1>4. r \notin F
  <2> HIDE DEF F, r
  <2>1. Cardinality(r) \in Int /\ ~(Cardinality(s) <= Cardinality(r))
    BY <1>3
  <2>2. QED  BY <1>1, <2>1
<1>5. f[r] \in Int /\ t[Chosen(s)] \in Int
  BY <1>3, <1>4
<1>6. f[s] = t[Chosen(s)] + f[r]
  BY <1>2, SumSteps
<1> HIDE DEF r
<1>7. f[s] \in Int
  BY <1>5, <1>6
<1>8. QED  BY <1>7

(* A sum can be split at any of its summands.                              *)
Splits(f, t, S) == \A s \in SUBSET S : \A x \in s : f[s] = t[x] + f[s \ {x}]

LEMMA SumSplit ==
  ASSUME NEW S, IsFiniteSet(S), NEW t \in [S -> Int], NEW f, AddsUp(f, t, SUBSET S)
  PROVE  Splits(f, t, S)
<1> USE DEF Splits
<1> DEFINE F == {s \in SUBSET S : \E x \in s : f[s] # t[x] + f[s \ {x}]}
<1> SUFFICES ASSUME F # {} PROVE FALSE
  OBVIOUS
<1>1. PICK s \in F : \A r \in F : Cardinality(s) <= Cardinality(r)
  <2>1. F \subseteq SUBSET S
    OBVIOUS
  <2> HIDE DEF F
  <2>2. QED  BY <2>1, SmallestSet
<1>2. PICK x \in s : f[s] # t[x] + f[s \ {x}]
  BY <1>1
<1> DEFINE y == Chosen(s)
<1>3. /\ y \in s /\ s \in SUBSET S
      /\ \A z \in s : Cardinality(s \ {z}) = Cardinality(s) - 1
      /\ Cardinality(s) \in Nat
  <2>1. s \in SUBSET S /\ s # {}
    BY <1>2
  <2>2. y \in s
    BY <2>1, ChosenRest
  <2>3. IsFiniteSet(s) /\ Cardinality(s) \in Nat
    BY <2>1, FS_Subset, FS_CardinalityType
  <2>4. \A z \in s : Cardinality(s \ {z}) = Cardinality(s) - 1
    BY <2>3, FS_RemoveElement
  <2> HIDE DEF F, y
  <2>5. QED  BY <2>1, <2>2, <2>3, <2>4
<1>4. f[s] = t[y] + f[s \ {y}]
  BY <1>2, <1>3, SumSteps
<1>5. x # y
  BY <1>2, <1>4
<1>6. ASSUME NEW z \in s
      PROVE  s \ {z} \notin F
  <2>1. Cardinality(s \ {z}) = Cardinality(s) - 1 /\ Cardinality(s) \in Nat
    BY <1>3
  <2> HIDE DEF F
  <2>2. ~(Cardinality(s) <= Cardinality(s \ {z}))
    BY <2>1
  <2>3. QED  BY <1>1, <2>2
<1> DEFINE r == s \ {x, y}
<1>7. f[s \ {y}] = t[x] + f[r] /\ f[s \ {x}] = t[y] + f[r]
  <2>1. x \in s \ {y} /\ y \in s \ {x}
    BY <1>3, <1>5
  <2>2. (s \ {y}) \ {x} = r /\ (s \ {x}) \ {y} = r
    OBVIOUS
  <2>3. s \ {x} \in SUBSET S /\ s \ {y} \in SUBSET S
    BY <1>3
  <2>4. f[s \ {y}] = t[x] + f[(s \ {y}) \ {x}]
    BY <1>3, <1>6, <2>1, <2>3
  <2>5. f[s \ {x}] = t[y] + f[(s \ {x}) \ {y}]
    BY <1>3, <1>6, <2>1, <2>3
  <2>6. QED  BY <2>2, <2>4, <2>5
<1>8. t[x] \in Int /\ t[y] \in Int /\ f[r] \in Int
  <2>1. x \in S /\ y \in S /\ r \in SUBSET S
    BY <1>3
  <2> HIDE DEF F, r, y
  <2>2. QED  BY <2>1, SumType
<1> HIDE DEF r, y, F
<1>9. f[s] = t[x] + f[s \ {x}]
  BY <1>4, <1>7, <1>8
<1>10. QED  BY <1>2, <1>9

(* Sums of natural numbers grow with the set.                              *)
LEMMA SumGrows ==
  ASSUME NEW S, IsFiniteSet(S), NEW t \in [S -> Nat], NEW f, AddsUp(f, t, SUBSET S),
         NEW a \in SUBSET S
  PROVE  \A b \in SUBSET S : a \subseteq b => f[a] <= f[b]
<1> DEFINE F == {b \in SUBSET S : a \subseteq b /\ ~(f[a] <= f[b])}
<1> SUFFICES ASSUME F # {} PROVE FALSE
  OBVIOUS
<1>1. PICK b \in F : \A r \in F : Cardinality(b) <= Cardinality(r)
  <2>1. F \subseteq SUBSET S
    OBVIOUS
  <2> HIDE DEF F
  <2>2. QED  BY <2>1, SmallestSet
<1>2. t \in [S -> Int]
  OBVIOUS
<1>3. \A s \in SUBSET S : f[s] \in Int
  BY <1>2, SumType
<1>4. PICK x \in b : x \notin a
  <2>1. f[a] <= f[a] /\ a \subseteq b /\ ~(f[a] <= f[b])
    BY <1>1, <1>3
  <2>2. a # b
    BY <2>1
  <2>3. QED  BY <2>1, <2>2
<1> DEFINE r == b \ {x}
<1>5. r \in SUBSET S /\ a \subseteq r /\ x \in S
  BY <1>1, <1>4
<1>6. ~(Cardinality(b) <= Cardinality(r))
  <2>1. IsFiniteSet(b)
    BY <1>1, FS_Subset
  <2>2. Cardinality(r) = Cardinality(b) - 1 /\ Cardinality(b) \in Nat
    BY <2>1, FS_RemoveElement, FS_CardinalityType
  <2>3. QED  BY <2>2
<1>7. r \notin F
  <2> HIDE DEF F, r
  <2>1. QED  BY <1>1, <1>6
<1>8. f[a] <= f[r]
  BY <1>5, <1>7
<1>9. f[b] = t[x] + f[r]
  BY <1>1, <1>2, <1>4, SumSplit DEF Splits
<1>10. f[a] \in Int /\ f[r] \in Int /\ t[x] \in Nat
  BY <1>3, <1>5
<1> HIDE DEF r
<1>11. f[a] <= f[b]
  BY <1>8, <1>9, <1>10
<1>12. QED  BY <1>1, <1>11

(* Sums over a part of a set do not depend on the rest of it.              *)
LEMMA SumUnique ==
  ASSUME NEW S, IsFiniteSet(S), NEW t, NEW f, AddsUp(f, t, SUBSET S),
         NEW R \in SUBSET S, NEW g, AddsUp(g, t, SUBSET R)
  PROVE  g[R] = f[R]
<1> DEFINE F == {s \in SUBSET R : g[s] # f[s]}
<1> SUFFICES ASSUME F # {} PROVE FALSE
  OBVIOUS
<1>1. IsFiniteSet(R)
  BY FS_Subset
<1>2. PICK s \in F : \A r \in F : Cardinality(s) <= Cardinality(r)
  <2>1. F \subseteq SUBSET R
    OBVIOUS
  <2> HIDE DEF F
  <2>2. QED  BY <1>1, <2>1, SmallestSet
<1>3. s # {}
  BY <1>2, SumSteps
<1> DEFINE r == s \ {Chosen(s)}
<1>4. /\ Chosen(s) \in R /\ r \in SUBSET R
      /\ Cardinality(r) = Cardinality(s) - 1 /\ Cardinality(s) \in Nat
  BY <1>1, <1>3, ChosenRest
<1>5. g[r] = f[r]
  <2>1. ~(Cardinality(s) <= Cardinality(r))
    <3> HIDE DEF r, F
    <3>1. QED  BY <1>4
  <2>2. r \notin F
    <3> HIDE DEF r, F
    <3>1. QED  BY <1>2, <2>1
  <2>3. QED  BY <1>4, <2>2
<1>6. f[s] = t[Chosen(s)] + f[r]
  <2>1. s \in SUBSET S
    OBVIOUS
  <2>2. QED  BY <1>3, <2>1, SumSteps
<1>7. g[s] = t[Chosen(s)] + g[r]
  BY <1>3, SumSteps
<1> HIDE DEF r
<1>8. g[s] = f[s]
  BY <1>4, <1>5, <1>6, <1>7
<1>9. QED  BY <1>8

-----------------------------------------------------------------------------
(* Where the coefficients of a cluster are: the sums of Setup and          *)
(* SetNcInfoNew.                                                           *)
LEMMA RowsAddUp ==
  \E f : /\ AddsUp(f, Lk, SUBSET ClusterIds)
         /\ \A cs \in SUBSET ClusterIds : RowsOf(cs) = f[cs]
<1>1. IsFiniteSet(ClusterIds)
  BY LkAssumption
<1>2. PICK f : AddsUp(f, Lk, SUBSET ClusterIds)
  BY <1>1, SumExists
<1>3. ASSUME NEW cs \in SUBSET ClusterIds
      PROVE  RowsOf(cs) = f[cs]
  <2> DEFINE g == CHOOSE h : h = [s \in SUBSET cs |->
                    IF s = {} THEN 0 ELSE Lk[Chosen(s)] + h[s \ {Chosen(s)}]]
  <2>1. RowsOf(cs) = g[cs]
    BY Zenon DEF RowsOf, MapThenSumSet, MapThenFoldSet, Chosen
  <2>2. IsFiniteSet(cs)
    BY <1>1, FS_Subset
  <2>3. PICK h : AddsUp(h, Lk, SUBSET cs)
    BY <2>2, SumExists
  <2>4. AddsUp(g, Lk, SUBSET cs)
    BY <2>3 DEF AddsUp
  <2> HIDE DEF g
  <2>5. g[cs] = f[cs]
    BY <1>1, <1>2, <2>4, SumUnique
  <2>6. QED  BY <2>1, <2>5
<1>4. QED  BY <1>2, <1>3

LEMMA OffsetProperties ==
  /\ NcInfoSize \in Nat
  /\ \A c \in ClusterIds : Offset(c) \in Nat /\ Offset(c) + Lk[c] <= NcInfoSize
  /\ \A c, d \in ClusterIds : c < d => Offset(c) + Lk[c] <= Offset(d)
<1>1. PICK f : /\ AddsUp(f, Lk, SUBSET ClusterIds)
               /\ \A cs \in SUBSET ClusterIds : RowsOf(cs) = f[cs]
  BY RowsAddUp
<1>2. IsFiniteSet(ClusterIds) /\ Lk \in [ClusterIds -> Nat] /\ ClusterIds \subseteq Nat
  BY LkAssumption
<1>3. Lk \in [ClusterIds -> Int]
  BY <1>2
<1>4. \A a, b \in SUBSET ClusterIds : a \subseteq b => f[a] <= f[b]
  BY <1>1, <1>2, SumGrows
<1>5. \A a \in SUBSET ClusterIds : f[a] \in Nat
  <2>1. \A a \in SUBSET ClusterIds : f[a] \in Int /\ f[{}] <= f[a]
    BY <1>1, <1>2, <1>3, <1>4, SumType
  <2>2. f[{}] = 0
    BY <1>1, SumSteps
  <2>3. QED  BY <2>1, <2>2
<1>6. \A s \in SUBSET ClusterIds : \A x \in s : f[s] = Lk[x] + f[s \ {x}]
  <2>1. Splits(f, Lk, ClusterIds)
    BY <1>1, <1>2, <1>3, SumSplit
  <2>2. QED  BY <2>1 DEF Splits
<1> DEFINE Below(c) == {k \in ClusterIds : k < c}
<1>7. ASSUME NEW c \in ClusterIds, NEW b \in SUBSET ClusterIds,
             Below(c) \subseteq b, c \in b
      PROVE  f[Below(c)] + Lk[c] <= f[b]
  <2>1. c \notin Below(c) /\ Below(c) \subseteq b \ {c} /\ b \ {c} \in SUBSET ClusterIds
    BY <1>2, <1>7
  <2> HIDE DEF Below
  <2>2. f[Below(c)] <= f[b \ {c}]
    <3>1. Below(c) \in SUBSET ClusterIds
      BY <2>1
    <3>2. QED  BY <1>4, <2>1, <3>1
  <2>3. f[b] = Lk[c] + f[b \ {c}]
    BY <1>7, <1>6
  <2>4. f[Below(c)] \in Nat /\ f[b \ {c}] \in Nat /\ Lk[c] \in Nat
    BY <1>2, <1>5, <2>1
  <2>5. QED  BY <2>2, <2>3, <2>4
<1>8. \A c \in ClusterIds : Offset(c) = f[Below(c)] /\ Offset(c) \in Nat
  BY <1>1, <1>5 DEF Offset
<1>9. NcInfoSize = f[ClusterIds] /\ NcInfoSize \in Nat
  BY <1>1, <1>5 DEF NcInfoSize
<1>10. ASSUME NEW c \in ClusterIds
      PROVE  Offset(c) + Lk[c] <= NcInfoSize
  <2>1. Below(c) \subseteq ClusterIds
    OBVIOUS
  <2> HIDE DEF Below
  <2>2. QED  BY <1>7, <1>8, <1>9, <2>1
<1>11. ASSUME NEW c \in ClusterIds, NEW d \in ClusterIds, c < d
       PROVE  Offset(c) + Lk[c] <= Offset(d)
  <2>1. /\ c \in Below(d) /\ Below(d) \in SUBSET ClusterIds
        /\ \A k \in ClusterIds : k < c => k < d
    BY <1>2, <1>11
  <2>2. Below(c) \subseteq Below(d)
    BY <2>1
  <2> HIDE DEF Below
  <2>3. QED  BY <1>7, <1>8, <2>1, <2>2
<1>12. QED  BY <1>8, <1>9, <1>10, <1>11

(* Every row of every cluster has a coefficient of its own in the header:  *)
(* the index that SetNcInfoNew computes is within the field, whose size    *)
(* Setup computes, and no two rows share one.                              *)
THEOREM RowsHavePlaces ==
  /\ \A c \in ClusterIds : \A i \in 0..(Lk[c] - 1) : Offset(c) + i \in Index
  /\ \A c, d \in ClusterIds : \A i \in 0..(Lk[c] - 1) : \A j \in 0..(Lk[d] - 1) :
       Offset(c) + i = Offset(d) + j => c = d /\ i = j
<1>1. \A c \in ClusterIds : Lk[c] \in Nat /\ c \in Nat
  BY LkAssumption
<1>2. /\ NcInfoSize \in Nat
      /\ \A c \in ClusterIds : Offset(c) \in Nat /\ Offset(c) + Lk[c] <= NcInfoSize
      /\ \A c, d \in ClusterIds : c < d => Offset(c) + Lk[c] <= Offset(d)
  BY OffsetProperties
<1>3. ASSUME NEW c \in ClusterIds, NEW i \in 0..(Lk[c] - 1)
      PROVE  Offset(c) + i \in Index
  BY <1>1, <1>2 DEF Index
<1>4. ASSUME NEW c \in ClusterIds, NEW d \in ClusterIds,
             NEW i \in 0..(Lk[c] - 1), NEW j \in 0..(Lk[d] - 1),
             Offset(c) + i = Offset(d) + j
      PROVE  c = d /\ i = j
  <2>1. ~(c < d) /\ ~(d < c)
    BY <1>1, <1>2, <1>4
  <2>2. c = d
    BY <1>1, <2>1
  <2>3. QED  BY <1>1, <1>2, <1>4, <2>2
<1>5. QED  BY <1>3, <1>4

-----------------------------------------------------------------------------
(* Vectors of the values that Bernoulli coefficients can express.          *)
Signs == [Index -> BernValues]

LEMMA SignType == ASSUME NEW x \in Int PROVE Sign(x) \in BernValues
  BY DEF Sign, BernValues

LEMMA SignOfSign == ASSUME NEW x \in BernValues PROVE Sign(x) = x
  BY DEF Sign, BernValues

(* The bytes: every coefficient has a place in one of them, and the last   *)
(* one holds between one and four.                                         *)
LEMMA ByteLayout ==
  /\ LastByte \in Nat /\ Remain \in 1..4
  /\ NcInfoSize = 4 * LastByte + Remain
<1>1. NcInfoSize \in Nat /\ NcInfoSize > 0
  BY SizeAssumption, OffsetProperties
<1> DEFINE n == NcInfoSize
           q == (n * 2 - 1) \div 8
<1>2. q \in Nat /\ 8 * q <= n * 2 - 1 /\ n * 2 - 1 < 8 * q + 8
  BY <1>1
<1>3. LastByte = q
  BY <1>2 DEF LastByte, NBytes
<1>4. Remain = n - 4 * q
  BY <1>3 DEF Remain, PerByte
<1> HIDE DEF q, n
<1>5. n \in Nat
  BY <1>1 DEF n
<1>6. QED  BY <1>2, <1>3, <1>4, <1>5 DEF n

LEMMA PlaceOf ==
  ASSUME NEW k \in Index
  PROVE  /\ k \div PerByte \in 0..LastByte
         /\ k % PerByte \in Places
         /\ k = 4 * (k \div PerByte) + (k % PerByte)
         /\ k \div PerByte = LastByte => k % PerByte < Remain
<1>1. /\ k \in Nat /\ k < 4 * LastByte + Remain
      /\ LastByte \in Nat /\ Remain \in 1..4
  BY ByteLayout DEF Index
<1> DEFINE q == k \div 4
           r == k % 4
<1>2. q \in Nat /\ r \in 0..3 /\ k = 4 * q + r
  BY <1>1
<1> HIDE DEF q, r
<1>3. q \in 0..LastByte /\ (q = LastByte => r < Remain)
  BY <1>1, <1>2
<1>4. QED  BY <1>2, <1>3 DEF q, r, PerByte, Places

(* The coefficient k after it was written and read.                        *)
Mirrored(k) ==
  IF k \div PerByte < LastByte THEN 4 * (k \div PerByte) + (3 - (k % PerByte)) ELSE k

LEMMA MirroredProperties ==
  ASSUME NEW k \in Index
  PROVE  Mirrored(k) \in Index /\ Mirrored(Mirrored(k)) = k
<1> DEFINE q == k \div PerByte
           r == k % PerByte
<1>1. /\ q \in 0..LastByte /\ r \in 0..3 /\ k = 4 * q + r
      /\ LastByte \in Nat /\ Remain \in 1..4 /\ NcInfoSize = 4 * LastByte + Remain
  BY PlaceOf, ByteLayout DEF Places, PerByte
<1>2. CASE q < LastByte
  <2>1. Mirrored(k) = 4 * q + (3 - r) /\ 3 - r \in 0..3
    BY <1>1, <1>2 DEF Mirrored
  <2> DEFINE j == 4 * q + (3 - r)
  <2> HIDE DEF q, r
  <2>2. j \div PerByte = q /\ j % PerByte = 3 - r
    BY <1>1, <2>1 DEF PerByte
  <2>3. j \in Index
    BY <1>1, <1>2 DEF Index
  <2>4. Mirrored(j) = 4 * q + r
    BY <1>1, <1>2, <2>2 DEF Mirrored
  <2>5. QED  BY <1>1, <2>1, <2>3, <2>4
<1>3. CASE ~(q < LastByte)
  BY <1>3 DEF Mirrored
<1>4. QED  BY <1>2, <1>3

(* Writing and reading Bernoulli coefficients: the order within every full *)
(* byte is reversed, the last byte is read as it was written, and of a     *)
(* coefficient its sign remains.                                           *)
THEOREM FullBytesMirrored ==
  ASSUME NEW v \in [Index -> Int], NEW k \in Index
  PROVE  ReadBern(WriteBern(v))[k] = Sign(v[Mirrored(k)])
<1> DEFINE q == k \div PerByte
           r == k % PerByte
<1>1. /\ q \in 0..LastByte /\ r \in 0..3 /\ k = 4 * q + r
      /\ q = LastByte => r < Remain
      /\ LastByte \in Nat /\ Remain \in 1..4
  BY PlaceOf, ByteLayout DEF Places, PerByte
<1>2. ReadBern(WriteBern(v))[k] = (IF q < LastByte THEN FullByte(v, q) ELSE EndByte(v))[3 - r]
  BY <1>1 DEF ReadBern, WriteBern
<1>3. 3 - r \in Places
  BY <1>1 DEF Places, PerByte
<1>4. CASE q < LastByte
  <2>1. FullByte(v, q)[3 - r] = Sign(v[PerByte * q + (3 - r)])
    BY <1>3 DEF FullByte
  <2>2. Mirrored(k) = PerByte * q + (3 - r)
    BY <1>1, <1>4 DEF Mirrored, PerByte
  <2>3. QED  BY <1>2, <1>4, <2>1, <2>2
<1>5. CASE q = LastByte
  <2>1. EndByte(v)[3 - r] =
          IF 3 - (3 - r) < Remain THEN Sign(v[PerByte * LastByte + 3 - (3 - r)]) ELSE 0
    BY <1>3 DEF EndByte
  <2>2. 3 - (3 - r) = r /\ PerByte * LastByte + 3 - (3 - r) = k /\ Mirrored(k) = k
    BY <1>1, <1>5 DEF Mirrored, PerByte
  <2>3. QED  BY <1>1, <1>2, <1>5, <2>1, <2>2
<1>6. QED  BY <1>1, <1>4, <1>5

(* Coefficients that fit in one byte are read as they were written.        *)
THEOREM OneByteTrue ==
  ASSUME NcInfoSize <= PerByte, NEW v \in Signs
  PROVE  ReadBern(WriteBern(v)) = v
<1>1. v \in [Index -> Int]
  BY DEF Signs, BernValues
<1>2. LastByte = 0
  BY ByteLayout DEF PerByte
<1>3. \A k \in Index : Mirrored(k) = k
  BY <1>2, PlaceOf DEF Mirrored
<1>4. \A k \in Index : ReadBern(WriteBern(v))[k] = v[k]
  BY <1>1, <1>3, FullBytesMirrored, SignOfSign DEF Signs
<1>5. ReadBern(WriteBern(v)) = [k \in Index |-> ReadBern(WriteBern(v))[k]]
  BY DEF ReadBern
<1>6. QED  BY <1>4, <1>5 DEF Signs

(* With several bytes a second conversion undoes the first: whether the    *)
(* sink sees the coefficients in order depends on the number of times the  *)
(* packet was read and written on its way.                                 *)
THEOREM TwiceIsTrue ==
  ASSUME NEW v \in Signs
  PROVE  ReadBern(WriteBern(ReadBern(WriteBern(v)))) = v
<1> DEFINE w == ReadBern(WriteBern(v))
           x == ReadBern(WriteBern(w))
<1>1. v \in [Index -> Int]
  BY DEF Signs, BernValues
<1>2. \A k \in Index : w[k] = v[Mirrored(k)] /\ w[k] \in BernValues
  BY <1>1, FullBytesMirrored, SignOfSign, MirroredProperties DEF Signs
<1>3. w = [k \in Index |-> w[k]] /\ x = [k \in Index |-> x[k]]
  BY DEF ReadBern
<1> HIDE DEF w
<1>4. w \in [Index -> Int]
  BY <1>2, <1>3 DEF BernValues
<1>5. \A k \in Index : x[k] = Sign(w[Mirrored(k)])
  BY <1>4, FullBytesMirrored
<1> HIDE DEF x
<1>6. \A k \in Index : x[k] = v[k]
  BY <1>2, <1>5, SignOfSign, MirroredProperties
<1>7. x = v
  BY <1>3, <1>6 DEF Signs
<1>8. QED  BY <1>7 DEF x, w

(* What is written to a packet, and what is read from it.                  *)
LEMMA FieldTypes ==
  /\ \A v \in [Index -> Int] : WriteBern(v) \in [0..LastByte -> [Places -> BernValues]]
  /\ \A w \in [0..LastByte -> [Places -> BernValues]] : ReadBern(w) \in [Index -> Int]
<1>1. /\ LastByte \in Nat /\ Remain \in 1..4
      /\ NcInfoSize = 4 * LastByte + Remain
  BY ByteLayout
<1>2. ASSUME NEW v \in [Index -> Int]
      PROVE  WriteBern(v) \in [0..LastByte -> [Places -> BernValues]]
  <2>1. ASSUME NEW j \in 0..LastByte, j < LastByte
        PROVE  FullByte(v, j) \in [Places -> BernValues]
    <3>1. ASSUME NEW i \in Places
          PROVE  Sign(v[PerByte * j + i]) \in BernValues
      <4>1. PerByte * j + i \in Index
        BY <1>1, <2>1 DEF PerByte, Places, Index
      <4>2. QED  BY <4>1, SignType
    <3>2. QED  BY <3>1 DEF FullByte
  <2>2. EndByte(v) \in [Places -> BernValues]
    <3>1. ASSUME NEW i \in Places, 3 - i < Remain
          PROVE  Sign(v[PerByte * LastByte + 3 - i]) \in BernValues
      <4>1. PerByte * LastByte + 3 - i \in Index
        BY <1>1, <3>1 DEF PerByte, Places, Index
      <4>2. QED  BY <4>1, SignType
    <3>2. QED  BY <3>1 DEF EndByte, BernValues
  <2>3. QED  BY <2>1, <2>2 DEF WriteBern
<1>3. ASSUME NEW w \in [0..LastByte -> [Places -> BernValues]]
      PROVE  ReadBern(w) \in [Index -> Int]
  <2>1. ASSUME NEW k \in Index
        PROVE  w[k \div PerByte][3 - (k % PerByte)] \in Int
    <3> DEFINE q == k \div PerByte
               r == k % PerByte
    <3>1. q \in 0..LastByte /\ r \in 0..3
      BY PlaceOf DEF Places, PerByte
    <3> HIDE DEF q, r
    <3>2. 3 - r \in Places
      BY <3>1 DEF Places, PerByte
    <3>3. w[q] \in [Places -> BernValues]
      BY <3>1
    <3>4. w[q][3 - r] \in BernValues
      BY <3>2, <3>3
    <3>5. QED  BY <3>4 DEF BernValues, q, r
  <2>2. QED  BY <2>1 DEF ReadBern
<1>4. QED  BY <1>2, <1>3
=============================================================================
