----------------------------- MODULE LedgerProofs -----------------------------
(***************************************************************************)
(* What transfers do to a ledger, for any assets and accounts, and what a  *)
(* sum over a finite set is: the lemmas on which the theorems about        *)
(* contracts that move money rest.  Balances are integers here; whether    *)
(* one goes below zero is the contracts' matter.                           *)
(***************************************************************************)
EXTENDS Ledger, FiniteSetsExt, FiniteSetTheorems, WellFoundedInduction, TLAPS

LedgersOver(A, B) == [A -> [B -> Int]]

(* The halves of a transfer.                                                *)
Plus(b, t, x, n) == [b EXCEPT ![t][x] = @ + n]
Minus(b, t, x, n) == [b EXCEPT ![t][x] = @ - n]

(* A credit, of an account of the ledger or of nobody.                      *)
LEMMA PlusOK ==
    ASSUME NEW A, NEW B, NEW b \in LedgersOver(A, B), NEW t, NEW x, NEW n \in Int
    PROVE  /\ Plus(b, t, x, n) \in LedgersOver(A, B)
           /\ t \in A /\ x \in B => Plus(b, t, x, n)[t][x] = b[t][x] + n
           /\ \A y \in B : t \in A /\ y # x => Plus(b, t, x, n)[t][y] = b[t][y]
<1> USE DEF LedgersOver, Plus
<1>1. CASE t \in A /\ x \in B
  <2>1. b[t][x] + n \in Int /\ b[t] \in [B -> Int]
    BY <1>1
  <2> QED BY <1>1, <2>1
<1>2. CASE t \in A /\ x \notin B
  BY <1>2
<1>3. CASE t \notin A
  BY <1>3
<1> QED BY <1>1, <1>2, <1>3

(* A debit.                                                                 *)
LEMMA MinusOK ==
    ASSUME NEW A, NEW B, NEW b \in LedgersOver(A, B), NEW t, NEW x, NEW n \in Int
    PROVE  /\ Minus(b, t, x, n) \in LedgersOver(A, B)
           /\ t \in A /\ x \in B => Minus(b, t, x, n)[t][x] = b[t][x] - n
           /\ \A y \in B : t \in A /\ y # x => Minus(b, t, x, n)[t][y] = b[t][y]
<1> USE DEF LedgersOver, Minus
<1>1. CASE t \in A /\ x \in B
  <2>1. b[t][x] - n \in Int /\ b[t] \in [B -> Int]
    BY <1>1
  <2> QED BY <1>1, <2>1
<1>2. CASE t \in A /\ x \notin B
  BY <1>2
<1>3. CASE t \notin A
  BY <1>3
<1> QED BY <1>1, <1>2, <1>3

(* A transfer keeps the ledger a ledger; what the accounts have afterwards. *)
LEMMA TransferOK ==
    ASSUME NEW A, NEW B, NEW b \in LedgersOver(A, B), NEW t, NEW from, NEW to, NEW n \in Int
    PROVE  /\ Transfer(b, t, from, to, n) \in LedgersOver(A, B)
           /\ t \in A /\ from \in B /\ to \in B /\ from # to =>
                 /\ Transfer(b, t, from, to, n)[t][from] = b[t][from] - n
                 /\ Transfer(b, t, from, to, n)[t][to] = b[t][to] + n
           /\ \A x \in B \ {from, to} :
                 t \in A => Transfer(b, t, from, to, n)[t][x] = b[t][x]
<1> DEFINE f == Minus(b, t, from, n)
<1>1. /\ f \in LedgersOver(A, B)
      /\ t \in A /\ from \in B => f[t][from] = b[t][from] - n
      /\ \A y \in B : t \in A /\ y # from => f[t][y] = b[t][y]
  BY MinusOK
<1>2. Transfer(b, t, from, to, n) = Plus(f, t, to, n)
  BY DEF Transfer, Plus, Minus
<1> HIDE DEF f
<1>3. /\ Plus(f, t, to, n) \in LedgersOver(A, B)
      /\ t \in A /\ to \in B => Plus(f, t, to, n)[t][to] = f[t][to] + n
      /\ \A y \in B : t \in A /\ y # to => Plus(f, t, to, n)[t][y] = f[t][y]
  BY <1>1, PlusOK
<1> QED BY <1>1, <1>2, <1>3

-----------------------------------------------------------------------------
(* The same, as what an account gains and loses: sums of flows, whatever    *)
(* accounts coincide.                                                       *)
Flow(s, x, t, a, n) == IF s = t /\ x = a THEN n ELSE 0

(* A flow of an integer is an integer.                                      *)
LEMMA FlowInt == ASSUME NEW s, NEW x, NEW t, NEW a, NEW n \in Int PROVE Flow(s, x, t, a, n) \in Int
BY DEF Flow

(* A credit is an inflow, for whoever is credited.                          *)
LEMMA PlusFlow ==
    ASSUME NEW A, NEW B, NEW b \in LedgersOver(A, B), NEW t, NEW a, NEW n \in Int, NEW s \in A, NEW x \in B
    PROVE  Plus(b, t, a, n)[s][x] = b[s][x] + Flow(s, x, t, a, n)
<1>1. b[s][x] \in Int
  BY DEF LedgersOver
<1>2. CASE s = t
  BY <1>1, <1>2, PlusOK DEF Flow
<1>3. CASE s # t
  <2>1. Plus(b, t, a, n)[s] = b[s]
    BY <1>3 DEF Plus, LedgersOver
  <2> QED BY <1>1, <1>3, <2>1 DEF Flow
<1> QED BY <1>2, <1>3

(* A debit is an outflow.                                                   *)
LEMMA MinusFlow ==
    ASSUME NEW A, NEW B, NEW b \in LedgersOver(A, B), NEW t, NEW a, NEW n \in Int, NEW s \in A, NEW x \in B
    PROVE  Minus(b, t, a, n)[s][x] = b[s][x] - Flow(s, x, t, a, n)
<1>1. b[s][x] \in Int
  BY DEF LedgersOver
<1>2. CASE s = t
  BY <1>1, <1>2, MinusOK DEF Flow
<1>3. CASE s # t
  <2>1. Minus(b, t, a, n)[s] = b[s]
    BY <1>3 DEF Minus, LedgersOver
  <2> QED BY <1>1, <1>3, <2>1 DEF Flow
<1> QED BY <1>2, <1>3

(* A transfer is an outflow and an inflow, also when an account pays        *)
(* itself.                                                                  *)
LEMMA TransferFlow ==
    ASSUME NEW A, NEW B, NEW b \in LedgersOver(A, B), NEW t, NEW from, NEW to, NEW n \in Int, NEW s \in A, NEW x \in B
    PROVE  /\ Transfer(b, t, from, to, n) \in LedgersOver(A, B)
           /\ Transfer(b, t, from, to, n)[s][x] = b[s][x] - Flow(s, x, t, from, n) + Flow(s, x, t, to, n)
<1> DEFINE f == Minus(b, t, from, n)
<1>1. f \in LedgersOver(A, B) /\ f[s][x] = b[s][x] - Flow(s, x, t, from, n)
  BY MinusOK, MinusFlow
<1>2. Transfer(b, t, from, to, n) = Plus(f, t, to, n)
  BY DEF Transfer, Plus, Minus
<1> HIDE DEF f
<1>3. Plus(f, t, to, n) \in LedgersOver(A, B) /\ Plus(f, t, to, n)[s][x] = f[s][x] + Flow(s, x, t, to, n)
  BY <1>1, PlusOK, PlusFlow
<1> QED BY <1>1, <1>2, <1>3

(* An exchange takes one asset and gives as much of another.                *)
LEMMA ExchangeFlow ==
    ASSUME NEW A, NEW B, NEW b \in LedgersOver(A, B), NEW given, NEW got, given # got,
           NEW a, NEW n \in Int, NEW s \in A, NEW x \in B
    PROVE  /\ Exchange(b, given, got, a, n) \in LedgersOver(A, B)
           /\ Exchange(b, given, got, a, n)[s][x] = b[s][x] - Flow(s, x, given, a, n) + Flow(s, x, got, a, n)
<1> DEFINE f == Minus(b, given, a, n)
<1>1. f \in LedgersOver(A, B) /\ f[s][x] = b[s][x] - Flow(s, x, given, a, n)
  BY MinusOK, MinusFlow
<1>2. Exchange(b, given, got, a, n) = Plus(f, got, a, n)
  <2>1. f[got] = b[got]
    BY DEF Minus, LedgersOver
  <2> QED BY <2>1 DEF Exchange, Plus, Minus
<1> HIDE DEF f
<1>3. Plus(f, got, a, n) \in LedgersOver(A, B) /\ Plus(f, got, a, n)[s][x] = f[s][x] + Flow(s, x, got, a, n)
  BY <1>1, PlusOK, PlusFlow
<1> QED BY <1>1, <1>2, <1>3

-----------------------------------------------------------------------------
(* The element a fold over a set takes first.                               *)
Pick(s) == CHOOSE x \in s : TRUE

(* g sums up f over every subset of S: the recursion that the community     *)
(* modules' MapThenSumSet solves with CHOOSE.                               *)
IsSum(g, f, S) ==
    g = [s \in SUBSET S |-> IF s = {} THEN 0 ELSE f[Pick(s)] + g[s \ {Pick(s)}]]

(* The sum of f over S.                                                     *)
Total(f, S) == MapThenSumSet(LAMBDA x : f[x], S)

(* A non-empty set of subsets of a finite set has a minimal member: the     *)
(* sums below are proved by a minimal counterexample.                       *)
LEMMA SmallestSet ==
    ASSUME NEW S, IsFiniteSet(S), NEW B \in SUBSET (SUBSET S), B # {}
    PROVE  \E s \in B : \A r \in B : r \subseteq s => r = s
<1>1. PICK s \in B : \A r \in B : ~(<<r, s>> \in StrictSubsetOrdering(S))
  <2>1. B \subseteq FiniteSubsetsOf(S)
    BY FS_FiniteSubsetsOfFinite
  <2> QED BY <2>1, WFMin, FS_StrictSubsetOrderingWellFounded
<1> QED BY <1>1 DEF StrictSubsetOrdering

(* An element of a non-empty set.                                           *)
LEMMA Pickable == ASSUME NEW s, s # {} PROVE Pick(s) \in s
BY DEF Pick

(* Where the recursive definition of a sum has a solution, Total is its     *)
(* value.                                                                   *)
LEMMA TotalOfSum ==
    ASSUME NEW f, NEW S, \E g : IsSum(g, f, S)
    PROVE  \E g : IsSum(g, f, S) /\ Total(f, S) = g[S]
<1> DEFINE g == CHOOSE g : IsSum(g, f, S)
<1>1. IsSum(g, f, S)
  OBVIOUS
<1>2. Total(f, S) = g[S]
  BY DEF Total, MapThenSumSet, MapThenFoldSet, IsSum, Pick
<1> QED BY <1>1, <1>2

(* What such a solution says of the empty and of a non-empty set.           *)
LEMMA SumStep ==
    ASSUME NEW f, NEW S, NEW g, IsSum(g, f, S)
    PROVE  /\ g[{}] = 0
           /\ \A s : s \subseteq S /\ s # {} => g[s] = f[Pick(s)] + g[s \ {Pick(s)}]
BY DEF IsSum

(* Two solutions agree wherever both are defined.                           *)
LEMMA SumUnique ==
    ASSUME NEW f, NEW S, NEW T, IsFiniteSet(S), NEW g, NEW h, IsSum(g, f, S), IsSum(h, f, T),
           NEW s \in SUBSET S, s \subseteq T
    PROVE  g[s] = h[s]
<1> DEFINE B == {r \in SUBSET S : r \subseteq T /\ g[r] # h[r]}
<1>1. SUFFICES ASSUME B # {} PROVE FALSE
  OBVIOUS
<1>2. PICK r \in B : \A q \in B : q \subseteq r => q = r
  <2>1. B \in SUBSET (SUBSET S)
    OBVIOUS
  <2> HIDE DEF B
  <2> QED BY <1>1, <2>1, SmallestSet
<1>6. /\ g[{}] = 0
      /\ \A q : q \subseteq S /\ q # {} => g[q] = f[Pick(q)] + g[q \ {Pick(q)}]
  BY SumStep
<1>7. /\ h[{}] = 0
      /\ \A q : q \subseteq T /\ q # {} => h[q] = f[Pick(q)] + h[q \ {Pick(q)}]
  <2>1. IsSum(h, f, T)
    OBVIOUS
  <2> HIDE DEF B
  <2> QED BY ONLY <2>1, SumStep
<1>3. r # {}
  BY <1>6, <1>7
<1>4. Pick(r) \in r
  BY <1>3, Pickable
<1>5. g[r \ {Pick(r)}] = h[r \ {Pick(r)}]
  BY <1>2, <1>4
<1> QED BY <1>3, <1>5, <1>6, <1>7

(* A finite set has a solution.                                             *)
LEMMA SumExists ==
    ASSUME NEW f, NEW S, IsFiniteSet(S)
    PROVE  \E g : IsSum(g, f, S)
<1> DEFINE B == {r \in SUBSET S : ~ \E g : IsSum(g, f, r)}
<1>1. SUFFICES ASSUME B # {} PROVE FALSE
  OBVIOUS
<1>2. PICK r \in B : \A q \in B : q \subseteq r => q = r
  <2>1. B \in SUBSET (SUBSET S)
    OBVIOUS
  <2> HIDE DEF B
  <2> QED BY <1>1, <2>1, SmallestSet
<1>a. \A q \in SUBSET r : IsFiniteSet(q)
  BY FS_Subset
<1> DEFINE G(q) == CHOOSE g : IsSum(g, f, q)
           v(q) == IF q = {} THEN 0 ELSE f[Pick(q)] + G(q \ {Pick(q)})[q \ {Pick(q)}]
           h == [q \in SUBSET r |-> v(q)]
<1>3. \A q \in SUBSET r : q # r => IsSum(G(q), f, q)
  BY <1>2
<1>4. ASSUME NEW q \in SUBSET r, q # {}
      PROVE  h[q \ {Pick(q)}] = G(q \ {Pick(q)})[q \ {Pick(q)}]
  <2> DEFINE p == q \ {Pick(q)}
  <2>1. Pick(q) \in q /\ p # r /\ p \in SUBSET r
    BY <1>4, Pickable
  <2>2. IsSum(G(p), f, p)
    BY <2>1, <1>3
  <2>3. CASE p = {}
    BY <2>1, <2>2, <2>3, SumStep
  <2>4. CASE p # {}
    <3> DEFINE o == p \ {Pick(p)}
    <3>1. Pick(p) \in p /\ o # r /\ o \in SUBSET r /\ o \in SUBSET p
      BY <2>1, <2>4, Pickable
    <3>2. IsSum(G(o), f, o)
      BY <3>1, <1>3
    <3>3. G(p)[p] = f[Pick(p)] + G(p)[o]
      <4> HIDE DEF G
      <4>1. \A s : s \subseteq p /\ s # {} => G(p)[s] = f[Pick(s)] + G(p)[s \ {Pick(s)}]
        <5> HIDE DEF p
        <5> QED BY <2>2, SumStep
      <4> HIDE DEF p
      <4> QED BY <4>1, <2>4
    <3>4. G(p)[o] = G(o)[o]
      <4> HIDE DEF G, o
      <4>1. IsFiniteSet(o)
        BY <3>1, <1>a
      <4> QED BY <3>1, <2>2, <3>2, <4>1, SumUnique
    <3> HIDE DEF G
    <3> QED BY <2>1, <2>4, <3>3, <3>4
  <2> QED BY <2>3, <2>4
<1>5. IsSum(h, f, r)
  <2> HIDE DEF G
  <2> QED BY <1>4 DEF IsSum
<1> QED BY <1>2, <1>5

(* One solution gives the totals of all subsets.                            *)
LEMMA TotalUnfold ==
    ASSUME NEW f, NEW S, IsFiniteSet(S)
    PROVE  \E g : IsSum(g, f, S) /\ \A s \in SUBSET S : Total(f, s) = g[s]
<1>1. PICK g : IsSum(g, f, S)
  BY SumExists
<1>2. ASSUME NEW s \in SUBSET S PROVE Total(f, s) = g[s]
  <2>1. IsFiniteSet(s)
    BY FS_Subset
  <2>2. PICK h : IsSum(h, f, s) /\ Total(f, s) = h[s]
    BY <2>1, SumExists, TotalOfSum
  <2>3. h[s] = g[s]
    BY <1>1, <2>1, <2>2, SumUnique
  <2> QED BY <2>2, <2>3
<1> QED BY <1>1, <1>2

(* Nothing sums up to zero.                                                 *)
LEMMA TotalEmpty == ASSUME NEW f PROVE Total(f, {}) = 0
<1>1. PICK g : IsSum(g, f, {}) /\ \A s \in SUBSET {} : Total(f, s) = g[s]
  BY TotalUnfold, FS_EmptySet
<1>2. g[{}] = 0
  BY <1>1 DEF IsSum
<1> QED BY <1>1, <1>2

(* A sum is the element taken first and the sum of the rest.                *)
LEMMA TotalPick ==
    ASSUME NEW f, NEW S, IsFiniteSet(S), S # {}
    PROVE  Total(f, S) = f[Pick(S)] + Total(f, S \ {Pick(S)})
<1>1. PICK g : IsSum(g, f, S) /\ \A s \in SUBSET S : Total(f, s) = g[s]
  BY TotalUnfold
<1>2. g[S] = f[Pick(S)] + g[S \ {Pick(S)}]
  BY <1>1, SumStep
<1> QED BY <1>1, <1>2

(* Integers sum up to an integer.                                           *)
LEMMA TotalInt ==
    ASSUME NEW f, NEW S, IsFiniteSet(S), \A x \in S : f[x] \in Int
    PROVE  Total(f, S) \in Int
<1> DEFINE B == {r \in SUBSET S : Total(f, r) \notin Int}
<1>1. SUFFICES ASSUME B # {} PROVE FALSE
  OBVIOUS
<1>2. PICK r \in B : \A q \in B : q \subseteq r => q = r
  <2>1. B \in SUBSET (SUBSET S)
    OBVIOUS
  <2> HIDE DEF B
  <2> QED BY <1>1, <2>1, SmallestSet
<1>3. r # {}
  BY TotalEmpty
<1>4. Pick(r) \in r /\ IsFiniteSet(r)
  BY <1>3, Pickable, FS_Subset
<1>5. Total(f, r \ {Pick(r)}) \in Int
  BY <1>2, <1>4
<1> QED BY <1>3, <1>4, <1>5, TotalPick

(* A sum is any element and the sum of the rest.                            *)
LEMMA TotalRemove ==
    ASSUME NEW f, NEW S, IsFiniteSet(S), \A x \in S : f[x] \in Int, NEW x \in S
    PROVE  Total(f, S) = f[x] + Total(f, S \ {x})
<1> DEFINE B == {r \in SUBSET S : \E y \in r : Total(f, r) # f[y] + Total(f, r \ {y})}
<1>1. SUFFICES ASSUME B # {} PROVE FALSE
  OBVIOUS
<1>2. PICK r \in B : \A q \in B : q \subseteq r => q = r
  <2>1. B \in SUBSET (SUBSET S)
    OBVIOUS
  <2> HIDE DEF B
  <2> QED BY <1>1, <2>1, SmallestSet
<1>3. PICK y \in r : Total(f, r) # f[y] + Total(f, r \ {y})
  OBVIOUS
<1> DEFINE z == Pick(r)
<1>4. z \in r /\ \A q \in SUBSET r : IsFiniteSet(q) /\ Total(f, q) \in Int
  BY <1>3, Pickable, FS_Subset, TotalInt
<1>5. Total(f, r) = f[z] + Total(f, r \ {z})
  BY <1>3, <1>4, TotalPick
<1> HIDE DEF z
<1>6. y # z
  BY <1>3, <1>5
<1>7. /\ Total(f, r \ {z}) = f[y] + Total(f, (r \ {z}) \ {y})
      /\ Total(f, r \ {y}) = f[z] + Total(f, (r \ {y}) \ {z})
  <2>1. r \ {z} \notin B /\ r \ {y} \notin B
    BY <1>2, <1>3, <1>4
  <2>2. r \ {z} \in SUBSET S /\ r \ {y} \in SUBSET S /\ y \in r \ {z} /\ z \in r \ {y}
    BY <1>3, <1>4, <1>6
  <2> QED BY <2>1, <2>2
<1>8. (r \ {z}) \ {y} = (r \ {y}) \ {z}
  OBVIOUS
<1>9. Total(f, (r \ {y}) \ {z}) \in Int /\ f[y] \in Int /\ f[z] \in Int
  BY <1>3, <1>4
<1>10. f[z] + (f[y] + Total(f, (r \ {y}) \ {z})) = f[y] + (f[z] + Total(f, (r \ {y}) \ {z}))
  BY <1>9
<1> HIDE DEF B
<1> QED BY <1>3, <1>5, <1>7, <1>8, <1>10

(* Equal terms have equal sums.                                             *)
LEMMA TotalSame ==
    ASSUME NEW f, NEW h, NEW S, IsFiniteSet(S), \A x \in S : f[x] = h[x]
    PROVE  Total(f, S) = Total(h, S)
<1> DEFINE B == {r \in SUBSET S : Total(f, r) # Total(h, r)}
<1>1. SUFFICES ASSUME B # {} PROVE FALSE
  OBVIOUS
<1>2. PICK r \in B : \A q \in B : q \subseteq r => q = r
  <2>1. B \in SUBSET (SUBSET S)
    OBVIOUS
  <2> HIDE DEF B
  <2> QED BY <1>1, <2>1, SmallestSet
<1>3. r # {}
  BY TotalEmpty
<1>4. Pick(r) \in r /\ IsFiniteSet(r)
  BY <1>3, Pickable, FS_Subset
<1>5. Total(f, r \ {Pick(r)}) = Total(h, r \ {Pick(r)})
  BY <1>2, <1>4
<1>6. /\ Total(f, r) = f[Pick(r)] + Total(f, r \ {Pick(r)})
      /\ Total(h, r) = h[Pick(r)] + Total(h, r \ {Pick(r)})
  BY <1>3, <1>4, TotalPick
<1> QED BY <1>4, <1>5, <1>6

(* A term that changes changes the sum by as much.                          *)
LEMMA TotalChange ==
    ASSUME NEW f, NEW h, NEW S, IsFiniteSet(S), \A y \in S : f[y] \in Int /\ h[y] \in Int,
           NEW x \in S, \A y \in S \ {x} : f[y] = h[y]
    PROVE  Total(h, S) = Total(f, S) + h[x] - f[x]
<1>1. IsFiniteSet(S \ {x})
  BY FS_RemoveElement
<1>2. Total(f, S \ {x}) = Total(h, S \ {x})
  BY <1>1, TotalSame
<1>3. Total(f, S) = f[x] + Total(f, S \ {x}) /\ Total(h, S) = h[x] + Total(h, S \ {x})
  BY TotalRemove
<1>4. Total(f, S \ {x}) \in Int
  BY <1>1, TotalInt
<1> QED BY <1>2, <1>3, <1>4

(* A sum of natural numbers is one, and at least each of its terms.         *)
LEMMA TotalNat ==
    ASSUME NEW f, NEW S, IsFiniteSet(S), \A x \in S : f[x] \in Nat
    PROVE  /\ Total(f, S) \in Nat
           /\ \A x \in S : f[x] <= Total(f, S)
<1> DEFINE B == {r \in SUBSET S : Total(f, r) \notin Nat}
<1>1. ASSUME B # {} PROVE FALSE
  <2>2. PICK r \in B : \A q \in B : q \subseteq r => q = r
    <3>1. B \in SUBSET (SUBSET S)
      OBVIOUS
    <3> HIDE DEF B
    <3> QED BY <1>1, <3>1, SmallestSet
  <2>3. r # {}
    BY TotalEmpty
  <2>4. Pick(r) \in r /\ IsFiniteSet(r)
    BY <2>3, Pickable, FS_Subset
  <2>5. Total(f, r \ {Pick(r)}) \in Nat
    BY <2>2, <2>4
  <2> QED BY <2>3, <2>4, <2>5, TotalPick
<1>2. \A r \in SUBSET S : Total(f, r) \in Nat
  BY <1>1
<1>3. ASSUME NEW x \in S PROVE f[x] <= Total(f, S)
  <2>1. Total(f, S \ {x}) \in Nat
    BY <1>2
  <2> QED BY <2>1, TotalRemove
<1> QED BY <1>2, <1>3

(* Of natural numbers, part of them sums up to no more than all.            *)
LEMMA TotalSubset ==
    ASSUME NEW f, NEW T, IsFiniteSet(T), \A x \in T : f[x] \in Nat, NEW S \in SUBSET T
    PROVE  Total(f, S) <= Total(f, T)
<1> DEFINE R == T \ S
           B == {r \in SUBSET R : ~(Total(f, S) <= Total(f, S \cup r))}
<1>1. SUFFICES ASSUME B # {} PROVE FALSE
  <2>1. S \cup R = T
    OBVIOUS
  <2> QED BY <2>1
<1>2. \A q \in SUBSET T : IsFiniteSet(q) /\ Total(f, q) \in Nat
  BY FS_Subset, TotalNat
<1>3. PICK r \in B : \A q \in B : q \subseteq r => q = r
  <2>1. B \in SUBSET (SUBSET R) /\ IsFiniteSet(R)
    BY <1>2
  <2> HIDE DEF B, R
  <2> QED BY <1>1, <2>1, SmallestSet
<1>4. PICK x \in r : TRUE
  <2>1. r # {}
    <3>1. S \cup {} = S
      OBVIOUS
    <3> QED BY <1>2, <3>1
  <2> QED BY <2>1
<1>5. Total(f, S) <= Total(f, S \cup (r \ {x}))
  <2>1. r \ {x} \in SUBSET R /\ r \ {x} \subseteq r /\ r \ {x} # r
    BY <1>4
  <2> QED BY <1>3, <2>1
<1>6. Total(f, S \cup r) = f[x] + Total(f, S \cup (r \ {x}))
  <2>1. S \cup r \in SUBSET T /\ x \in S \cup r /\ (S \cup r) \ {x} = S \cup (r \ {x})
    BY <1>4
  <2> HIDE DEF B, R
  <2> QED BY <1>2, <2>1, TotalRemove
<1>7. f[x] \in Nat /\ Total(f, S) \in Nat /\ Total(f, S \cup (r \ {x})) \in Nat
  <2>1. x \in T /\ S \cup (r \ {x}) \in SUBSET T
    BY <1>4
  <2> QED BY <1>2, <2>1
<1> QED BY <1>3, <1>5, <1>6, <1>7

(* Zeros sum up to zero.                                                    *)
LEMMA TotalZero ==
    ASSUME NEW f, NEW S, IsFiniteSet(S), \A x \in S : f[x] = 0
    PROVE  Total(f, S) = 0
<1> DEFINE B == {r \in SUBSET S : Total(f, r) # 0}
<1>1. SUFFICES ASSUME B # {} PROVE FALSE
  OBVIOUS
<1>2. PICK r \in B : \A q \in B : q \subseteq r => q = r
  <2>1. B \in SUBSET (SUBSET S)
    OBVIOUS
  <2> HIDE DEF B
  <2> QED BY <1>1, <2>1, SmallestSet
<1>3. r # {}
  BY TotalEmpty
<1>4. Pick(r) \in r /\ IsFiniteSet(r)
  BY <1>3, Pickable, FS_Subset
<1>5. Total(f, r \ {Pick(r)}) = 0
  BY <1>2, <1>4
<1> QED BY <1>3, <1>4, <1>5, TotalPick
-----------------------------------------------------------------------------
(* The sum of a column of a table e with a row for each of U: what a        *)
(* contract owes of asset t to all accounts.                                *)
ColumnSum(e, t, U) == MapThenSumSet(LAMBDA u : e[u][t], U)
Column(e, t, U) == [u \in U |-> e[u][t]]

(* The sum of a column is the total of a function.                          *)
LEMMA ColumnTotal ==
    ASSUME NEW U, IsFiniteSet(U), NEW e, NEW t
    PROVE  ColumnSum(e, t, U) = Total(Column(e, t, U), U)
<1> DEFINE Is(g) == g = [s \in SUBSET U |-> IF s = {} THEN 0 ELSE e[Pick(s)][t] + g[s \ {Pick(s)}]]
           h == CHOOSE g : Is(g)
<1>1. ColumnSum(e, t, U) = h[U]
  BY DEF ColumnSum, MapThenSumSet, MapThenFoldSet, Pick
<1>2. ASSUME NEW g PROVE Is(g) <=> IsSum(g, Column(e, t, U), U)
  <2>1. \A s \in SUBSET U : s # {} => Column(e, t, U)[Pick(s)] = e[Pick(s)][t]
    BY Pickable DEF Column
  <2> QED BY <2>1 DEF IsSum
<1>3. \E g : Is(g)
  BY <1>2, SumExists
<1>4. Is(h)
  BY <1>3
<1> HIDE DEF h, Is
<1>5. IsSum(h, Column(e, t, U), U)
  BY <1>2, <1>4
<1>6. PICK g : IsSum(g, Column(e, t, U), U) /\ Total(Column(e, t, U), U) = g[U]
  BY <1>5, TotalOfSum
<1> QED BY <1>1, <1>5, <1>6, SumUnique

(* It is an integer, or a natural number no entry exceeds.                  *)
LEMMA ColumnInt ==
    ASSUME NEW U, IsFiniteSet(U), NEW V, NEW e \in LedgersOver(U, V), NEW t \in V
    PROVE  ColumnSum(e, t, U) \in Int
<1>1. \A u \in U : Column(e, t, U)[u] \in Int
  BY DEF Column, LedgersOver
<1> QED BY <1>1, ColumnTotal, TotalInt

(* A column of natural numbers sums up to one that no entry exceeds.        *)
LEMMA ColumnNat ==
    ASSUME NEW U, IsFiniteSet(U), NEW V, NEW e \in [U -> [V -> Nat]], NEW t \in V
    PROVE  /\ ColumnSum(e, t, U) \in Nat
           /\ \A u \in U : e[u][t] <= ColumnSum(e, t, U)
<1>1. \A u \in U : Column(e, t, U)[u] \in Nat /\ Column(e, t, U)[u] = e[u][t]
  BY DEF Column
<1> QED BY <1>1, ColumnTotal, TotalNat

(* An empty column sums up to zero.                                         *)
LEMMA ColumnZero ==
    ASSUME NEW U, IsFiniteSet(U), NEW e, NEW t, \A u \in U : e[u][t] = 0
    PROVE  ColumnSum(e, t, U) = 0
<1>1. \A u \in U : Column(e, t, U)[u] = 0
  BY DEF Column
<1> QED BY <1>1, ColumnTotal, TotalZero

(* An entry that changes changes the sum of its column, and of no other.    *)
LEMMA ColumnPlus ==
    ASSUME NEW U, IsFiniteSet(U), NEW V, NEW e \in LedgersOver(U, V), NEW r \in U, NEW t \in V,
           NEW n \in Int, NEW s \in V
    PROVE  ColumnSum(Plus(e, r, t, n), s, U) = ColumnSum(e, s, U) + (IF s = t THEN n ELSE 0)
<1> DEFINE d == Plus(e, r, t, n)
           f == Column(e, s, U)
           h == Column(d, s, U)
<1>1. d \in LedgersOver(U, V)
  BY PlusOK
<1>2. d[r][s] = e[r][s] + (IF s = t THEN n ELSE 0) /\ \A u \in U : u # r => d[u][s] = e[u][s]
  BY DEF LedgersOver, Plus
<1> HIDE DEF d
<1>3. /\ \A u \in U : f[u] \in Int /\ h[u] \in Int
      /\ \A u \in U \ {r} : f[u] = h[u]
      /\ h[r] = f[r] + (IF s = t THEN n ELSE 0)
  BY <1>1, <1>2 DEF Column, LedgersOver
<1> HIDE DEF f, h
<1>4. Total(h, U) = Total(f, U) + h[r] - f[r]
  BY <1>3, TotalChange
<1>5. Total(f, U) \in Int
  BY <1>3, TotalInt
<1>6. Total(h, U) = Total(f, U) + (IF s = t THEN n ELSE 0)
  BY <1>3, <1>4, <1>5
<1> QED BY <1>6, ColumnTotal DEF d, f, h
=============================================================================
