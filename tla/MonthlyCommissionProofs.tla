----------------------- MODULE MonthlyCommissionProofs -----------------------
(* Proofs about MonthlyCommission, for any number of sales, any calendar of *)
(* plan versions and any facts.                                             *)
EXTENDS MonthlyCommission, FiniteSetTheorems, TLAPS

(* An initial table of sales is empty and has its type.                    *)
LEMMA InitType == Init => TypeOK
  BY ConstantsAssumption DEF Init, TypeOK, SaleIds

(* Every operation keeps the type of the rows and the order of the keys.   *)
LEMMA StepType == TypeOK /\ [Next]_vars => TypeOK'
<1> SUFFICES ASSUME TypeOK, [Next]_vars PROVE TypeOK'
  OBVIOUS
<1>1. ASSUME NEW f \in Facts, AddSale(f) PROVE TypeOK'
  <2>1. /\ sales' = [sales EXCEPT ![last + 1] = f]
        /\ last + 1 \in SaleIds /\ last' = last + 1
    BY <1>1 DEF AddSale
  <2>2. last \in Int /\ \A s \in SaleIds : s \in Int
    BY ConstantsAssumption DEF TypeOK, SaleIds
  <2>3. \A s \in SaleIds : sales'[s] # NoSale => s <= last'
    BY <2>1, <2>2 DEF TypeOK
  <2> QED
    BY <1>1, <2>1, <2>3 DEF AddSale, TypeOK
<1>2. ASSUME NEW s \in SaleIds, NEW f \in Facts, EditSale(s, f) PROVE TypeOK'
  BY <1>2 DEF EditSale, TypeOK
<1>3. ASSUME NEW s \in SaleIds, DeleteSale(s) PROVE TypeOK'
  BY <1>3 DEF DeleteSale, TypeOK
<1>4. ASSUME NEW m \in 0..Months, NEW e \in Eligibilities, SetEligibility(m, e) PROVE TypeOK'
  BY <1>4 DEF SetEligibility, TypeOK
<1>5. CASE UNCHANGED vars
  BY <1>5 DEF vars, TypeOK
<1> QED
  BY <1>1, <1>2, <1>3, <1>4, <1>5 DEF Next

(* The rows keep their type, and no sale has a key that was not given: an   *)
(* edit may bring back a row that was deleted, but no other.                *)
THEOREM TypeCorrect == Spec => []TypeOK
<1> QED
  BY InitType, StepType, PTL DEF Spec

(* A row contributes to the units before a sale only what it says itself;   *)
(* where it changed, it comes after the sale on both sides and contributes  *)
(* nothing.                                                                 *)
LEMMA SameUnitsBefore ==
  ASSUME NEW t \in SaleIds, TypeOK, TypeOK',
         sales[t] # NoSale, sales'[t] = sales[t],
         \A s \in SaleIds : sales'[s] # sales[s] =>
           /\ sales[s] # NoSale => Precedes(t, s)
           /\ sales'[s] # NoSale => Precedes(t, s)'
  PROVE  UnitsBefore(t)' = UnitsBefore(t)
<1> DEFINE part(s) == IF SameSeries(s, t) /\ Precedes(s, t) THEN sales[s].count ELSE 0
<1>1. ASSUME NEW s \in SaleIds PROVE part(s)' = part(s)
  <2>1. CASE sales'[s] = sales[s]
    BY <2>1 DEF SameSeries, Precedes
  <2>2. CASE sales'[s] # sales[s]
    <3>1. s \in Int /\ t \in Int
      BY ConstantsAssumption DEF SaleIds
    <3>2. ~(SameSeries(s, t) /\ Precedes(s, t))
      <4>1. CASE sales[s] = NoSale
        BY <4>1 DEF SameSeries
      <4>2. CASE sales[s] # NoSale
        <5>1. Precedes(t, s)
          BY <2>2, <4>2
        <5>2. sales[s].day \in Int /\ sales[t].day \in Int
          BY <4>2, ConstantsAssumption DEF TypeOK, Days
        <5> QED
          BY <3>1, <5>1, <5>2 DEF Precedes
      <4> QED BY <4>1, <4>2
    <3>3. ~(SameSeries(s, t) /\ Precedes(s, t))'
      <4>1. CASE sales'[s] = NoSale
        BY <4>1 DEF SameSeries
      <4>2. CASE sales'[s] # NoSale
        <5>1. Precedes(t, s)'
          BY <2>2, <4>2
        <5>2. sales'[s].day \in Int /\ sales'[t].day \in Int
          BY <4>2, ConstantsAssumption DEF TypeOK, Days
        <5> QED
          BY <3>1, <5>1, <5>2 DEF Precedes
      <4> QED BY <4>1, <4>2
    <3> QED BY <3>2, <3>3
  <2> QED BY <2>1, <2>2
<1>2. [s \in SaleIds |-> part(s)]' = [s \in SaleIds |-> part(s)]
  <2>1. [s \in SaleIds |-> part(s)]' = [s \in SaleIds |-> part(s)']
    OBVIOUS
  <2> HIDE DEF part
  <2> QED BY <1>1, <2>1
<1>3. UnitsBefore(t) = Total([s \in SaleIds |-> part(s)])
  BY DEF UnitsBefore
<1>4. UnitsBefore(t)' = Total([s \in SaleIds |-> part(s)]')
  BY DEF UnitsBefore
<1> QED
  BY <1>2, <1>3, <1>4

(* A later sale is not retroactive: no step changes the position, and so    *)
(* the progressive rate, of a sale that comes before all it touches.        *)
THEOREM NonRetroactiveCorrect == Spec => NonRetroactive
<1>1. TypeOK /\ [Next]_vars => [\A t \in SaleIds :
       /\ sales[t] # NoSale
       /\ sales'[t] = sales[t]
       /\ \A s \in SaleIds : sales'[s] # sales[s] =>
            /\ sales[s] # NoSale => Precedes(t, s)
            /\ sales'[s] # NoSale => Precedes(t, s)'
       => Position(t)' = Position(t)]_vars
  <2> SUFFICES ASSUME TypeOK, [Next]_vars, NEW t \in SaleIds,
                      sales[t] # NoSale, sales'[t] = sales[t],
                      \A s \in SaleIds : sales'[s] # sales[s] =>
                        /\ sales[s] # NoSale => Precedes(t, s)
                        /\ sales'[s] # NoSale => Precedes(t, s)'
               PROVE  Position(t)' = Position(t)
    OBVIOUS
  <2>1. UnitsBefore(t)' = UnitsBefore(t)
    BY SameUnitsBefore, StepType
  <2> QED
    BY <2>1 DEF Position, UnitsAfter
<1> QED
  BY <1>1, TypeCorrect, PTL DEF Spec, NonRetroactive

-----------------------------------------------------------------------------
(* Sums                                                                     *)
(*                                                                          *)
(* Total is a fold over a set whose elements are taken in an order nobody   *)
(* knows. The recursion of the fold has a solution for every finite set     *)
(* (SumsExist), its value does not depend on the order (SumTaken), and so   *)
(* a total can be compared, split and extended. The induction is over the   *)
(* finite subsets of a set: a smallest one that is not good does not exist. *)

(* The element that a fold takes first.                                     *)
One(s) == CHOOSE x \in s : TRUE

Sums(f, D) ==
  CHOOSE g : g = [s \in SUBSET D |-> IF s = {} THEN 0 ELSE f[One(s)] + g[s \ {One(s)}]]

(* A total is the sum, by definition of the fold.                          *)
LEMMA TotalSums == \A f : Total(f) = Sums(f, DOMAIN f)[DOMAIN f]
BY DEF Total, FoldFunction, FoldFunctionOnSet, MapThenFoldSet, Sums, One

(* What holds of a set when it holds of its proper subsets holds of all    *)
(* subsets of a finite set.                                                *)
LEMMA FiniteInduction ==
  ASSUME NEW D, IsFiniteSet(D), NEW G,
         \A T \in SUBSET D : (\A U \in SUBSET T : U # T => U \in G) => T \in G
  PROVE  \A T \in SUBSET D : T \in G
<1> DEFINE Bad == {T \in SUBSET D : T \notin G}
<1>1. IsWellFoundedOn(StrictSubsetOrdering(D), SUBSET D)
  <2>1. FiniteSubsetsOf(D) = SUBSET D
    BY FS_FiniteSubsetsOfFinite
  <2> QED
    BY <2>1, FS_StrictSubsetOrderingWellFounded
<1>2. SUFFICES ASSUME Bad # {} PROVE FALSE
  OBVIOUS
<1>3. Bad \subseteq SUBSET D
  OBVIOUS
<1>4. \E T \in Bad : \A U \in Bad : ~(<<U, T>> \in StrictSubsetOrdering(D))
  <2> HIDE DEF Bad
  <2> QED
    BY <1>1, <1>2, <1>3, WFMin
<1>5. PICK T \in Bad : \A U \in Bad : ~(<<U, T>> \in StrictSubsetOrdering(D))
  BY <1>4
<1>6. \A U \in SUBSET T : U # T => U \in G
  BY <1>5 DEF StrictSubsetOrdering
<1> QED
  BY <1>5, <1>6

Unroll(f, g, D) ==
  g = [s \in SUBSET D |-> IF s = {} THEN 0 ELSE f[One(s)] + g[s \ {One(s)}]]

(* Two ways of summing agree on what both sum.                             *)
LEMMA SumsUnique ==
  ASSUME NEW f, NEW D, IsFiniteSet(D), NEW E \in SUBSET D, NEW g, NEW h, Unroll(f, g, D), Unroll(f, h, E)
  PROVE  \A s \in SUBSET E : g[s] = h[s]
<1> DEFINE G == {s \in SUBSET E : g[s] = h[s]}
<1>1. IsFiniteSet(E)
  BY FS_Subset
<1>2. ASSUME NEW T \in SUBSET E, \A U \in SUBSET T : U # T => U \in G
      PROVE  T \in G
  <2>1. CASE T = {}
    BY <2>1 DEF Unroll
  <2>2. CASE T # {}
    <3>1. One(T) \in T
      BY <2>2 DEF One
    <3>2. g[T \ {One(T)}] = h[T \ {One(T)}]
      BY <1>2, <3>1
    <3>3. g[T] = f[One(T)] + g[T \ {One(T)}] /\ h[T] = f[One(T)] + h[T \ {One(T)}]
      BY <2>2 DEF Unroll
    <3> QED
      BY <3>2, <3>3
  <2> QED
    BY <2>1, <2>2
<1>3. \A T \in SUBSET E : T \in G
  <2> HIDE DEF G
  <2> QED
    BY <1>1, <1>2, FiniteInduction
<1> QED
  BY <1>3

(* The recursion has a solution on a finite set.                           *)
LEMMA SumsExist ==
  ASSUME NEW f, NEW D, IsFiniteSet(D)
  PROVE  \A T \in SUBSET D : \E g : Unroll(f, g, T)
<1> DEFINE G == {T \in SUBSET D : \E g : Unroll(f, g, T)}
<1>1. ASSUME NEW T \in SUBSET D, \A U \in SUBSET T : U # T => U \in G
      PROVE  T \in G
  <2> DEFINE part(U) == CHOOSE g : Unroll(f, g, U)
             rest(s) == s \ {One(s)}
             g == [s \in SUBSET T |-> IF s = {} THEN 0 ELSE f[One(s)] + part(rest(s))[rest(s)]]
  <2>1. \A U \in SUBSET T : U # T => Unroll(f, part(U), U)
    BY <1>1
  <2>2. \A s \in SUBSET T : s # {} => One(s) \in s /\ rest(s) \in SUBSET T /\ rest(s) # T
    BY DEF One
  <2>3. ASSUME NEW s \in SUBSET T, s # {}
        PROVE  part(rest(s))[rest(s)] = g[rest(s)]
    <3> DEFINE r == rest(s)
    <3>1. r \in SUBSET T /\ r # T
      BY <2>2, <2>3
    <3>2. CASE r = {}
      <4>1. Unroll(f, part(r), r)
        BY <2>1, <3>1
      <4>2. part(r)[r] = 0
        BY <3>2, <4>1 DEF Unroll
      <4> QED
        BY <3>1, <3>2, <4>2
    <3>3. CASE r # {}
      <4> DEFINE q == rest(r)
      <4>1. q \in SUBSET r /\ q \in SUBSET T /\ q # T
        BY <2>2, <3>1, <3>3
      <4>2. Unroll(f, part(r), r) /\ Unroll(f, part(q), q)
        BY <2>1, <3>1, <4>1
      <4>3. part(r)[r] = f[One(r)] + part(r)[q]
        <5> HIDE DEF part
        <5> QED
          BY <3>3, <4>2 DEF Unroll
      <4>4. IsFiniteSet(r)
        BY <3>1, FS_Subset
      <4>5. part(r)[q] = part(q)[q]
        <5> HIDE DEF part, q, r
        <5> QED
          BY <4>1, <4>2, <4>4, SumsUnique
      <4>6. g[r] = f[One(r)] + part(q)[q]
        <5> HIDE DEF part
        <5> QED
          BY <3>1, <3>3
      <4> QED
        BY <4>3, <4>5, <4>6
    <3> QED
      BY <3>2, <3>3
  <2>4. Unroll(f, g, T)
    <3>1. \A s \in SUBSET T : g[s] = IF s = {} THEN 0 ELSE f[One(s)] + g[s \ {One(s)}]
      <4> HIDE DEF part
      <4> QED
        BY <2>3
    <3>2. g = [s \in SUBSET T |-> g[s]]
      OBVIOUS
    <3> HIDE DEF g
    <3> QED
      BY <3>1, <3>2, Zenon DEF Unroll
  <2> QED
    BY <2>4
<1>2. \A T \in SUBSET D : T \in G
  <2> HIDE DEF G
  <2> QED
    BY <1>1, FiniteInduction
<1> QED
  BY <1>2

SumOver(f, s) == Sums(f, s)[s]

(* A total is a sum over the domain of what is summed.                     *)
LEMMA TotalSum == \A f : Total(f) = SumOver(f, DOMAIN f)
BY TotalSums DEF SumOver

(* So the sums are that solution.                                          *)
LEMMA SumsUnroll ==
  ASSUME NEW f, NEW D, IsFiniteSet(D)
  PROVE  Unroll(f, Sums(f, D), D)
<1>1. \E g : Unroll(f, g, D)
  BY SumsExist
<1> QED
  BY <1>1 DEF Sums, Unroll

(* The recursion as the definition has it.                                 *)
LEMMA SumFirst ==
  ASSUME NEW f, NEW s, IsFiniteSet(s)
  PROVE  /\ s = {} => SumOver(f, s) = 0
         /\ s # {} => SumOver(f, s) = f[One(s)] + SumOver(f, s \ {One(s)})
<1>1. Unroll(f, Sums(f, s), s)
  BY SumsUnroll
<1>2. CASE s = {}
  BY <1>1, <1>2 DEF Unroll, SumOver
<1>3. CASE s # {}
  <2> DEFINE r == s \ {One(s)}
  <2>1. IsFiniteSet(r) /\ r \in SUBSET s
    BY FS_Subset
  <2>2. Unroll(f, Sums(f, r), r)
    BY <2>1, SumsUnroll
  <2>3. Sums(f, s)[r] = Sums(f, r)[r]
    <3> HIDE DEF r
    <3> QED
      BY <1>1, <2>1, <2>2, SumsUnique
  <2>4. Sums(f, s)[s] = f[One(s)] + Sums(f, s)[r]
    BY <1>1, <1>3 DEF Unroll
  <2> QED
    BY <1>3, <2>3, <2>4 DEF SumOver
<1> QED
  BY <1>2, <1>3

(* A finite sum of integers is an integer.                                 *)
LEMMA SumType ==
  ASSUME NEW f, NEW s, IsFiniteSet(s), \A x \in s : f[x] \in Int
  PROVE  SumOver(f, s) \in Int
<1> DEFINE G == {T \in SUBSET s : SumOver(f, T) \in Int}
<1>1. ASSUME NEW T \in SUBSET s, \A U \in SUBSET T : U # T => U \in G
      PROVE  T \in G
  <2>1. IsFiniteSet(T)
    BY FS_Subset
  <2>2. CASE T = {}
    <3>1. SumOver(f, T) = 0
      BY <2>1, <2>2, SumFirst
    <3> QED
      BY <3>1
  <2>3. CASE T # {}
    <3>1. One(T) \in T
      BY <2>3 DEF One
    <3>2. SumOver(f, T \ {One(T)}) \in Int /\ f[One(T)] \in Int
      BY <1>1, <3>1
    <3>3. SumOver(f, T) = f[One(T)] + SumOver(f, T \ {One(T)})
      BY <2>1, <2>3, SumFirst
    <3> QED
      BY <3>2, <3>3
  <2> QED
    BY <2>2, <2>3
<1>2. \A T \in SUBSET s : T \in G
  <2> HIDE DEF G
  <2> QED
    BY <1>1, FiniteInduction
<1> QED
  BY <1>2

(* Any element may be taken out first.                                     *)
LEMMA SumTaken ==
  ASSUME NEW f, NEW s, IsFiniteSet(s), \A x \in s : f[x] \in Int, NEW x \in s
  PROVE  SumOver(f, s) = f[x] + SumOver(f, s \ {x})
<1> DEFINE G == {T \in SUBSET s : \A z \in T : SumOver(f, T) = f[z] + SumOver(f, T \ {z})}
<1>1. ASSUME NEW T \in SUBSET s, \A U \in SUBSET T : U # T => U \in G
      PROVE  T \in G
  <2> SUFFICES ASSUME NEW z \in T PROVE SumOver(f, T) = f[z] + SumOver(f, T \ {z})
    OBVIOUS
  <2> DEFINE y == One(T)
  <2>1. IsFiniteSet(T) /\ IsFiniteSet(T \ {y}) /\ IsFiniteSet(T \ {z}) /\ IsFiniteSet(T \ {y, z})
    BY FS_Subset
  <2>2. y \in T
    BY DEF One
  <2>3. SumOver(f, T) = f[y] + SumOver(f, T \ {y})
    BY <2>1, SumFirst
  <2>4. CASE y = z
    BY <2>3, <2>4
  <2>5. CASE y # z
    <3> HIDE DEF y
    <3>1. (T \ {y}) \ {z} = T \ {y, z} /\ (T \ {z}) \ {y} = T \ {y, z}
      OBVIOUS
    <3>2. T \ {y} \in G /\ T \ {z} \in G
      BY <1>1, <2>2
    <3>3. SumOver(f, T \ {y}) = f[z] + SumOver(f, T \ {y, z})
      BY <2>5, <3>1, <3>2
    <3>4. SumOver(f, T \ {z}) = f[y] + SumOver(f, T \ {y, z})
      BY <2>2, <2>5, <3>1, <3>2
    <3>5. SumOver(f, T \ {y, z}) \in Int /\ f[y] \in Int /\ f[z] \in Int
      BY <2>1, <2>2, SumType
    <3> QED
      BY <2>3, <3>3, <3>4, <3>5
  <2> QED
    BY <2>4, <2>5
<1>2. \A T \in SUBSET s : T \in G
  <2> HIDE DEF G
  <2> QED
    BY <1>1, FiniteInduction
<1> QED
  BY <1>2

(* A sum is monotone in its summands, and depends on them only.            *)
LEMMA SumLeq ==
  ASSUME NEW f, NEW g, NEW s, IsFiniteSet(s),
         \A x \in s : f[x] \in Int /\ g[x] \in Int /\ f[x] <= g[x]
  PROVE  SumOver(f, s) <= SumOver(g, s)
<1> DEFINE G == {T \in SUBSET s : SumOver(f, T) <= SumOver(g, T)}
<1>1. ASSUME NEW T \in SUBSET s, \A U \in SUBSET T : U # T => U \in G
      PROVE  T \in G
  <2>1. IsFiniteSet(T) /\ IsFiniteSet(T \ {One(T)})
    BY FS_Subset
  <2>2. CASE T = {}
    <3>1. SumOver(f, T) = 0 /\ SumOver(g, T) = 0
      BY <2>1, <2>2, SumFirst
    <3> QED
      BY <3>1
  <2>3. CASE T # {}
    <3>1. One(T) \in T
      BY <2>3 DEF One
    <3>2. SumOver(f, T \ {One(T)}) <= SumOver(g, T \ {One(T)})
      BY <1>1, <3>1
    <3>3. SumOver(f, T \ {One(T)}) \in Int /\ SumOver(g, T \ {One(T)}) \in Int
      BY <2>1, SumType
    <3>4. /\ SumOver(f, T) = f[One(T)] + SumOver(f, T \ {One(T)})
          /\ SumOver(g, T) = g[One(T)] + SumOver(g, T \ {One(T)})
      BY <2>1, <2>3, SumFirst
    <3> QED
      BY <3>1, <3>2, <3>3, <3>4
  <2> QED
    BY <2>2, <2>3
<1>2. \A T \in SUBSET s : T \in G
  <2> HIDE DEF G
  <2> QED
    BY <1>1, FiniteInduction
<1> QED
  BY <1>2

(* Equal summands have equal sums.                                         *)
LEMMA SumSame ==
  ASSUME NEW f, NEW g, NEW s, IsFiniteSet(s),
         \A x \in s : f[x] \in Int /\ g[x] = f[x]
  PROVE  SumOver(g, s) = SumOver(f, s)
<1>1. SumOver(g, s) <= SumOver(f, s) /\ SumOver(f, s) <= SumOver(g, s)
  BY SumLeq
<1> QED
  BY <1>1, SumType

(* What is zero need not be summed.                                        *)
LEMMA SumRestricted ==
  ASSUME NEW f, NEW s, IsFiniteSet(s), NEW r \in SUBSET s,
         \A x \in s : f[x] \in Int,
         \A x \in s \ r : f[x] = 0
  PROVE  SumOver(f, s) = SumOver(f, r)
<1> DEFINE G == {T \in SUBSET s : SumOver(f, T) = SumOver(f, T \cap r)}
<1>1. ASSUME NEW T \in SUBSET s, \A U \in SUBSET T : U # T => U \in G
      PROVE  T \in G
  <2>1. IsFiniteSet(T) /\ IsFiniteSet(T \cap r)
    BY FS_Subset
  <2>2. CASE T \subseteq r
    <3>1. T \cap r = T
      BY <2>2
    <3> QED
      BY <3>1
  <2>3. CASE ~(T \subseteq r)
    <3>1. PICK x \in T : x \notin r
      BY <2>3
    <3>2. (T \ {x}) \cap r = T \cap r
      BY <3>1
    <3>3. SumOver(f, T \ {x}) = SumOver(f, T \cap r)
      BY <1>1, <3>1, <3>2
    <3>4. SumOver(f, T) = f[x] + SumOver(f, T \ {x})
      BY <2>1, SumTaken
    <3>5. SumOver(f, T \cap r) \in Int
      BY <2>1, SumType
    <3> QED
      BY <3>1, <3>3, <3>4, <3>5
  <2> QED
    BY <2>2, <2>3
<1>2. \A T \in SUBSET s : T \in G
  <2> HIDE DEF G
  <2> QED
    BY <1>1, FiniteInduction
<1>3. s \cap r = r
  OBVIOUS
<1> QED
  BY <1>2, <1>3

(* Two totals over the same keys compare as their summands do.             *)
LEMMA TotalLeq ==
  ASSUME NEW D, IsFiniteSet(D), NEW f \in [D -> Int], NEW g \in [D -> Int],
         \A x \in D : f[x] <= g[x]
  PROVE  Total(f) <= Total(g)
<1>1. DOMAIN f = D /\ DOMAIN g = D
  OBVIOUS
<1> QED
  BY <1>1, TotalSum, SumLeq

(* A total of integers is an integer.                                      *)
LEMMA TotalType ==
  ASSUME NEW D, IsFiniteSet(D), NEW f \in [D -> Int]
  PROVE  Total(f) \in Int
<1>1. DOMAIN f = D
  OBVIOUS
<1> QED
  BY <1>1, TotalSum, SumType

(* What one summand grows by, the total grows by.                          *)
LEMMA TotalPlus ==
  ASSUME NEW D, IsFiniteSet(D), NEW f \in [D -> Int], NEW x \in D, NEW n \in Int
  PROVE  Total([f EXCEPT ![x] = @ + n]) = Total(f) + n
<1> DEFINE g == [f EXCEPT ![x] = @ + n]
<1>1. DOMAIN f = D /\ DOMAIN g = D /\ g \in [D -> Int] /\ g[x] = f[x] + n
  OBVIOUS
<1>2. IsFiniteSet(D \ {x}) /\ \A y \in D \ {x} : g[y] = f[y]
  BY FS_Subset
<1> HIDE DEF g
<1>3. SumOver(g, D \ {x}) = SumOver(f, D \ {x}) /\ SumOver(f, D \ {x}) \in Int
  BY <1>1, <1>2, SumSame, SumType
<1>4. /\ SumOver(f, D) = f[x] + SumOver(f, D \ {x})
      /\ SumOver(g, D) = g[x] + SumOver(g, D \ {x})
  BY <1>1, SumTaken
<1>5. Total(g) = Total(f) + n
  BY <1>1, <1>3, <1>4, TotalSum
<1> QED
  BY <1>5 DEF g

(* The total of a part is the total of the whole where the rest is zero.   *)
LEMMA TotalOfPart ==
  ASSUME NEW D, IsFiniteSet(D), NEW E \in SUBSET D, NEW f \in [D -> Int], NEW h \in [E -> Int],
         \A x \in D : f[x] = IF x \in E THEN h[x] ELSE 0
  PROVE  Total(h) = Total(f)
<1>1. DOMAIN f = D /\ DOMAIN h = E /\ IsFiniteSet(E)
  BY FS_Subset
<1>2. SumOver(f, D) = SumOver(f, E)
  BY SumRestricted
<1>3. SumOver(f, E) = SumOver(h, E)
  BY <1>1, SumSame
<1> QED
  BY <1>1, <1>2, <1>3, TotalSum

-----------------------------------------------------------------------------
(* Positions                                                                *)

Summand(t) == [s \in SaleIds |-> IF SameSeries(s, t) /\ Precedes(s, t) THEN sales[s].count ELSE 0]

(* There are finitely many keys.                                           *)
LEMMA SalesFinite == IsFiniteSet(SaleIds)
BY ConstantsAssumption, FS_Interval DEF SaleIds

(* What a recorded sale says of its day and its units.                     *)
LEMMA SeriesRow ==
  ASSUME TypeOK, NEW s \in SaleIds, sales[s] # NoSale
  PROVE  /\ s \in Int /\ sales[s].day \in Int
         /\ sales[s].count \in Int /\ sales[s].count >= 0
<1>1. sales[s] \in Facts
  BY DEF TypeOK
<1>2. s \in Int
  BY ConstantsAssumption DEF SaleIds
<1> QED
  BY <1>1, <1>2, ConstantsAssumption DEF Days, Counts

(* The same of two sales of a series.                                      *)
LEMMA SeriesRows ==
  ASSUME TypeOK, NEW s \in SaleIds, NEW t \in SaleIds, SameSeries(s, t)
  PROVE  /\ s \in Int /\ sales[s].day \in Int
         /\ t \in Int /\ sales[t].day \in Int
         /\ sales[s].count \in Int /\ sales[s].count >= 0
<1>1. sales[s] # NoSale /\ sales[t] # NoSale
  BY DEF SameSeries
<1> QED
  BY <1>1, SeriesRow

(* The units before a sale are a total of integers.                        *)
LEMMA SummandType ==
  ASSUME TypeOK, NEW t \in SaleIds
  PROVE  Summand(t) \in [SaleIds -> Int] /\ UnitsBefore(t) = Total(Summand(t)) /\ UnitsBefore(t) \in Int
<1>1. ASSUME NEW s \in SaleIds
      PROVE  (IF SameSeries(s, t) /\ Precedes(s, t) THEN sales[s].count ELSE 0) \in Int
  <2>1. SameSeries(s, t) => sales[s].count \in Int
    BY SeriesRows
  <2> QED
    BY <2>1
<1>3. Summand(t) \in [SaleIds -> Int]
  BY <1>1 DEF Summand
<1>2. UnitsBefore(t) = Total(Summand(t))
  BY DEF UnitsBefore, Summand
<1> QED
  BY <1>2, <1>3, SalesFinite, TotalType

(* The units with a sale are that total with the sale's own units in it.   *)
LEMMA AfterPlus ==
  ASSUME TypeOK, NEW s \in SaleIds, SameSeries(s, s)
  PROVE  /\ UnitsAfter(s) = Total([Summand(s) EXCEPT ![s] = sales[s].count])
         /\ [Summand(s) EXCEPT ![s] = sales[s].count] \in [SaleIds -> Int]
<1>1. sales[s].count \in Int /\ ~Precedes(s, s)
  <2>1. sales[s].count \in Int /\ sales[s].day \in Int /\ s \in Int
    BY SeriesRows
  <2> QED
    BY <2>1 DEF Precedes
<1>2. Summand(s)[s] = 0
  BY <1>1 DEF Summand
<1>3. [Summand(s) EXCEPT ![s] = sales[s].count] = [Summand(s) EXCEPT ![s] = @ + sales[s].count]
  <2>1. Summand(s)[s] + sales[s].count = sales[s].count
    BY <1>1, <1>2
  <2> QED
    BY <2>1
<1>4. Total([Summand(s) EXCEPT ![s] = @ + sales[s].count]) = UnitsBefore(s) + sales[s].count
  BY <1>1, SummandType, SalesFinite, TotalPlus
<1>5. UnitsAfter(s) = UnitsBefore(s) + sales[s].count
  BY DEF UnitsAfter, SameSeries
<1> QED
  BY <1>1, <1>3, <1>4, <1>5, SummandType

(* A sale ends where a later one of its series begins, or before.          *)
LEMMA Apart ==
  ASSUME TypeOK, NEW s \in SaleIds, NEW t \in SaleIds, SameSeries(s, t), Precedes(s, t)
  PROVE  UnitsAfter(s) <= UnitsBefore(t)
<1>1. SameSeries(s, s)
  BY DEF SameSeries
<1> DEFINE f == [Summand(s) EXCEPT ![s] = sales[s].count]
<1>2. UnitsAfter(s) = Total(f) /\ f \in [SaleIds -> Int]
  BY <1>1, AfterPlus
<1>3. ASSUME NEW x \in SaleIds PROVE f[x] <= Summand(t)[x]
  <2>1. CASE x = s
    <3>1. f[x] = sales[s].count
      BY <2>1, SummandType
    <3>2. Summand(t)[x] = sales[s].count
      BY <2>1 DEF Summand
    <3> QED
      BY <3>1, <3>2, SeriesRows
  <2>2. CASE x # s
    <3>1. f[x] = IF SameSeries(x, s) /\ Precedes(x, s) THEN sales[x].count ELSE 0
      BY <2>2 DEF Summand
    <3>2. SameSeries(x, s) /\ Precedes(x, s) => SameSeries(x, t) /\ Precedes(x, t)
      <4> SUFFICES ASSUME SameSeries(x, s), Precedes(x, s) PROVE SameSeries(x, t) /\ Precedes(x, t)
        OBVIOUS
      <4>1. SameSeries(x, t)
        BY DEF SameSeries
      <4>2. /\ sales[x].day \in Int /\ sales[s].day \in Int /\ sales[t].day \in Int
            /\ x \in Int /\ s \in Int /\ t \in Int
        BY SeriesRows
      <4> QED
        BY <4>1, <4>2 DEF Precedes
    <3>3. SameSeries(x, t) => sales[x].count \in Int /\ sales[x].count >= 0
      BY SeriesRows
    <3>4. Summand(t)[x] = IF SameSeries(x, t) /\ Precedes(x, t) THEN sales[x].count ELSE 0
      BY DEF Summand
    <3> QED
      BY <3>1, <3>2, <3>3, <3>4
  <2> QED
    BY <2>1, <2>2
<1> HIDE DEF f
<1> QED
  BY <1>2, <1>3, SummandType, SalesFinite, TotalLeq

(* A series has a last sale.                                               *)
LEMMA LastOfSeries ==
  ASSUME TypeOK, NEW t \in SaleIds, SameSeries(t, t)
  PROVE  \E s \in SaleIds : /\ SameSeries(s, t)
                            /\ \A u \in SaleIds : SameSeries(u, t) /\ u # s => Precedes(u, s)
<1> DEFINE S == {u \in SaleIds : SameSeries(u, t)}
           G == {T \in SUBSET S : T = {} \/ \E s \in T : \A u \in T : u # s => Precedes(u, s)}
<1>1. IsFiniteSet(S)
  BY SalesFinite, FS_Subset
<1>2. ASSUME NEW T \in SUBSET S, \A U \in SUBSET T : U # T => U \in G
      PROVE  T \in G
  <2>1. CASE T = {}
    BY <2>1
  <2>2. CASE T # {}
    <3>1. PICK x \in T : TRUE
      BY <2>2
    <3>2. T \ {x} \in G
      BY <1>2, <3>1
    <3>3. \A u \in T : /\ u \in Int /\ sales[u].day \in Int
      BY SeriesRows
    <3>4. CASE T \ {x} = {}
      BY <3>1, <3>4
    <3>5. CASE T \ {x} # {}
      <4>1. PICK s \in T \ {x} : \A u \in T \ {x} : u # s => Precedes(u, s)
        BY <3>2, <3>5
      <4>2. Precedes(x, s) \/ Precedes(s, x)
        BY <3>1, <3>3, <4>1 DEF Precedes
      <4>3. CASE Precedes(x, s)
        BY <4>1, <4>3
      <4>4. CASE Precedes(s, x)
        <5>1. \A u \in T : u # x => Precedes(u, x)
          BY <3>1, <3>3, <4>1, <4>4 DEF Precedes
        <5> QED
          BY <3>1, <5>1
      <4> QED
        BY <4>2, <4>3, <4>4
    <3> QED
      BY <3>4, <3>5
  <2> QED
    BY <2>1, <2>2
<1>3. S \in G
  <2> HIDE DEF G, S
  <2> QED
    BY <1>1, <1>2, FiniteInduction
<1> QED
  BY <1>3

(* The last sale of a series ends at the units of the series.              *)
LEMMA LastTakesAll ==
  ASSUME TypeOK, NEW t \in SaleIds, SameSeries(t, t), NEW s \in SaleIds, SameSeries(s, t),
         \A u \in SaleIds : SameSeries(u, t) /\ u # s => Precedes(u, s)
  PROVE  UnitsAfter(s) = Units({u \in SaleIds : SameSeries(u, t)})
<1> DEFINE S == {u \in SaleIds : SameSeries(u, t)}
           f == [Summand(s) EXCEPT ![s] = sales[s].count]
           h == [u \in S |-> sales[u].count]
<1>1. UnitsAfter(s) = Total(f) /\ f \in [SaleIds -> Int]
  BY AfterPlus DEF SameSeries
<1>2. h \in [S -> Int]
  BY SeriesRows
<1>3. ASSUME NEW x \in SaleIds PROVE f[x] = IF x \in S THEN h[x] ELSE 0
  <2>1. CASE x = s
    BY <2>1, SummandType
  <2>2. CASE x # s
    <3>1. f[x] = IF SameSeries(x, s) /\ Precedes(x, s) THEN sales[x].count ELSE 0
      BY <2>2 DEF Summand
    <3>2. SameSeries(x, s) <=> SameSeries(x, t)
      BY DEF SameSeries
    <3> QED
      BY <2>2, <3>1, <3>2
  <2> QED
    BY <2>1, <2>2
<1>4. Units(S) = Total(h)
  BY DEF Units
<1>5. S \in SUBSET SaleIds
  OBVIOUS
<1>6. Total(h) = Total(f)
  <2> HIDE DEF f, h, S
  <2> QED
    BY <1>1, <1>2, <1>3, <1>5, SalesFinite, TotalOfPart
<1> QED
  BY <1>1, <1>4, <1>6

(* The positions of the sales of a series follow one another without gap    *)
(* or overlap: an earlier sale ends where a later one begins or before, for *)
(* what is summed before it and itself is summed before the later one, and  *)
(* the last sale of a series, which there always is, ends at its units.     *)
THEOREM PositionsTileCorrect == Spec => []PositionsTile
<1>1. TypeOK => PositionsTile
  <2> SUFFICES ASSUME TypeOK, NEW t \in SaleIds, SameSeries(t, t)
               PROVE  /\ \A s \in SaleIds : SameSeries(s, t) /\ s # t =>
                           UnitsAfter(s) <= UnitsBefore(t) \/ UnitsAfter(t) <= UnitsBefore(s)
                      /\ \E s \in SaleIds : /\ SameSeries(s, t)
                                            /\ UnitsAfter(s) = Units({u \in SaleIds : SameSeries(u, t)})
    BY DEF PositionsTile
  <2>1. ASSUME NEW s \in SaleIds, SameSeries(s, t), s # t
        PROVE  UnitsAfter(s) <= UnitsBefore(t) \/ UnitsAfter(t) <= UnitsBefore(s)
    <3>1. Precedes(s, t) \/ Precedes(t, s)
      BY <2>1, SeriesRows DEF Precedes
    <3>2. SameSeries(t, s)
      BY <2>1 DEF SameSeries
    <3> QED
      BY <2>1, <3>1, <3>2, Apart
  <2>2. PICK s \in SaleIds : /\ SameSeries(s, t)
                             /\ \A u \in SaleIds : SameSeries(u, t) /\ u # s => Precedes(u, s)
    BY LastOfSeries
  <2>3. UnitsAfter(s) = Units({u \in SaleIds : SameSeries(u, t)})
    BY <2>2, LastTakesAll
  <2> QED
    BY <2>1, <2>2, <2>3
<1> QED
  BY <1>1, TypeCorrect, PTL DEF Spec

-----------------------------------------------------------------------------
(* Evaluating rules in their order                                          *)

(* A set of numbers has a least one.                                       *)
LEMMA Least ==
  ASSUME NEW S \in SUBSET Nat, S # {}
  PROVE  \E n \in S : \A k \in S : n <= k
<1> DEFINE less == {ss \in Nat \X Nat : ss[1] < ss[2]}
<1>1. IsWellFoundedOn(less, Nat)
  BY NatLessThanWellFounded DEF OpToRel
<1>2. \E n \in S : \A k \in S : ~(<<k, n>> \in less)
  <2> HIDE DEF less
  <2> QED
    BY <1>1, WFMin
<1>3. PICK n \in S : \A k \in S : ~(<<k, n>> \in less)
  BY <1>2
<1>4. \A k \in S : ~(k < n)
  BY <1>3
<1> QED
  BY <1>4

(* Counting up to a bound.                                                 *)
LEMMA UpTo ==
  ASSUME NEW N \in Nat, NEW G, 0 \in G, \A n \in 1..N : n - 1 \in G => n \in G
  PROVE  \A n \in 0..N : n \in G
<1> DEFINE Bad == {n \in 0..N : n \notin G}
<1>1. SUFFICES ASSUME Bad # {} PROVE FALSE
  OBVIOUS
<1>2. \E n \in Bad : \A k \in Bad : n <= k
  <2>1. Bad \in SUBSET Nat
    OBVIOUS
  <2> HIDE DEF Bad
  <2> QED
    BY <1>1, <2>1, Least
<1>3. PICK n \in Bad : \A k \in Bad : n <= k
  BY <1>2
<1>4. n # 0 /\ n - 1 \in Nat /\ ~(n <= n - 1)
  BY <1>3
<1> QED
  BY <1>3, <1>4

(* Some places of a sequence have a first one.                             *)
LEMMA FirstIn ==
  ASSUME NEW places \in SUBSET Nat, places # {}
  PROVE  First(places) \in places /\ \A i \in places : First(places) <= i
<1>1. \E i \in places : \A k \in places : i <= k
  BY Least
<1> QED
  BY <1>1 DEF First

After(rules, places, ctx, result, after, N) ==
  after = [n \in 0..N |->
             IF n = 0 THEN result
             ELSE IF n \in places THEN EvaluateRule(after[n - 1], rules[n], ctx)
             ELSE after[n - 1]]

(* Evaluating some rules one after another has a result at every place.    *)
LEMMA AfterExists ==
  ASSUME NEW rules, NEW places, NEW ctx, NEW result, NEW N \in Nat
  PROVE  \E after : After(rules, places, ctx, result, after, N)
<1> DEFINE G == {n \in 0..N : \E after : After(rules, places, ctx, result, after, n)}
<1>1. 0 \in G
  <2>1. After(rules, places, ctx, result, [n \in 0..0 |-> result], 0)
    BY DEF After
  <2> QED
    BY <2>1
<1>2. ASSUME NEW n \in 1..N, n - 1 \in G PROVE n \in G
  <2>1. PICK g : After(rules, places, ctx, result, g, n - 1)
    BY <1>2
  <2> DEFINE h == [k \in 0..n |-> IF k = n
                     THEN IF n \in places THEN EvaluateRule(g[n - 1], rules[n], ctx) ELSE g[n - 1]
                     ELSE g[k]]
  <2>2. \A k \in 0..n - 1 : g[k] = IF k = 0 THEN result
             ELSE IF k \in places THEN EvaluateRule(g[k - 1], rules[k], ctx) ELSE g[k - 1]
    BY <2>1 DEF After
  <2>3. \A k \in 0..n : h[k] = IF k = 0 THEN result
             ELSE IF k \in places THEN EvaluateRule(h[k - 1], rules[k], ctx) ELSE h[k - 1]
    BY <2>2
  <2>4. h = [k \in 0..n |-> h[k]]
    OBVIOUS
  <2>5. After(rules, places, ctx, result, h, n)
    <3> HIDE DEF h
    <3> QED
      BY <2>3, <2>4, Zenon DEF After
  <2> QED
    BY <2>5
<1>3. N \in G
  <2> HIDE DEF G
  <2> QED
    BY <1>1, <1>2, UpTo
<1> QED
  BY <1>3

(* What holds of the result before the rules and is kept by each of them   *)
(* holds of the result after them.                                         *)
LEMMA RulesKeep ==
  ASSUME NEW rules, Len(rules) \in Nat, NEW places, NEW ctx, NEW result, NEW G,
         result \in G[0],
         \A n \in 1..Len(rules) : \A r \in G[n - 1] :
           /\ n \in places => EvaluateRule(r, rules[n], ctx) \in G[n]
           /\ n \notin places => r \in G[n]
  PROVE  EvaluateRules(result, rules, places, ctx) \in G[Len(rules)]
<1> DEFINE N == Len(rules)
           after == CHOOSE g : After(rules, places, ctx, result, g, N)
           K == {n \in 0..N : after[n] \in G[n]}
<1>1. After(rules, places, ctx, result, after, N)
  BY AfterExists
<1>2. EvaluateRules(result, rules, places, ctx) = after[N]
  BY DEF EvaluateRules, After
<1> HIDE DEF after
<1>3. \A n \in 0..N : after[n] = IF n = 0 THEN result
             ELSE IF n \in places THEN EvaluateRule(after[n - 1], rules[n], ctx) ELSE after[n - 1]
  BY <1>1 DEF After
<1>4. 0 \in K
  BY <1>3
<1>5. ASSUME NEW n \in 1..N, n - 1 \in K PROVE n \in K
  <2>1. after[n - 1] \in G[n - 1] /\ n \in 0..N
    BY <1>5
  <2>2. after[n] = IF n \in places THEN EvaluateRule(after[n - 1], rules[n], ctx) ELSE after[n - 1]
    BY <1>3, <2>1
  <2> QED
    BY <2>1, <2>2
<1>6. N \in K
  <2>1. N \in Nat
    OBVIOUS
  <2> HIDE DEF K, N
  <2> QED
    BY <1>4, <1>5, <2>1, UpTo
<1> QED
  BY <1>2, <1>6

-----------------------------------------------------------------------------
(* Results                                                                  *)

Lines(rules) ==
  {x \in [rule : rules, outcome : {"applied", "not_applied", "skipped"},
          category : Categories, amount : Int] : x.outcome # "applied" => x.amount = 0}

(* The subtotals are what the items pay.                                   *)
Results(rules) ==
  {r \in [items : Seq(Lines(rules)), subtotal : [Categories -> Int]] :
     \A c \in Categories : r.subtotal[c] = Paid(r.items, {c})}

Payment(items, c) == [i \in DOMAIN items |-> IF items[i].category \in {c} THEN items[i].amount ELSE 0]

(* What the items of a category pay is a total of integers.                *)
LEMMA PaymentType ==
  ASSUME NEW rules, NEW items \in Seq(Lines(rules)), NEW c
  PROVE  /\ DOMAIN items = 1..Len(items) /\ Len(items) \in Nat /\ IsFiniteSet(DOMAIN items)
         /\ \A i \in DOMAIN items : items[i] \in Lines(rules)
         /\ Payment(items, c) \in [DOMAIN items -> Int]
         /\ Paid(items, {c}) = Total(Payment(items, c)) /\ Paid(items, {c}) \in Int
<1>1. DOMAIN items = 1..Len(items) /\ Len(items) \in Nat /\ \A i \in DOMAIN items : items[i] \in Lines(rules)
  OBVIOUS
<1>2. IsFiniteSet(DOMAIN items)
  BY <1>1, FS_Interval
<1>3. Payment(items, c) \in [DOMAIN items -> Int]
  BY <1>1 DEF Payment, Lines
<1>4. Paid(items, {c}) = Total(Payment(items, c))
  BY DEF Paid, Payment
<1> QED
  BY <1>1, <1>2, <1>3, <1>4, TotalType

(* An item adds its amount to what its own category pays.                  *)
LEMMA PaidAppend ==
  ASSUME NEW rules, NEW items \in Seq(Lines(rules)), NEW item \in Lines(rules), NEW c
  PROVE  Paid(Append(items, item), {c}) = Paid(items, {c}) + IF item.category = c THEN item.amount ELSE 0
<1> DEFINE more == Append(items, item)
           n == Len(items) + 1
           f == Payment(more, c)
           g == Payment(items, c)
<1>1. /\ more \in Seq(Lines(rules)) /\ Len(more) = n /\ more[n] = item
      /\ \A i \in 1..Len(items) : more[i] = items[i]
  OBVIOUS
<1>2. /\ DOMAIN more = 1..n /\ IsFiniteSet(1..n) /\ f \in [1..n -> Int]
      /\ Paid(more, {c}) = Total(f)
  BY <1>1, PaymentType
<1>3. /\ DOMAIN items = 1..Len(items) /\ IsFiniteSet(1..Len(items)) /\ g \in [1..Len(items) -> Int]
      /\ Paid(items, {c}) = Total(g) /\ Len(items) \in Nat
  BY PaymentType
<1>4. (1..n) \ {n} = 1..Len(items) /\ n \in 1..n
  BY <1>3
<1>5. f[n] = IF item.category = c THEN item.amount ELSE 0
  BY <1>1, <1>2, <1>4 DEF Payment
<1>6. \A i \in 1..Len(items) : g[i] = f[i]
  BY <1>1, <1>2, <1>3, <1>4 DEF Payment
<1> HIDE DEF f, g, n, more
<1>7. SumOver(f, 1..n) = f[n] + SumOver(f, 1..Len(items))
  <2>1. \A i \in 1..n : f[i] \in Int
    BY <1>2
  <2>2. SumOver(f, 1..n) = f[n] + SumOver(f, (1..n) \ {n})
    BY <1>2, <1>4, <2>1, SumTaken
  <2> QED
    BY <1>4, <2>2
<1>8. SumOver(g, 1..Len(items)) = SumOver(f, 1..Len(items)) /\ SumOver(f, 1..Len(items)) \in Int
  <2>1. \A i \in 1..Len(items) : f[i] \in Int
    BY <1>2, <1>4
  <2> QED
    BY <1>3, <1>6, <2>1, SumSame, SumType
<1>9. Total(f) = SumOver(f, 1..n) /\ Total(g) = SumOver(g, 1..Len(items))
  BY <1>2, <1>3, TotalSum
<1>10. f[n] \in Int
  BY <1>2, <1>4
<1>11. Paid(more, {c}) = Paid(items, {c}) + f[n]
  BY <1>2, <1>3, <1>7, <1>8, <1>9, <1>10
<1> QED
  BY <1>5, <1>11 DEF more

(* Adding an item keeps the subtotals equal to what the items pay.         *)
LEMMA WithItemKeeps ==
  ASSUME NEW rules, NEW r \in Results(rules), NEW item \in Lines(rules)
  PROVE  WithItem(r, item) \in Results(rules)
<1> DEFINE w == WithItem(r, item)
<1>1. /\ r.items \in Seq(Lines(rules)) /\ r.subtotal \in [Categories -> Int]
      /\ \A c \in Categories : r.subtotal[c] = Paid(r.items, {c})
      /\ item.category \in Categories /\ item.amount \in Int
  BY DEF Results, Lines
<1>2. w.items = Append(r.items, item) /\ w.subtotal = [r.subtotal EXCEPT ![item.category] = @ + item.amount]
  BY DEF WithItem
<1>3. w \in [items : Seq(Lines(rules)), subtotal : [Categories -> Int]]
  <2>1. w.items \in Seq(Lines(rules))
    BY <1>1, <1>2
  <2>2. w.subtotal \in [Categories -> Int]
    BY <1>1, <1>2
  <2> QED
    BY <2>1, <2>2 DEF WithItem
<1>4. ASSUME NEW c \in Categories PROVE w.subtotal[c] = Paid(w.items, {c})
  <2>1. Paid(Append(r.items, item), {c}) = Paid(r.items, {c}) + IF item.category = c THEN item.amount ELSE 0
    <3>1. r.items \in Seq(Lines(rules))
      BY <1>1
    <3> QED
      BY <3>1, PaidAppend, Zenon
  <2>2. w.subtotal[c] = r.subtotal[c] + IF item.category = c THEN item.amount ELSE 0
    BY <1>1, <1>2
  <2> QED
    BY <1>1, <1>2, <2>1, <2>2
<1> QED
  BY <1>3, <1>4 DEF Results

-----------------------------------------------------------------------------
(* What a rule pays                                                         *)

IsContext(ctx) ==
  /\ {"subtotal", "sale", "metrics", "eligibility", "day"} \subseteq DOMAIN ctx
  /\ ctx.subtotal \in [Categories -> Int]
  /\ \A field \in {"front_end_gross", "back_end_gross", "total_gross"} :
       field \in DOMAIN ctx.sale /\ ctx.sale[field] \in Int
  /\ ctx.metrics.monthly_units \in Int
  /\ ctx.eligibility.nps_qualifying_surveys \in Int
  /\ ctx.eligibility.nps_low_score_surveys \in Int

(* Rounding gives whole cents.                                             *)
LEMMA RoundInt == \A n \in Int : RoundMoney(n, 2) \in Int /\ RoundMoney(n, 10000) \in Int
BY DEF RoundMoney

(* There are finitely many categories.                                     *)
LEMMA CategoriesFinite == IsFiniteSet(Categories)
<1>1. \A a, b, c : IsFiniteSet({a, b, c})
  <2> TAKE a, b, c
  <2>1. IsFiniteSet({a}) /\ IsFiniteSet({b}) /\ IsFiniteSet({c})
    BY FS_Singleton
  <2>2. {a, b, c} = ({a} \cup {b}) \cup {c}
    OBVIOUS
  <2> QED
    BY <2>1, <2>2, FS_Union
<1>2. Categories = ({"front_end", "back_end", "flat"}
                    \cup {"minimum_adjustment", "cap_adjustment", "bonus"})
                    \cup {"spiff", "manual_adjustment", "deduction"}
  BY DEF Categories
<1> QED
  BY <1>1, <1>2, FS_Union

(* The items a rule can leave: applied, not applied or skipped.            *)
LEMMA ItemLine ==
  ASSUME NEW rules, NEW rule \in rules, NEW category \in Categories
  PROVE  /\ \A amount \in Int : Applied(rule, category, amount) \in Lines(rules)
         /\ \A amount \in Int : \A b : AppliedIf(b, rule, category, amount) \in Lines(rules)
         /\ NotApplied(rule, category) \in Lines(rules)
         /\ SkippedRule(rule) \in Lines(rules)
<1>1. \A amount \in Int : Applied(rule, category, amount) \in Lines(rules)
  BY DEF Applied, Item, Lines
<1>2. NotApplied(rule, category) \in Lines(rules)
  BY DEF NotApplied, Item, Lines
<1>3. SkippedRule(rule) \in Lines(rules)
  BY DEF SkippedRule, Item, Lines, Categories
<1> QED
  BY <1>1, <1>2, <1>3 DEF AppliedIf

(* The subtotal a limit looks at is a number.                              *)
LEMMA SubtotalInt ==
  ASSUME NEW rule, NEW ctx, ctx.subtotal \in [Categories -> Int]
  PROVE  Subtotal(rule, ctx) \in Int
<1>1. [c \in Categories |-> IF c \in rule.applies_to THEN ctx.subtotal[c] ELSE 0] \in [Categories -> Int]
  OBVIOUS
<1> QED
  BY <1>1, CategoriesFinite, TotalType DEF Subtotal

(* The subtotal of one category.                                           *)
LEMMA SubtotalOne ==
  ASSUME NEW rule, NEW ctx, ctx.subtotal \in [Categories -> Int],
         NEW side \in Categories, rule.applies_to = {side}
  PROVE  Subtotal(rule, ctx) = ctx.subtotal[side]
<1> DEFINE f == [c \in Categories |-> IF c \in rule.applies_to THEN ctx.subtotal[c] ELSE 0]
<1>1. f \in [Categories -> Int] /\ f[side] = ctx.subtotal[side] /\ DOMAIN f = Categories
  OBVIOUS
<1>2. \A c \in Categories \ {side} : f[c] = 0
  OBVIOUS
<1>3. Subtotal(rule, ctx) = Total(f)
  BY DEF Subtotal
<1> HIDE DEF f
<1>4. Total(f) = SumOver(f, Categories)
  BY <1>1, TotalSum
<1>5. SumOver(f, Categories) = SumOver(f, {side})
  BY <1>1, <1>2, CategoriesFinite, SumRestricted
<1>6. IsFiniteSet({side}) /\ IsFiniteSet({})
  BY FS_Singleton, FS_EmptySet
<1>7. SumOver(f, {side}) = f[side] + SumOver(f, {})
  <2>1. {side} \ {side} = {}
    OBVIOUS
  <2>2. \A x \in {side} : f[x] \in Int
    BY <1>1
  <2>3. SumOver(f, {side}) = f[side] + SumOver(f, {side} \ {side})
    BY <1>6, <2>2, SumTaken
  <2> QED
    BY <2>1, <2>3
<1>8. SumOver(f, {}) = 0
  BY <1>6, SumFirst
<1> QED
  BY <1>1, <1>3, <1>4, <1>5, <1>7, <1>8

(* A finite set has an element with the greatest value.                    *)
LEMMA Greatest ==
  ASSUME NEW S, IsFiniteSet(S), S # {}, NEW f, \A x \in S : f[x] \in Int
  PROVE  \E a \in S : \A b \in S : f[b] <= f[a]
<1> DEFINE G == {T \in SUBSET S : T = {} \/ \E a \in T : \A b \in T : f[b] <= f[a]}
<1>1. ASSUME NEW T \in SUBSET S, \A U \in SUBSET T : U # T => U \in G
      PROVE  T \in G
  <2>1. CASE T = {}
    BY <2>1
  <2>2. CASE T # {}
    <3>1. PICK x \in T : TRUE
      BY <2>2
    <3>2. T \ {x} \in G
      BY <1>1, <3>1
    <3>3. CASE T \ {x} = {}
      BY <3>1, <3>3
    <3>4. CASE T \ {x} # {}
      <4>1. PICK a \in T \ {x} : \A b \in T \ {x} : f[b] <= f[a]
        BY <3>2, <3>4
      <4>2. CASE f[x] <= f[a]
        BY <4>1, <4>2
      <4>3. CASE ~(f[x] <= f[a])
        <5>1. \A b \in T : f[b] <= f[x]
          BY <3>1, <4>1, <4>3
        <5> QED
          BY <3>1, <5>1
      <4> QED
        BY <4>2, <4>3
    <3> QED
      BY <3>3, <3>4
  <2> QED
    BY <2>1, <2>2
<1>2. S \in G
  <2> HIDE DEF G
  <2> QED
    BY <1>1, FiniteInduction
<1> QED
  BY <1>2

(* The tiers that hold some units are tiers of the rule.                   *)
LEMMA TiersIn ==
  ASSUME NEW rule, IsRule(rule), rule.type \in TierTypes, NEW units
  PROVE  /\ TiersOf(rule, units) \subseteq DOMAIN rule.tiers
         /\ IsFiniteSet(TiersOf(rule, units))
         /\ TiersOf(rule, units) # {} => First(TiersOf(rule, units)) \in TiersOf(rule, units)
         /\ \A i \in TiersOf(rule, units) : IsTier(rule, rule.tiers[i])
<1>1. rule.tiers \in Seq(Range(rule.tiers)) /\ \A i \in DOMAIN rule.tiers : IsTier(rule, rule.tiers[i])
  BY DEF IsRule, Sequence
<1>2. DOMAIN rule.tiers = 1..Len(rule.tiers) /\ Len(rule.tiers) \in Nat
  BY <1>1
<1>3. TiersOf(rule, units) \subseteq DOMAIN rule.tiers
  BY DEF TiersOf
<1>4. IsFiniteSet(TiersOf(rule, units))
  <2>1. Len(rule.tiers) \in Int
    BY <1>2
  <2>2. IsFiniteSet(1..Len(rule.tiers))
    BY <2>1, FS_Interval
  <2> QED
    BY <1>2, <1>3, <2>2, FS_Subset
<1>5. TiersOf(rule, units) \in SUBSET Nat
  BY <1>2, <1>3
<1> QED
  BY <1>1, <1>3, <1>4, <1>5, FirstIn

(* A percentage leaves an item of its category.                            *)
LEMMA PercentageLine ==
  ASSUME NEW rules, NEW rule \in rules, NEW category \in Categories, NEW gross \in Int,
         NEW rate, rate.value \in Int
  PROVE  Percentage(rule, category, gross, rate) \in Lines(rules)
<1>1. NormalizeRate(rate) \in Int
  BY DEF NormalizeRate
<1>2. gross * NormalizeRate(rate) \in Int
  BY <1>1
<1>3. RoundMoney(gross * NormalizeRate(rate), 10000) \in Int
  BY <1>2, RoundInt
<1>4. Applied(rule, category, RoundMoney(gross * NormalizeRate(rate), 10000)) \in Lines(rules)
  <2> DEFINE amount == RoundMoney(gross * NormalizeRate(rate), 10000)
  <2> HIDE DEF amount
  <2>1. amount \in Int
    BY <1>3 DEF amount
  <2>2. Applied(rule, category, amount) \in Lines(rules)
    BY <2>1, ItemLine
  <2> QED
    BY <2>2 DEF amount
<1>5. SkippedRule(rule) \in Lines(rules)
  BY ItemLine
<1> QED
  BY <1>4, <1>5 DEF Percentage

(* The gross a percentage is taken of is a number.                         *)
LEMMA GrossInt ==
  ASSUME NEW rule, IsRule(rule), rule.type \in GrossTypes, NEW ctx, IsContext(ctx)
  PROVE  /\ Fact(ctx, rule.gross_field) - rule.pack \in Int
         /\ Greater(Fact(ctx, rule.gross_field) - rule.pack, 0) \in Int
<1>1. rule.gross_field \in {"front_end_gross", "back_end_gross", "total_gross"} /\ rule.pack \in Int
  BY DEF IsRule
<1>2. Fact(ctx, rule.gross_field) \in Int
  <2>1. rule.gross_field \in DOMAIN ctx.sale /\ ctx.sale[rule.gross_field] \in Int
    BY <1>1 DEF IsContext
  <2>2. Fact(ctx, rule.gross_field) = ctx.sale[rule.gross_field]
    BY <2>1, Zenon DEF Fact
  <2> QED
    BY <2>1, <2>2
<1> QED
  BY <1>1, <1>2 DEF Greater

(* A volume bonus leaves an item.                                          *)
LEMMA VolumeLine ==
  ASSUME NEW rules, NEW rule \in rules, IsRule(rule), rule.type = "volume_bonus", NEW ctx
  PROVE  VolumeBonus(rule, ctx) \in Lines(rules)
<1> DEFINE tiers == TiersOf(rule, VolumeUnits(rule, ctx))
           amounts == {rule.tiers[i].amount : i \in tiers}
           sum == Total([i \in tiers |-> rule.tiers[i].amount])
           top == CHOOSE amount \in amounts : \A other \in amounts : other <= amount
<1>1. IsFiniteSet(tiers) /\ \A i \in tiers : rule.tiers[i].amount \in Int
  BY TiersIn DEF TierTypes, GrossTypes, IsTier
<1>2. [i \in tiers |-> rule.tiers[i].amount] \in [tiers -> Int]
  BY <1>1
<1>3. sum \in Int
  <2> HIDE DEF tiers
  <2> QED
    BY <1>1, <1>2, TotalType
<1>4. tiers # {} => top \in Int
  <2> HAVE tiers # {}
  <2> DEFINE f == [i \in tiers |-> rule.tiers[i].amount]
  <2>1. \A x \in tiers : f[x] \in Int /\ f[x] = rule.tiers[x].amount
    BY <1>1
  <2>2. \E a \in tiers : \A b \in tiers : f[b] <= f[a]
    <3> HIDE DEF tiers, f
    <3> QED
      BY <1>1, <2>1, Greatest
  <2>3. \E a \in amounts : \A b \in amounts : b <= a
    BY <2>1, <2>2
  <2>4. top \in amounts
    <3> HIDE DEF amounts
    <3> QED
      BY <2>3
  <2> QED
    BY <1>1, <2>4
<1>5. VolumeBonus(rule, ctx) = AppliedIf(tiers # {}, rule, "bonus",
                                 IF rule.tier_mode = "cumulative" THEN sum ELSE top)
  BY DEF VolumeBonus
<1> HIDE DEF tiers, sum, top
<1>6. "bonus" \in Categories
  BY DEF Categories
<1>7. CASE tiers # {}
  BY <1>3, <1>4, <1>5, <1>6, <1>7, ItemLine
<1>8. CASE ~(tiers # {})
  BY <1>5, <1>6, <1>8, ItemLine DEF AppliedIf
<1> QED
  BY <1>7, <1>8

(* A survey bonus leaves an item.                                          *)
LEMMA SurveyLine ==
  ASSUME NEW rules, NEW rule \in rules, IsRule(rule), rule.type = "survey_count_bonus",
         NEW ctx, {ctx.eligibility.nps_qualifying_surveys, ctx.eligibility.nps_low_score_surveys} \subseteq Int
  PROVE  SurveyCountBonus(rule, ctx) \in Lines(rules)
<1> DEFINE qualifying == ctx.eligibility.nps_qualifying_surveys
           low == ctx.eligibility.nps_low_score_surveys
           greatest == rule.grid[Len(rule.grid)].count
           places == {i \in DOMAIN rule.grid :
                        rule.grid[i].count = IF qualifying < greatest THEN qualifying ELSE greatest}
           row == SurveyRow(rule, qualifying)
           amount == (IF qualifying > 0 THEN row.total ELSE 0) - row.rate * low
<1>1. /\ DOMAIN rule.grid = 1..Len(rule.grid) /\ Len(rule.grid) \in Nat /\ Len(rule.grid) # 0
      /\ \A i \in DOMAIN rule.grid : rule.grid[i].total \in Int /\ rule.grid[i].rate \in Int
  BY DEF IsRule, Sequence
<1>2. places # {} => First(places) \in DOMAIN rule.grid
  <2>1. places \in SUBSET Nat /\ places \subseteq DOMAIN rule.grid
    BY <1>1
  <2> HIDE DEF places
  <2> QED
    BY <2>1, FirstIn
<1>3. row = IF places = {} THEN rule.grid[1] ELSE rule.grid[First(places)]
  BY DEF SurveyRow
<1> HIDE DEF places, row
<1>4. row.total \in Int /\ row.rate \in Int
  BY <1>1, <1>2, <1>3
<1>5. qualifying \in Int /\ low \in Int
  OBVIOUS
<1>6. row.rate * low \in Int
  BY <1>4, <1>5
<1>7. amount \in Int
  BY <1>4, <1>5, <1>6
<1>8. SurveyCountBonus(rule, ctx) = AppliedIf(qualifying > 0 \/ low > 0, rule, "bonus", amount)
  BY DEF SurveyCountBonus, row
<1>9. "bonus" \in Categories
  BY DEF Categories
<1> HIDE DEF qualifying, low, amount
<1> QED
  BY <1>7, <1>8, <1>9, ItemLine

(* A bonus per unit leaves an item.                                        *)
LEMMA UnitsLine ==
  ASSUME NEW rules, NEW rule \in rules, IsRule(rule), rule.type = "per_unit_bonus",
         NEW ctx, ctx.metrics.monthly_units \in Int
  PROVE  PerUnitBonus(rule, ctx) \in Lines(rules) /\ EligibleUnits(rule, ctx) \in Int
<1>1. rule.amount \in Int /\ rule.threshold \in Int
  BY DEF IsRule, AmountTypes
<1>2. EligibleUnits(rule, ctx) \in Int
  BY <1>1 DEF EligibleUnits, Greater
<1>3. rule.amount * EligibleUnits(rule, ctx) \in Int
  BY <1>1, <1>2
<1> DEFINE amount == RoundMoney(rule.amount * EligibleUnits(rule, ctx), 2)
<1>4. amount \in Int
  BY <1>3, RoundInt
<1>5. "bonus" \in Categories
  BY DEF Categories
<1>6. PerUnitBonus(rule, ctx) = AppliedIf(EligibleUnits(rule, ctx) > 0, rule, "bonus", amount)
  BY DEF PerUnitBonus
<1> HIDE DEF amount
<1> QED
  BY <1>2, <1>4, <1>5, <1>6, ItemLine

(* A limit leaves an item.                                                 *)
LEMMA LimitLine ==
  ASSUME NEW rules, NEW rule \in rules, IsRule(rule), rule.type \in LimitTypes, NEW ctx, IsContext(ctx)
  PROVE  /\ rule.type = "minimum_commission" => Minimum(rule, ctx) \in Lines(rules)
         /\ rule.type = "maximum_commission" => Maximum(rule, ctx) \in Lines(rules)
         /\ rule.type = "tiered_minimum_commission" => TieredMinimum(rule, ctx) \in Lines(rules)
<1>1. Subtotal(rule, ctx) \in Int
  BY SubtotalInt DEF IsContext
<1>2. rule.type # "tiered_minimum_commission" => rule.amount \in Int
  BY DEF IsRule, AmountTypes, LimitTypes
<1>3. \A c \in Categories : OutputCategory(rule, c) \in Categories
  BY DEF OutputCategory, IsRule
<1>4. "minimum_adjustment" \in Categories /\ "cap_adjustment" \in Categories /\ "front_end" \in Categories
  BY DEF Categories
<1>5. rule.type # "tiered_minimum_commission" => rule.amount - Subtotal(rule, ctx) \in Int
  BY <1>1, <1>2
<1>6. ASSUME rule.type = "minimum_commission" PROVE Minimum(rule, ctx) \in Lines(rules)
  BY <1>3, <1>4, <1>5, <1>6, ItemLine DEF Minimum
<1>7. ASSUME rule.type = "maximum_commission" PROVE Maximum(rule, ctx) \in Lines(rules)
  BY <1>3, <1>4, <1>5, <1>7, ItemLine DEF Maximum
<1>8. ASSUME rule.type = "tiered_minimum_commission" PROVE TieredMinimum(rule, ctx) \in Lines(rules)
  <2> DEFINE tiers == TiersOf(rule, Fact(ctx, rule.unit_metric))
             amount == Greater(rule.tiers[First(tiers)].amount - Subtotal(rule, ctx), 0)
  <2>1. tiers # {} => rule.tiers[First(tiers)].amount \in Int
    BY <1>8, TiersIn DEF TierTypes, GrossTypes, IsTier
  <2>2. TieredMinimum(rule, ctx) = AppliedIf(tiers # {} /\ amount > 0, rule, "front_end", amount)
    BY DEF TieredMinimum
  <2> HIDE DEF tiers
  <2>3. CASE tiers # {}
    <3>1. amount \in Int
      BY <1>1, <2>1, <2>3 DEF Greater
    <3> HIDE DEF amount
    <3> QED
      BY <1>4, <2>2, <3>1, ItemLine
  <2>4. CASE ~(tiers # {})
    BY <1>4, <2>2, <2>4, ItemLine DEF AppliedIf
  <2> QED
    BY <2>3, <2>4
<1> QED
  BY <1>6, <1>7, <1>8

(* A rule on a gross leaves an item.                                       *)
LEMMA GrossLine ==
  ASSUME NEW rules, NEW rule \in rules, IsRule(rule), NEW ctx, IsContext(ctx)
  PROVE  /\ rule.type = "front_gross_percentage" => FrontGrossPercentage(rule, ctx) \in Lines(rules)
         /\ rule.type = "back_gross_percentage" => BackGrossPercentage(rule, ctx) \in Lines(rules)
         /\ rule.type = "progressive_unit_position_percentage" =>
              ProgressiveUnitPosition(rule, ctx) \in Lines(rules)
<1>1. "front_end" \in Categories /\ "back_end" \in Categories
  BY DEF Categories
<1>2. ASSUME rule.type = "front_gross_percentage" PROVE FrontGrossPercentage(rule, ctx) \in Lines(rules)
  <2>1. rule.rate.value \in Int
    BY <1>2 DEF IsRule, GrossTypes, TierTypes
  <2>2. Fact(ctx, rule.gross_field) - rule.pack \in Int
    BY <1>2, GrossInt DEF GrossTypes
  <2> QED
    BY <1>1, <2>1, <2>2, PercentageLine DEF FrontGrossPercentage
<1>3. ASSUME rule.type = "back_gross_percentage" PROVE BackGrossPercentage(rule, ctx) \in Lines(rules)
  <2>1. rule.rate.value \in Int
    BY <1>3 DEF IsRule, GrossTypes, TierTypes
  <2>2. Greater(Fact(ctx, rule.gross_field) - rule.pack, 0) \in Int
    BY <1>3, GrossInt DEF GrossTypes
  <2> QED
    BY <1>1, <2>1, <2>2, PercentageLine DEF BackGrossPercentage
<1>4. ASSUME rule.type = "progressive_unit_position_percentage"
      PROVE  ProgressiveUnitPosition(rule, ctx) \in Lines(rules)
  <2> DEFINE tiers == TiersOf(rule, ctx.sale.condition_units_after_sale)
  <2>1. tiers # {} => rule.tiers[First(tiers)].rate.value \in Int
    BY <1>4, TiersIn DEF TierTypes, GrossTypes, IsTier
  <2>2. Fact(ctx, rule.gross_field) - rule.pack \in Int
    BY <1>4, GrossInt DEF GrossTypes
  <2>3. ProgressiveUnitPosition(rule, ctx) =
          IF tiers = {} THEN SkippedRule(rule)
          ELSE Percentage(rule, "front_end", Fact(ctx, rule.gross_field) - rule.pack,
                          rule.tiers[First(tiers)].rate)
    BY DEF ProgressiveUnitPosition
  <2> HIDE DEF tiers
  <2> QED
    BY <1>1, <2>1, <2>2, <2>3, PercentageLine, ItemLine
<1> QED
  BY <1>2, <1>3, <1>4

(* A rule with a fixed amount leaves an item.                              *)
LEMMA AmountLine ==
  ASSUME NEW rules, NEW rule \in rules, IsRule(rule), NEW ctx, rule.type \in AmountTypes
  PROVE  /\ \A c \in Categories : FixedAmount(rule, c) \in Lines(rules)
         /\ \A c \in Categories : Applied(rule, c, rule.amount) \in Lines(rules)
         /\ Deduction(rule) \in Lines(rules)
         /\ PeriodQualification(rule, ctx) \in Lines(rules)
<1>1. rule.amount \in Int /\ -(IF rule.amount < 0 THEN -rule.amount ELSE rule.amount) \in Int
  BY DEF IsRule
<1>2. "bonus" \in Categories /\ "deduction" \in Categories
  BY DEF Categories
<1>3. \A c \in Categories : FixedAmount(rule, c) \in Lines(rules)
  BY <1>1, ItemLine DEF FixedAmount
<1>4. Deduction(rule) \in Lines(rules)
  <2> DEFINE amount == -(IF rule.amount < 0 THEN -rule.amount ELSE rule.amount)
  <2>1. Deduction(rule) = AppliedIf(rule.amount # 0, rule, "deduction", amount) /\ amount \in Int
    BY <1>1 DEF Deduction
  <2> HIDE DEF amount
  <2> QED
    BY <1>2, <2>1, ItemLine
<1>5. PeriodQualification(rule, ctx) \in Lines(rules)
  BY <1>1, <1>2, ItemLine DEF PeriodQualification
<1> QED
  BY <1>1, <1>3, <1>4, <1>5, ItemLine

(* Whatever a rule is, what it pays is a line with an amount.              *)
LEMMA EvaluateLine ==
  ASSUME NEW rules, NEW rule \in rules, IsRule(rule), NEW ctx, IsContext(ctx)
  PROVE  Evaluate(rule, ctx) \in Lines(rules)
<1>1. /\ "flat" \in Categories /\ "back_end" \in Categories /\ "spiff" \in Categories
      /\ "bonus" \in Categories /\ "manual_adjustment" \in Categories
  BY DEF Categories
<1>2. NotApplied(rule, "flat") \in Lines(rules) /\ SkippedRule(rule) \in Lines(rules)
  BY <1>1, ItemLine
<1>3. CASE ~Applies(rule, ctx)
  BY <1>2, <1>3 DEF Evaluate
<1>4. CASE Applies(rule, ctx) /\ rule.type \in GrossTypes
  BY <1>4, GrossLine DEF Evaluate, GrossTypes
<1>5. CASE Applies(rule, ctx) /\ rule.type \in LimitTypes
  BY <1>5, LimitLine DEF Evaluate, LimitTypes
<1>6. CASE Applies(rule, ctx) /\ rule.type = "volume_bonus"
  BY <1>6, VolumeLine DEF Evaluate
<1>7. CASE Applies(rule, ctx) /\ rule.type = "per_unit_bonus"
  BY <1>7, UnitsLine DEF Evaluate, IsContext
<1>8. CASE Applies(rule, ctx) /\ rule.type = "survey_count_bonus"
  BY <1>8, SurveyLine DEF Evaluate, IsContext
<1>9. CASE Applies(rule, ctx) /\ rule.type \in AmountTypes \ (LimitTypes \cup {"per_unit_bonus"})
  <2>1. /\ FixedAmount(rule, "flat") \in Lines(rules) /\ FixedAmount(rule, "back_end") \in Lines(rules)
        /\ FixedAmount(rule, "spiff") \in Lines(rules)
        /\ Applied(rule, "bonus", rule.amount) \in Lines(rules)
        /\ Applied(rule, "manual_adjustment", rule.amount) \in Lines(rules)
        /\ Deduction(rule) \in Lines(rules) /\ PeriodQualification(rule, ctx) \in Lines(rules)
    BY <1>1, <1>9, AmountLine
  <2> QED
    BY <1>9, <2>1 DEF Evaluate, AmountTypes, LimitTypes
<1>10. CASE Applies(rule, ctx) /\ rule.type \notin GrossTypes \cup LimitTypes \cup AmountTypes
                               \cup {"volume_bonus", "per_unit_bonus", "survey_count_bonus"}
  BY <1>2, <1>10 DEF Evaluate, GrossTypes, LimitTypes, AmountTypes
<1> QED
  BY <1>3, <1>4, <1>5, <1>6, <1>7, <1>8, <1>9, <1>10

(* The category and the amount of an item, by its outcome.                 *)
LEMMA ItemFields ==
  \A rule, category, amount, b :
    /\ Applied(rule, category, amount).category = category
    /\ Applied(rule, category, amount).amount = amount
    /\ NotApplied(rule, category).category = category
    /\ NotApplied(rule, category).amount = 0
    /\ SkippedRule(rule).category = "flat"
    /\ AppliedIf(b, rule, category, amount).category = category
    /\ AppliedIf(b, rule, category, amount).amount = IF b THEN amount ELSE 0
BY DEF Applied, NotApplied, SkippedRule, AppliedIf, Item

(* A rule that does not limit a side of the deal does not pay there.       *)
LEMMA OtherSide ==
  ASSUME NEW rule, NEW ctx, rule.type \notin FrontTypes \cup BackTypes,
         NEW side \in {"front_end", "back_end"}, ~Writes(rule, side)
  PROVE  Evaluate(rule, ctx).category # side
<1>1. CASE ~Applies(rule, ctx)
  BY <1>1, ItemFields DEF Evaluate
<1>2. CASE Applies(rule, ctx) /\ rule.type \in {"minimum_commission", "maximum_commission"}
  <2>1. rule.applies_to # {side}
    BY <1>2 DEF Writes
  <2>2. OutputCategory(rule, "minimum_adjustment") # side /\ OutputCategory(rule, "cap_adjustment") # side
    BY <2>1 DEF OutputCategory
  <2>3. CASE rule.type = "minimum_commission"
    BY <1>2, <2>2, <2>3, ItemFields DEF Evaluate, Minimum
  <2>4. CASE rule.type = "maximum_commission"
    BY <1>2, <2>2, <2>4, ItemFields DEF Evaluate, Maximum
  <2> QED
    BY <1>2, <2>3, <2>4
<1>3. CASE Applies(rule, ctx) /\ rule.type = "tiered_minimum_commission"
  <2>1. Evaluate(rule, ctx).category = "front_end"
    BY <1>3, ItemFields DEF Evaluate, TieredMinimum
  <2> QED
    BY <1>3, <2>1 DEF Writes
<1>4. CASE Applies(rule, ctx) /\ rule.type \in {"volume_bonus", "per_unit_bonus", "survey_count_bonus",
                                              "period_qualification_bonus", "acquisition_bonus"}
  <2>1. /\ VolumeBonus(rule, ctx).category = "bonus" /\ PerUnitBonus(rule, ctx).category = "bonus"
        /\ SurveyCountBonus(rule, ctx).category = "bonus"
        /\ PeriodQualification(rule, ctx).category = "bonus"
        /\ Applied(rule, "bonus", rule.amount).category = "bonus"
    BY ItemFields DEF VolumeBonus, PerUnitBonus, SurveyCountBonus, PeriodQualification
  <2> QED
    BY <1>4, <2>1 DEF Evaluate
<1>5. CASE Applies(rule, ctx) /\ rule.type \in {"flat_per_deal", "vehicle_spiff", "manual_adjustment", "deduction"}
  <2>1. /\ FixedAmount(rule, "flat").category = "flat" /\ FixedAmount(rule, "spiff").category = "spiff"
        /\ Applied(rule, "manual_adjustment", rule.amount).category = "manual_adjustment"
        /\ Deduction(rule).category = "deduction"
    BY ItemFields DEF FixedAmount, Deduction
  <2> QED
    BY <1>5, <2>1 DEF Evaluate
<1>6. CASE /\ Applies(rule, ctx)
           /\ rule.type \notin {"minimum_commission", "maximum_commission", "tiered_minimum_commission",
                "volume_bonus", "per_unit_bonus", "survey_count_bonus",
                "period_qualification_bonus", "acquisition_bonus",
                "flat_per_deal", "vehicle_spiff", "manual_adjustment", "deduction"}
  <2>1. Evaluate(rule, ctx) = SkippedRule(rule)
    BY <1>6 DEF Evaluate, FrontTypes, BackTypes
  <2> QED
    BY <2>1, ItemFields
<1> QED
  BY <1>1, <1>2, <1>3, <1>4, <1>5, <1>6

(* A front rule pays nothing on the back end.                              *)
LEMMA FrontSide ==
  ASSUME NEW rule, NEW ctx, rule.type \in FrontTypes
  PROVE  Evaluate(rule, ctx).category # "back_end"
<1>1. \A gross, rate : Percentage(rule, "front_end", gross, rate).category # "back_end"
  BY ItemFields DEF Percentage
<1>2. FrontGrossPercentage(rule, ctx).category # "back_end"
  BY <1>1 DEF FrontGrossPercentage
<1>3. ProgressiveUnitPosition(rule, ctx).category # "back_end"
  BY <1>1, ItemFields DEF ProgressiveUnitPosition
<1> QED
  BY <1>2, <1>3, ItemFields DEF Evaluate, FrontTypes

(* A limit on a side brings what that side pays to the limit.              *)
LEMMA LimitItem ==
  ASSUME NEW rule, NEW ctx, IsContext(ctx), Applies(rule, ctx),
         NEW side \in {"front_end", "back_end"}, rule.applies_to = {side}
  PROVE  /\ rule.type = "minimum_commission" =>
              /\ Evaluate(rule, ctx).category = side
              /\ Evaluate(rule, ctx).amount =
                   IF ctx.subtotal[side] < rule.amount THEN rule.amount - ctx.subtotal[side] ELSE 0
         /\ rule.type = "maximum_commission" =>
              /\ Evaluate(rule, ctx).category = side
              /\ Evaluate(rule, ctx).amount =
                   IF ctx.subtotal[side] > rule.amount THEN rule.amount - ctx.subtotal[side] ELSE 0
<1>1. Subtotal(rule, ctx) = ctx.subtotal[side]
  BY SubtotalOne DEF IsContext, Categories
<1>2. \A c : OutputCategory(rule, c) = side
  BY DEF OutputCategory
<1>3. ASSUME rule.type = "minimum_commission" PROVE Evaluate(rule, ctx) = Minimum(rule, ctx)
  BY <1>3 DEF Evaluate
<1>4. ASSUME rule.type = "maximum_commission" PROVE Evaluate(rule, ctx) = Maximum(rule, ctx)
  BY <1>4 DEF Evaluate
<1>5. ASSUME rule.type = "minimum_commission"
      PROVE  /\ Evaluate(rule, ctx).category = side
             /\ Evaluate(rule, ctx).amount =
                  IF ctx.subtotal[side] < rule.amount THEN rule.amount - ctx.subtotal[side] ELSE 0
  <2>1. Minimum(rule, ctx) = AppliedIf(ctx.subtotal[side] < rule.amount, rule, side,
                                       rule.amount - ctx.subtotal[side])
    BY <1>1, <1>2 DEF Minimum
  <2> QED
    BY <1>3, <1>5, <2>1 DEF AppliedIf, Applied, NotApplied, Item
<1>6. ASSUME rule.type = "maximum_commission"
      PROVE  /\ Evaluate(rule, ctx).category = side
             /\ Evaluate(rule, ctx).amount =
                  IF ctx.subtotal[side] > rule.amount THEN rule.amount - ctx.subtotal[side] ELSE 0
  <2>1. Maximum(rule, ctx) = AppliedIf(ctx.subtotal[side] > rule.amount, rule, side,
                                       rule.amount - ctx.subtotal[side])
    BY <1>1, <1>2 DEF Maximum
  <2> QED
    BY <1>4, <1>6, <2>1 DEF AppliedIf, Applied, NotApplied, Item
<1> QED
  BY <1>5, <1>6

Seen(ctx, subtotal) == [ctx EXCEPT !.subtotal = subtotal]

(* The subtotals so far change nothing of what a rule's conditions see.    *)
LEMMA SeenContext ==
  ASSUME NEW ctx, IsContext(ctx), NEW subtotal \in [Categories -> Int]
  PROVE  /\ IsContext(Seen(ctx, subtotal)) /\ Seen(ctx, subtotal).subtotal = subtotal
         /\ \A rule : Applies(rule, Seen(ctx, subtotal)) <=> Applies(rule, ctx)
<1> DEFINE seen == Seen(ctx, subtotal)
<1>1. /\ seen.sale = ctx.sale /\ seen.metrics = ctx.metrics /\ seen.eligibility = ctx.eligibility
      /\ seen.day = ctx.day /\ seen.subtotal = subtotal /\ DOMAIN seen = DOMAIN ctx
  BY DEF Seen, IsContext
<1> HIDE DEF seen
<1>2. IsContext(seen)
  BY <1>1 DEF IsContext
<1>3. \A c : EvaluateCondition(c, seen) <=> EvaluateCondition(c, ctx)
  BY <1>1 DEF EvaluateCondition, HasFact, Fact
<1>4. \A rule : Applies(rule, seen) <=> Applies(rule, ctx)
  BY <1>1, <1>3, Zenon DEF Applies, Matches, EvaluateConditions
<1> QED
  BY <1>1, <1>2, <1>4 DEF seen

(* Evaluating one rule adds the item the rule leaves in the context it     *)
(* sees.                                                                   *)
LEMMA StepKeeps ==
  ASSUME NEW rules, NEW rule \in rules, IsRule(rule), NEW ctx, IsContext(ctx), NEW r \in Results(rules)
  PROVE  /\ IsContext(Seen(ctx, r.subtotal)) /\ Seen(ctx, r.subtotal).subtotal = r.subtotal
         /\ r.subtotal \in [Categories -> Int]
         /\ Evaluate(rule, Seen(ctx, r.subtotal)) \in Lines(rules)
         /\ EvaluateRule(r, rule, ctx) = WithItem(r, Evaluate(rule, Seen(ctx, r.subtotal)))
         /\ EvaluateRule(r, rule, ctx) \in Results(rules)
<1>1. r.subtotal \in [Categories -> Int]
  BY DEF Results
<1>2. IsContext(Seen(ctx, r.subtotal)) /\ Seen(ctx, r.subtotal).subtotal = r.subtotal
  BY <1>1, SeenContext
<1>3. Evaluate(rule, Seen(ctx, r.subtotal)) \in Lines(rules)
  BY <1>2, EvaluateLine
<1>4. EvaluateRule(r, rule, ctx) = WithItem(r, Evaluate(rule, Seen(ctx, r.subtotal)))
  BY DEF EvaluateRule, Seen
<1> QED
  BY <1>1, <1>2, <1>3, <1>4, WithItemKeeps

(* An item adds its amount to the subtotal of its own category.            *)
LEMMA WithItemSubtotal ==
  ASSUME NEW r, r.subtotal \in [Categories -> Int], NEW item, NEW c \in Categories,
         item.category \in Categories, item.amount \in Int
  PROVE  WithItem(r, item).subtotal[c] =
           r.subtotal[c] + IF item.category = c THEN item.amount ELSE 0
BY DEF WithItem

(* Without items the subtotals are zero, as what is paid.                  *)
LEMMA NothingPaid == \A rules : NoResult \in Results(rules)
<1> SUFFICES ASSUME NEW rules PROVE NoResult \in Results(rules)
  OBVIOUS
<1>1. <<>> \in Seq(Lines(rules))
  OBVIOUS
<1>2. ASSUME NEW c PROVE Paid(<<>>, {c}) = 0
  <2> DEFINE f == Payment(<<>>, c)
  <2>1. Paid(<<>>, {c}) = Total(f) /\ DOMAIN f = {}
    BY DEF Paid, Payment
  <2> HIDE DEF f
  <2>2. Total(f) = SumOver(f, {}) /\ IsFiniteSet({})
    BY <2>1, TotalSum, FS_EmptySet
  <2> QED
    BY <2>1, <2>2, SumFirst
<1>3. \A c \in Categories : NoResult.subtotal[c] = Paid(NoResult.items, {c})
  BY <1>2 DEF NoResult
<1>4. NoResult \in [items : Seq(Lines(rules)), subtotal : [Categories -> Int]]
  BY <1>1 DEF NoResult
<1> QED
  BY <1>3, <1>4 DEF Results

Owned(version) ==
  {version.rules[i] : i \in {j \in DOMAIN version.rules : version.rules[j].scope = "per_sale"}}
    \cup {DefaultRule(version)}

(* The rules of a version and their places.                                *)
LEMMA VersionRules ==
  ASSUME NEW version, IsVersion(version)
  PROVE  /\ DOMAIN version.rules = 1..Len(version.rules) /\ Len(version.rules) \in Nat
         /\ DOMAIN version.rules \in SUBSET Nat
         /\ \A i \in DOMAIN version.rules :
              /\ IsRule(version.rules[i])
              /\ version.rules[i].scope = "per_sale" => version.rules[i] \in Owned(version)
<1>1. version.rules \in Seq(Range(version.rules)) /\ \A i \in DOMAIN version.rules : IsRule(version.rules[i])
  BY DEF IsVersion, Sequence
<1> QED
  BY <1>1 DEF Owned

(* What is selected is among what it is selected from.                     *)
LEMMA SelectedIn ==
  ASSUME NEW version, NEW places \in SUBSET Nat, NEW ctx
  PROVE  FirstOf(places) \subseteq places /\ Selected(version, places, ctx) \subseteq places
<1>1. \A p \in SUBSET places : FirstOf(p) \subseteq p
  BY FirstIn DEF FirstOf
<1> QED
  BY <1>1 DEF Selected

(* The rules that are selected keep the account of what is paid.           *)
LEMMA PassKeeps ==
  ASSUME NEW version, IsVersion(version), NEW ctx, IsContext(ctx), NEW places,
         \A i \in places : i \in DOMAIN version.rules => version.rules[i].scope = "per_sale",
         NEW r \in Results(Owned(version))
  PROVE  EvaluateRules(r, version.rules, places, ctx) \in Results(Owned(version))
<1> DEFINE N == Len(version.rules)
           G == [n \in 0..N |-> Results(Owned(version))]
<1>1. N \in Nat /\ r \in G[0]
  BY VersionRules
<1>2. ASSUME NEW n \in 1..N, NEW q \in G[n - 1]
      PROVE  /\ n \in places => EvaluateRule(q, version.rules[n], ctx) \in G[n]
             /\ n \notin places => q \in G[n]
  <2>1. q \in Results(Owned(version)) /\ G[n] = Results(Owned(version))
    BY <1>1, <1>2
  <2>2. ASSUME n \in places PROVE EvaluateRule(q, version.rules[n], ctx) \in Results(Owned(version))
    <3>1. n \in DOMAIN version.rules
      BY VersionRules
    <3>2. IsRule(version.rules[n]) /\ version.rules[n] \in Owned(version)
      BY <2>2, <3>1, VersionRules
    <3> QED
      BY <2>1, <3>2, StepKeeps
  <2> QED
    BY <2>1, <2>2
<1>3. G[N] = Results(Owned(version))
  BY <1>1
<1> HIDE DEF G
<1> QED
  BY <1>1, <1>2, <1>3, RulesKeep

(* The front end pays nothing in the back end.                             *)
LEMMA FrontPass ==
  ASSUME NEW version, IsVersion(version), NEW ctx, IsContext(ctx)
  PROVE  LET front == EvaluateRules(NoResult, version.rules, FrontRule(version, ctx), ctx)
         IN  front \in Results(Owned(version)) /\ front.subtotal["back_end"] = 0
<1> DEFINE N == Len(version.rules)
           places == FrontRule(version, ctx)
           Good == {r \in Results(Owned(version)) : r.subtotal["back_end"] = 0}
           G == [n \in 0..N |-> Good]
<1>1. \A i \in places : /\ i \in DOMAIN version.rules
                        /\ version.rules[i].scope = "per_sale" /\ version.rules[i].type \in FrontTypes
  <2>1. RulesOf(version, "per_sale", FrontTypes) \in SUBSET Nat
    BY VersionRules DEF RulesOf
  <2>2. places \subseteq RulesOf(version, "per_sale", FrontTypes)
    BY <2>1, SelectedIn DEF FrontRule
  <2> QED
    BY <2>2 DEF RulesOf
<1>2. N \in Nat
  BY VersionRules
<1>3. NoResult \in Good
  BY NothingPaid DEF NoResult, Categories
<1>4. ASSUME NEW i \in places, NEW q \in Good PROVE EvaluateRule(q, version.rules[i], ctx) \in Good
  <2> DEFINE rule == version.rules[i]
             item == Evaluate(rule, Seen(ctx, q.subtotal))
  <2>1. IsRule(rule) /\ rule \in Owned(version) /\ rule.type \in FrontTypes
    BY <1>1, VersionRules
  <2> HIDE DEF rule
  <2>2. /\ EvaluateRule(q, rule, ctx) \in Results(Owned(version))
        /\ EvaluateRule(q, rule, ctx) = WithItem(q, item)
        /\ item \in Lines(Owned(version)) /\ q.subtotal \in [Categories -> Int]
    BY <2>1, StepKeeps
  <2>3. item.category # "back_end"
    BY <2>1, FrontSide
  <2> HIDE DEF item
  <2>4. item.category \in Categories /\ item.amount \in Int
    BY <2>2 DEF Lines
  <2>5. WithItem(q, item).subtotal["back_end"] = q.subtotal["back_end"] + 0
    BY <2>2, <2>3, <2>4, WithItemSubtotal DEF Categories
  <2> QED
    BY <2>2, <2>5 DEF rule
<1>5. \A n \in 1..N : \A q \in G[n - 1] :
        /\ n \in places => EvaluateRule(q, version.rules[n], ctx) \in G[n]
        /\ n \notin places => q \in G[n]
  <2> HIDE DEF Good, places
  <2> QED
    BY <1>2, <1>4
<1>6. NoResult \in G[0] /\ G[N] = Good
  <2> HIDE DEF Good
  <2> QED
    BY <1>2, <1>3
<1>7. EvaluateRules(NoResult, version.rules, places, ctx) \in Good
  <2> HIDE DEF G, Good, places
  <2> QED
    BY <1>2, <1>5, <1>6, RulesKeep
<1> QED
  BY <1>7

(* The default of a version pays whole cents.                              *)
LEMMA DefaultInt ==
  ASSUME NEW version, IsVersion(version), NEW gross \in Int
  PROVE  DefaultAmount(version, gross) \in Int
<1>1. /\ version.backend.percentage \in Int /\ version.backend.minimum \in Int
      /\ version.backend.maximum \in Int
  BY DEF IsVersion
<1>2. gross * version.backend.percentage \in Int
  BY <1>1
<1> QED
  BY <1>1, <1>2, RoundInt DEF DefaultAmount

(* The rules of the back end, or the percentage of the version.            *)
LEMMA BackPass ==
  ASSUME NEW version, IsVersion(version), NEW ctx, IsContext(ctx)
  PROVE  LET front == EvaluateRules(NoResult, version.rules, FrontRule(version, ctx), ctx)
         IN  BackResult(version, ctx, front) \in Results(Owned(version))
<1> DEFINE front == EvaluateRules(NoResult, version.rules, FrontRule(version, ctx), ctx)
           amount == DefaultAmount(version, ctx.sale.back_end_gross)
           item == Applied(DefaultRule(version), "back_end", amount)
<1>1. front \in Results(Owned(version)) /\ front.subtotal["back_end"] = 0
  BY FrontPass
<1> HIDE DEF front
<1>2. CASE BackRule(version, ctx) = {}
  <2>1. ctx.sale.back_end_gross \in Int
    BY DEF IsContext
  <2>2. amount \in Int
    BY <2>1, DefaultInt
  <2>3. item \in Lines(Owned(version)) /\ item.category = "back_end" /\ item.amount = amount
    <3>1. DefaultRule(version) \in Owned(version) /\ "back_end" \in Categories
      BY DEF Owned, Categories
    <3> HIDE DEF amount
    <3>2. item \in Lines(Owned(version))
      BY <2>2, <3>1, ItemLine
    <3> QED
      BY <3>2 DEF Applied, Item
  <2>4. WithItem(front, item) \in Results(Owned(version))
    <3> HIDE DEF item
    <3> QED
      BY <1>1, <2>3, WithItemKeeps
  <2>5. WithItem(front, item) = [items |-> Append(front.items, item),
                                 subtotal |-> [front.subtotal EXCEPT !["back_end"] = amount]]
    <3>1. front.subtotal \in [Categories -> Int]
      BY <1>1 DEF Results
    <3>2. front.subtotal["back_end"] + amount = amount
      BY <1>1, <2>2
    <3>3. [front.subtotal EXCEPT !["back_end"] = @ + amount] = [front.subtotal EXCEPT !["back_end"] = amount]
      BY <3>2
    <3> HIDE DEF item, amount
    <3> QED
      BY <2>3, <3>3 DEF WithItem
  <2>6. WithDefault(version, ctx, front) \in Results(Owned(version))
    <3>1. CASE version.backend.percentage # NoEnd /\ ctx.sale.back_end_gross > 0
      <4>1. WithDefault(version, ctx, front) = WithItem(front, item)
        BY <2>5, <3>1 DEF WithDefault
      <4> QED
        BY <2>4, <4>1
    <3>2. CASE ~(version.backend.percentage # NoEnd /\ ctx.sale.back_end_gross > 0)
      BY <1>1, <3>2 DEF WithDefault
    <3> QED
      BY <3>1, <3>2
  <2> QED
    BY <1>2, <2>6 DEF BackResult, front
<1>3. CASE BackRule(version, ctx) # {}
  <2> DEFINE rules == RulesOf(version, "per_sale", BackTypes)
             places == BackRule(version, ctx)
             default == {i \in rules : version.rules[i].conditions = <<>>}
  <2>1. rules \in SUBSET Nat /\ rules \ default \in SUBSET Nat /\ default \in SUBSET Nat
    BY VersionRules DEF RulesOf
  <2>2. places \subseteq rules
    <3>1. /\ Selected(version, rules \ default, ctx) \subseteq rules \ default
          /\ FirstOf(default) \subseteq default
      <4> HIDE DEF rules, default
      <4> QED
        BY <2>1, SelectedIn
    <3>2. places = IF Selected(version, rules \ default, ctx) # {}
                   THEN Selected(version, rules \ default, ctx) ELSE FirstOf(default)
      BY DEF BackRule
    <3> HIDE DEF places, rules
    <3> QED
      BY <3>1, <3>2
  <2>3. \A i \in places : i \in DOMAIN version.rules => version.rules[i].scope = "per_sale"
    BY <2>2 DEF RulesOf
  <2>4. EvaluateRules(front, version.rules, places, ctx) \in Results(Owned(version))
    <3> HIDE DEF places
    <3> QED
      BY <1>1, <2>3, PassKeeps
  <2> QED
    BY <1>3, <2>4 DEF BackResult, front
<1> QED
  BY <1>2, <1>3

-----------------------------------------------------------------------------
(* Limits                                                                   *)

Limits == {"minimum_commission", "maximum_commission"}

InLimit(rule, paid) ==
  IF rule.type = "minimum_commission" THEN paid >= rule.amount ELSE paid <= rule.amount

(* The rule of a limit brings its side to it, ...                          *)
LEMMA LimitReached ==
  ASSUME NEW rules, NEW rule \in rules, IsRule(rule), rule.type \in Limits,
         NEW ctx, IsContext(ctx), Applies(rule, ctx),
         NEW side \in {"front_end", "back_end"}, rule.applies_to = {side}, NEW r \in Results(rules)
  PROVE  /\ InLimit(rule, EvaluateRule(r, rule, ctx).subtotal[side])
         /\ rule.type = "maximum_commission" =>
              EvaluateRule(r, rule, ctx).subtotal[side] =
                IF r.subtotal[side] > rule.amount THEN rule.amount ELSE r.subtotal[side]
<1> DEFINE seen == Seen(ctx, r.subtotal)
           item == Evaluate(rule, seen)
<1>1. /\ IsContext(seen) /\ seen.subtotal = r.subtotal /\ r.subtotal \in [Categories -> Int]
      /\ item \in Lines(rules) /\ EvaluateRule(r, rule, ctx) = WithItem(r, item)
  BY StepKeeps
<1>2. Applies(rule, seen)
  BY <1>1, SeenContext
<1>3. side \in Categories /\ rule.amount \in Int /\ r.subtotal[side] \in Int
  BY <1>1 DEF Categories, IsRule, AmountTypes, Limits
<1>4. /\ rule.type = "minimum_commission" =>
           item.category = side /\ item.amount =
             IF r.subtotal[side] < rule.amount THEN rule.amount - r.subtotal[side] ELSE 0
      /\ rule.type = "maximum_commission" =>
           item.category = side /\ item.amount =
             IF r.subtotal[side] > rule.amount THEN rule.amount - r.subtotal[side] ELSE 0
  <2> HIDE DEF seen
  <2>1. seen.subtotal[side] = r.subtotal[side]
    BY <1>1
  <2> QED
    BY <1>1, <1>2, <2>1, LimitItem
<1> HIDE DEF item
<1>5. item.category = side /\ item.amount \in Int
  BY <1>3, <1>4 DEF Limits
<1>6. WithItem(r, item).subtotal[side] = r.subtotal[side] + item.amount
  BY <1>1, <1>3, <1>5, WithItemSubtotal
<1>7. EvaluateRule(r, rule, ctx).subtotal[side] = r.subtotal[side] + item.amount
  BY <1>1, <1>6
<1> QED
  BY <1>3, <1>4, <1>5, <1>7 DEF InLimit, Limits

(* ... and a rule that does not limit a side leaves it.                    *)
LEMMA SideLeft ==
  ASSUME NEW rules, NEW rule \in rules, IsRule(rule), rule.type \notin FrontTypes \cup BackTypes,
         NEW ctx, IsContext(ctx), NEW side \in {"front_end", "back_end"},
         ~Writes(rule, side) \/ ~Applies(rule, ctx), NEW r \in Results(rules)
  PROVE  EvaluateRule(r, rule, ctx).subtotal[side] = r.subtotal[side]
<1> DEFINE seen == Seen(ctx, r.subtotal)
           item == Evaluate(rule, seen)
<1>1. /\ r.subtotal \in [Categories -> Int]
      /\ item \in Lines(rules) /\ EvaluateRule(r, rule, ctx) = WithItem(r, item)
  BY StepKeeps
<1>2. item.category # side
  <2>1. CASE ~Writes(rule, side)
    BY <2>1, OtherSide
  <2>2. CASE ~Applies(rule, ctx)
    <3>1. ~Applies(rule, seen)
      BY <1>1, <2>2, SeenContext
    <3> QED
      BY <3>1, ItemFields DEF Evaluate
  <2> QED
    BY <2>1, <2>2
<1> HIDE DEF item
<1>3. side \in Categories /\ item.category \in Categories /\ item.amount \in Int /\ r.subtotal[side] \in Int
  BY <1>1 DEF Lines, Categories
<1>4. WithItem(r, item).subtotal[side] = r.subtotal[side] + 0
  BY <1>1, <1>2, <1>3, WithItemSubtotal
<1> QED
  BY <1>1, <1>3, <1>4

(* A limit that no later rule of its side breaks holds in the end.         *)
LEMMA OtherPass ==
  ASSUME NEW version, IsVersion(version), NEW ctx, IsContext(ctx),
         NEW r \in Results(Owned(version)), NEW i \in OtherRules(version),
         version.rules[i].type \in Limits, NEW side \in {"front_end", "back_end"},
         version.rules[i].applies_to = {side}, Applies(version.rules[i], ctx),
         LastWord(version, i, side)
  PROVE  LET done == EvaluateRules(r, version.rules, OtherRules(version), ctx)
         IN  done \in Results(Owned(version)) /\ InLimit(version.rules[i], done.subtotal[side])
<1> DEFINE N == Len(version.rules)
           places == OtherRules(version)
           limit == version.rules[i]
           G == [n \in 0..N |-> {q \in Results(Owned(version)) :
                                    n >= i => InLimit(limit, q.subtotal[side])}]
<1>1. N \in Nat /\ i \in 1..N /\ DOMAIN version.rules = 1..N
  BY VersionRules DEF OtherRules
<1>2. \A n \in places : /\ n \in 1..N /\ IsRule(version.rules[n]) /\ version.rules[n] \in Owned(version)
                        /\ version.rules[n].type \notin FrontTypes \cup BackTypes
  BY <1>1, VersionRules DEF OtherRules
<1>3. \A n \in 0..N : G[n] = {q \in Results(Owned(version)) : n >= i => InLimit(limit, q.subtotal[side])}
  OBVIOUS
<1>4. r \in G[0]
  BY <1>1, <1>3
<1> HIDE DEF G
<1>5. ASSUME NEW n \in 1..N, NEW q \in G[n - 1], n \in places
      PROVE  EvaluateRule(q, version.rules[n], ctx) \in G[n]
  <2> DEFINE rule == version.rules[n]
             next == EvaluateRule(q, rule, ctx)
  <2>1. q \in Results(Owned(version)) /\ (n - 1 >= i => InLimit(limit, q.subtotal[side]))
    BY <1>1, <1>3, <1>5
  <2>2. IsRule(rule) /\ rule \in Owned(version) /\ rule.type \notin FrontTypes \cup BackTypes
    BY <1>2, <1>5
  <2>3. next \in Results(Owned(version))
    <3> HIDE DEF rule
    <3> QED
      BY <2>1, <2>2, StepKeeps
  <2>4. ASSUME n = i PROVE InLimit(limit, next.subtotal[side])
    <3>1. limit = rule
      BY <2>4
    <3> HIDE DEF rule, limit
    <3>2. rule.type \in Limits /\ rule.applies_to = {side} /\ Applies(rule, ctx)
      BY <3>1 DEF limit
    <3> QED
      BY <2>1, <2>2, <3>1, <3>2, LimitReached
  <2>5. ASSUME n > i PROVE InLimit(limit, next.subtotal[side])
    <3>1. InLimit(limit, q.subtotal[side])
      BY <1>1, <2>1, <2>5
    <3>2. CASE ~Writes(rule, side) \/ ~Applies(rule, ctx)
      <4>1. next.subtotal[side] = q.subtotal[side]
        <5> HIDE DEF rule
        <5> QED
          BY <2>1, <2>2, <3>2, SideLeft
      <4> QED
        BY <3>1, <4>1
    <3>3. CASE Writes(rule, side) /\ Applies(rule, ctx)
      <4>1. /\ limit.type = "minimum_commission" /\ rule.type = "maximum_commission"
            /\ limit.amount <= rule.amount
        BY <1>5, <2>5, <3>3 DEF LastWord
      <4>2. rule.applies_to = {side}
        BY <3>3, <4>1 DEF Writes
      <4>3. next.subtotal[side] = IF q.subtotal[side] > rule.amount THEN rule.amount ELSE q.subtotal[side]
        <5> HIDE DEF rule
        <5> QED
          BY <2>1, <2>2, <3>3, <4>1, <4>2, LimitReached DEF Limits
      <4> HIDE DEF next, limit, rule
      <4> QED
        BY <3>1, <4>1, <4>3 DEF InLimit
    <3> QED
      BY <3>2, <3>3
  <2> HIDE DEF next, limit
  <2>6. next \in G[n]
    BY <1>1, <1>3, <2>3, <2>4, <2>5
  <2> QED
    BY <2>6 DEF next
<1>6. ASSUME NEW n \in 1..N, NEW q \in G[n - 1], n \notin places PROVE q \in G[n]
  <2>1. n # i /\ n - 1 \in 0..N /\ n \in 0..N
    BY <1>6
  <2> HIDE DEF limit, places
  <2> QED
    BY <1>1, <1>3, <1>6, <2>1
<1>7. EvaluateRules(r, version.rules, places, ctx) \in G[N]
  <2> HIDE DEF places
  <2> QED
    BY <1>1, <1>4, <1>5, <1>6, RulesKeep
<1> QED
  BY <1>1, <1>3, <1>7

(* Halves that are rounded one by one differ by no more than one each.     *)
LEMMA SumHalves ==
  ASSUME NEW f, NEW g, NEW S, IsFiniteSet(S),
         \A x \in S : f[x] \in Int /\ g[x] \in Int /\ 2 * g[x] <= f[x] + 1 /\ f[x] <= 2 * g[x] + 1
  PROVE  /\ 2 * SumOver(g, S) <= SumOver(f, S) + Cardinality(S)
         /\ SumOver(f, S) <= 2 * SumOver(g, S) + Cardinality(S)
<1> DEFINE G == {T \in SUBSET S : /\ 2 * SumOver(g, T) <= SumOver(f, T) + Cardinality(T)
                                 /\ SumOver(f, T) <= 2 * SumOver(g, T) + Cardinality(T)}
<1>1. ASSUME NEW T \in SUBSET S, \A U \in SUBSET T : U # T => U \in G
      PROVE  T \in G
  <2>1. IsFiniteSet(T) /\ IsFiniteSet(T \ {One(T)})
    BY FS_Subset
  <2>2. CASE T = {}
    <3>1. SumOver(f, T) = 0 /\ SumOver(g, T) = 0 /\ Cardinality(T) = 0
      BY <2>1, <2>2, SumFirst, FS_EmptySet
    <3> QED
      BY <3>1
  <2>3. CASE T # {}
    <3> DEFINE x == One(T)
               U == T \ {x}
    <3>1. x \in T
      BY <2>3 DEF One
    <3>2. /\ 2 * SumOver(g, U) <= SumOver(f, U) + Cardinality(U)
          /\ SumOver(f, U) <= 2 * SumOver(g, U) + Cardinality(U)
      BY <1>1, <3>1
    <3>3. SumOver(f, U) \in Int /\ SumOver(g, U) \in Int
      BY <2>1, SumType
    <3>4. SumOver(f, T) = f[x] + SumOver(f, U) /\ SumOver(g, T) = g[x] + SumOver(g, U)
      BY <2>1, <2>3, SumFirst
    <3>5. Cardinality(U) = Cardinality(T) - 1 /\ Cardinality(T) \in Int
      BY <2>1, <3>1, FS_RemoveElement, FS_CardinalityType
    <3>6. f[x] \in Int /\ g[x] \in Int /\ 2 * g[x] <= f[x] + 1 /\ f[x] <= 2 * g[x] + 1
      BY <3>1
    <3> HIDE DEF x, U
    <3> QED
      BY <3>2, <3>3, <3>4, <3>5, <3>6
  <2> QED
    BY <2>2, <2>3
<1>2. S \in G
  <2> HIDE DEF G
  <2> QED
    BY <1>1, FiniteInduction
<1> QED
  BY <1>2

(* Half of an amount, rounded, is at most half a cent off.                 *)
LEMMA RoundHalf ==
  \A a \in Int : 2 * RoundMoney(a, 2) <= a + 1 /\ a <= 2 * RoundMoney(a, 2) + 1
BY DEF RoundMoney

(* Halving an item changes its amount only, by half and up to half a cent. *)
LEMMA SplitLine ==
  ASSUME NEW rules, \A rule \in rules : rule.scope = "per_sale", NEW item \in Lines(rules)
  PROVE  /\ Split(item) \in Lines(rules)
         /\ Split(item).category = item.category /\ Split(item).rule = item.rule
         /\ item.rule.split => /\ 2 * Split(item).amount <= item.amount + 1
                              /\ item.amount <= 2 * Split(item).amount + 1
<1> DEFINE half == RoundMoney(item.amount, 2)
<1>1. /\ item \in [rule : rules, outcome : {"applied", "not_applied", "skipped"},
                   category : Categories, amount : Int]
      /\ item.outcome # "applied" => item.amount = 0
      /\ item.rule.scope = "per_sale"
  BY DEF Lines
<1>2. half \in Int /\ 2 * half <= item.amount + 1 /\ item.amount <= 2 * half + 1
  BY <1>1, RoundInt, RoundHalf
<1>3. Split(item) = IF item.outcome = "applied" /\ item.rule.scope = "per_sale" /\ item.rule.split
                    THEN [item EXCEPT !.amount = half] ELSE item
  BY DEF Split
<1> HIDE DEF half
<1>4. CASE item.outcome = "applied" /\ item.rule.scope = "per_sale" /\ item.rule.split
  <2>1. Split(item) = [item EXCEPT !.amount = half]
    BY <1>3, <1>4
  <2> QED
    BY <1>1, <1>2, <1>4, <2>1 DEF Lines
<1>5. CASE ~(item.outcome = "applied" /\ item.rule.scope = "per_sale" /\ item.rule.split)
  <2>1. Split(item) = item
    BY <1>3, <1>5
  <2> QED
    BY <1>1, <1>5, <2>1 DEF Lines
<1> QED
  BY <1>4, <1>5

(* What the halves of a side pay, up to the rounding of each item.         *)
LEMMA SplitPaid ==
  ASSUME NEW rules, \A rule \in rules : rule.scope = "per_sale", NEW items \in Seq(Lines(rules)),
         NEW side, \A j \in DOMAIN items : items[j].category = side => items[j].rule.split
  PROVE  LET halves == [k \in DOMAIN items |-> Split(items[k])]
         IN  /\ Len(halves) = Len(items) /\ Len(items) \in Nat
             /\ Paid(items, {side}) \in Int /\ Paid(halves, {side}) \in Int
             /\ 2 * Paid(halves, {side}) <= Paid(items, {side}) + Len(items)
             /\ Paid(items, {side}) <= 2 * Paid(halves, {side}) + Len(items)
<1> DEFINE halves == [k \in DOMAIN items |-> Split(items[k])]
           n == Len(items)
           f == Payment(items, side)
           g == Payment(halves, side)
<1>1. /\ n \in Nat /\ DOMAIN items = 1..n /\ IsFiniteSet(1..n) /\ f \in [1..n -> Int]
      /\ Paid(items, {side}) = Total(f) /\ Paid(items, {side}) \in Int
      /\ \A k \in 1..n : items[k] \in Lines(rules)
  BY PaymentType
<1>2. \A k \in 1..n : halves[k] = Split(items[k]) /\ halves[k] \in Lines(rules)
  BY <1>1, SplitLine
<1>3. halves \in Seq(Lines(rules)) /\ Len(halves) = n
  <2>1. halves = [k \in 1..n |-> halves[k]]
    BY <1>1
  <2>2. halves \in [1..n -> Lines(rules)]
    BY <1>2, <2>1
  <2> HIDE DEF halves, n
  <2> QED
    BY <1>1, <2>2
<1>4. /\ DOMAIN halves = 1..n /\ g \in [1..n -> Int]
      /\ Paid(halves, {side}) = Total(g) /\ Paid(halves, {side}) \in Int
  <2> HIDE DEF halves
  <2> QED
    BY <1>3, PaymentType
<1>5. ASSUME NEW k \in 1..n
      PROVE  f[k] \in Int /\ g[k] \in Int /\ 2 * g[k] <= f[k] + 1 /\ f[k] <= 2 * g[k] + 1
  <2>1. /\ f[k] = IF items[k].category = side THEN items[k].amount ELSE 0
        /\ g[k] = IF halves[k].category = side THEN halves[k].amount ELSE 0
    <3> HIDE DEF halves, n
    <3> QED
      BY <1>1, <1>4 DEF Payment
  <2>2. /\ halves[k].category = items[k].category
        /\ items[k].category = side => /\ 2 * halves[k].amount <= items[k].amount + 1
                                      /\ items[k].amount <= 2 * halves[k].amount + 1
    BY <1>1, <1>2, SplitLine
  <2>3. f[k] \in Int /\ g[k] \in Int
    BY <1>1, <1>4
  <2> HIDE DEF f, g, halves
  <2> QED
    BY <2>1, <2>2, <2>3
<1>6. Total(f) = SumOver(f, 1..n) /\ Total(g) = SumOver(g, 1..n) /\ Cardinality(1..n) = n
  <2> HIDE DEF f, g, halves, n
  <2> QED
    BY <1>1, <1>4, TotalSum, FS_Interval
<1>7. 2 * SumOver(g, 1..n) <= SumOver(f, 1..n) + n /\ SumOver(f, 1..n) <= 2 * SumOver(g, 1..n) + n
  <2> HIDE DEF f, g, halves, n
  <2> QED
    BY <1>1, <1>5, <1>6, SumHalves
<1> HIDE DEF f, g, halves
<1> QED
  BY <1>1, <1>3, <1>4, <1>6, <1>7 DEF halves

(* Every day is a day of a month.                                          *)
LEMMA MonthOfDay == \A d \in Days : Month(d) \in 0..Months
<1> SUFFICES ASSUME NEW d \in Days PROVE Month(d) \in 0..Months
  OBVIOUS
<1>1. /\ MonthLength \in Int /\ MonthLength > 0 /\ Months \in Int /\ Months >= 0
      /\ MonthLength * (Months + 1) \in Int
  BY ConstantsAssumption
<1> DEFINE q == (d - 1) \div MonthLength
           r == (d - 1) % MonthLength
<1>2. d \in Int /\ d >= 1 /\ d <= MonthLength * (Months + 1)
  BY <1>1 DEF Days
<1>3. q \in Int /\ r \in Int /\ r >= 0 /\ r < MonthLength /\ d - 1 = MonthLength * q + r
  BY <1>1, <1>2
<1> HIDE DEF q, r
<1>4. q >= 0
  <2>1. SUFFICES ASSUME q <= -1 PROVE FALSE
    BY <1>3
  <2>2. MonthLength * q <= MonthLength * (-1)
    BY <1>1, <1>3, <2>1
  <2> QED
    BY <1>1, <1>2, <1>3, <2>2
<1>5. q <= Months
  <2>1. SUFFICES ASSUME q >= Months + 1 PROVE FALSE
    BY <1>1, <1>3
  <2>2. MonthLength * q >= MonthLength * (Months + 1)
    BY <1>1, <1>3, <2>1
  <2> QED
    BY <1>1, <1>2, <1>3, <2>2
<1> QED
  BY <1>1, <1>3, <1>4, <1>5 DEF Month, q

(* The units of some sales are a number.                                   *)
LEMMA UnitsInt ==
  ASSUME TypeOK, NEW S \in SUBSET Recorded
  PROVE  Units(S) \in Int
<1>1. IsFiniteSet(S)
  BY SalesFinite, FS_Subset DEF Recorded
<1>2. [s \in S |-> sales[s].count] \in [S -> Int]
  BY SeriesRow DEF Recorded
<1> QED
  BY <1>1, <1>2, TotalType DEF Units

(* What a recorded sale says is what the rules expect.                     *)
LEMMA ContextOfSale ==
  ASSUME TypeOK, NEW s \in Recorded
  PROVE  IsContext(SaleContext(s))
<1> DEFINE ctx == SaleContext(s)
           f == sales[s]
           m == Metrics(SalesOf(Month(f.day)))
<1>1. f \in Facts /\ f.front \in Int /\ f.back \in Int /\ Month(f.day) \in 0..Months
  BY ConstantsAssumption, MonthOfDay DEF TypeOK, Recorded
<1>2. eligibility[Month(f.day)] \in Eligibilities
  BY <1>1 DEF TypeOK
<1>3. /\ ctx.subtotal = NoResult.subtotal /\ ctx.eligibility = eligibility[Month(f.day)]
      /\ ctx.metrics = [k \in SaleMetrics |-> m[k]]
      /\ {"subtotal", "sale", "metrics", "eligibility", "day"} \subseteq DOMAIN ctx
      /\ {"front_end_gross", "back_end_gross", "total_gross"} \subseteq DOMAIN ctx.sale
      /\ ctx.sale.front_end_gross = f.front /\ ctx.sale.back_end_gross = f.back
      /\ ctx.sale.total_gross = f.front + f.back
  BY DEF SaleContext
<1>4. SalesOf(Month(f.day)) \in SUBSET Recorded
  BY DEF SalesOf
<1>5. ctx.metrics.monthly_units \in Int
  <2>1. m.monthly_units = Units(SalesOf(Month(f.day)))
    BY DEF Metrics
  <2> HIDE DEF ctx, m
  <2> QED
    BY <1>3, <1>4, <2>1, UnitsInt DEF SaleMetrics
<1>6. ctx.subtotal \in [Categories -> Int]
  BY <1>3 DEF NoResult
<1> HIDE DEF ctx
<1>7. IsContext(ctx)
  BY <1>1, <1>2, <1>3, <1>5, <1>6, ConstantsAssumption DEF IsContext
<1> QED
  BY <1>7 DEF ctx

(* A version keeps its limits on a sale.                                   *)
LEMMA WithinLimitsHolds ==
  ASSUME TypeOK, NEW s \in Recorded, NEW version, IsVersion(version)
  PROVE  WithinLimits(s, version, ItemsFor(version, s))
<1> DEFINE ctx == SaleContext(s)
           front == EvaluateRules(NoResult, version.rules, FrontRule(version, ctx), ctx)
           back == BackResult(version, ctx, front)
           done == EvaluateRules(back, version.rules, OtherRules(version), ctx)
           items == ItemsFor(version, s)
           half == sales[s].count = 1
           slack == IF half THEN Len(items) ELSE 0
<1> SUFFICES ASSUME NEW i \in OtherRules(version), NEW side \in {"front_end", "back_end"},
                    version.rules[i].type \in Limits, version.rules[i].applies_to = {side},
                    Applies(version.rules[i], ctx), LastWord(version, i, side),
                    half => \A j \in DOMAIN items : items[j].category = side => items[j].rule.split
             PROVE  LET paid == 2 * Paid(items, {side})
                        limit == IF half THEN version.rules[i].amount ELSE 2 * version.rules[i].amount
                    IN  IF version.rules[i].type = "minimum_commission"
                        THEN paid >= limit - slack ELSE paid <= limit + slack
  <2> HIDE DEF ctx, items
  <2> QED
    BY DEF WithinLimits, Limits, ctx, items
<1> DEFINE rule == version.rules[i]
           rules == Owned(version)
<1>1. IsContext(ctx)
  BY ContextOfSale
<1>2. back \in Results(rules)
  <2> HIDE DEF ctx
  <2> QED
    BY <1>1, BackPass
<1>3. done \in Results(rules) /\ InLimit(rule, done.subtotal[side])
  <2> HIDE DEF ctx, back
  <2> QED
    BY <1>1, <1>2, OtherPass
<1>4. items = SplitDeal(done.items, sales[s].count)
  BY DEF ItemsFor, WholeDeal
<1> HIDE DEF done, items, ctx, rules
<1>5. done.items \in Seq(Lines(rules)) /\ done.subtotal[side] = Paid(done.items, {side})
  BY <1>3 DEF Results, Categories
<1>6. InLimit(rule, Paid(done.items, {side}))
  BY <1>3, <1>5
<1>7. Paid(done.items, {side}) \in Int /\ rule.amount \in Int
  <2>1. Paid(done.items, {side}) \in Int
    BY <1>5, PaymentType
  <2>2. IsRule(rule)
    BY VersionRules DEF OtherRules
  <2> QED
    BY <2>1, <2>2 DEF IsRule, AmountTypes, Limits
<1>8. CASE half
  <2> DEFINE halves == [k \in DOMAIN done.items |-> Split(done.items[k])]
  <2>1. items = halves
    BY <1>4, <1>8 DEF SplitDeal
  <2>2. \A r \in rules : r.scope = "per_sale"
    BY DEF rules, Owned, DefaultRule
  <2>3. \A j \in DOMAIN done.items : done.items[j].category = side => done.items[j].rule.split
    <3> SUFFICES ASSUME NEW j \in DOMAIN done.items, done.items[j].category = side
                 PROVE  done.items[j].rule.split
      OBVIOUS
    <3>1. done.items[j] \in Lines(rules)
      BY <1>5
    <3>2. Split(done.items[j]).category = done.items[j].category /\ Split(done.items[j]).rule = done.items[j].rule
      BY <2>2, <3>1, SplitLine
    <3>3. j \in DOMAIN items /\ items[j] = Split(done.items[j])
      BY <2>1
    <3> QED
      BY <1>8, <3>2, <3>3
  <2>4. /\ Len(items) = Len(done.items) /\ Len(items) \in Nat /\ Paid(items, {side}) \in Int
        /\ 2 * Paid(items, {side}) <= Paid(done.items, {side}) + Len(items)
        /\ Paid(done.items, {side}) <= 2 * Paid(items, {side}) + Len(items)
    <3>1. /\ Len(halves) = Len(done.items) /\ Len(done.items) \in Nat
          /\ Paid(halves, {side}) \in Int
          /\ 2 * Paid(halves, {side}) <= Paid(done.items, {side}) + Len(done.items)
          /\ Paid(done.items, {side}) <= 2 * Paid(halves, {side}) + Len(done.items)
      BY <1>5, <2>2, <2>3, SplitPaid
    <3> HIDE DEF halves
    <3> QED
      BY <2>1, <3>1
  <2>5. slack = Len(items)
    BY <1>8
  <2> HIDE DEF rule, slack, half
  <2> QED
    BY <1>6, <1>7, <1>8, <2>4, <2>5 DEF InLimit, rule
<1>9. CASE ~half
  <2>1. items = done.items /\ slack = 0
    BY <1>4, <1>9 DEF SplitDeal
  <2> HIDE DEF rule, slack, half
  <2> QED
    BY <1>6, <1>7, <1>9, <2>1 DEF InLimit, rule
<1> QED
  BY <1>8, <1>9

(* A limit on one side of a deal is kept by what is paid in the end, for any *)
(* rules in any order: when a limit is evaluated the subtotal of its side is *)
(* what the items pay there, so its adjustment brings the side to the limit; *)
(* what is evaluated after it leaves the side alone, or is a cap above it;   *)
(* and the halves of a half deal, each rounded to the cent by itself, are    *)
(* within a cent per item of half of it all.                                 *)
THEOREM LimitsKeptCorrect == Spec => []LimitsKept
<1>1. TypeOK => LimitsKept
  <2> SUFFICES ASSUME TypeOK, NEW s \in Recorded, Status(s) \in {"calculated", "partial"}
               PROVE  WithinLimits(s, VersionOf(s), ItemsFor(VersionOf(s), s))
    BY DEF LimitsKept
  <2>1. VersionOf(s) # NoVersion
    BY DEF Status
  <2>2. sales[s].day \in Days
    BY ConstantsAssumption DEF TypeOK, Recorded
  <2>3. IsVersion(VersionOf(s))
    BY <2>1, <2>2, ConstantsAssumption DEF TypeOK, VersionOf
  <2> QED
    BY <2>3, WithinLimitsHolds
<1> QED
  BY <1>1, TypeCorrect, PTL DEF Spec

-----------------------------------------------------------------------------
(* Bonuses                                                                  *)

(* A sum over more summands, none of them negative, is no smaller.         *)
LEMMA SumSubset ==
  ASSUME NEW T, IsFiniteSet(T), NEW S \in SUBSET T, NEW f, NEW g,
         \A x \in T : g[x] \in Int /\ g[x] >= 0, \A x \in S : f[x] = g[x]
  PROVE  SumOver(f, S) \in Int /\ SumOver(g, T) \in Int /\ SumOver(f, S) <= SumOver(g, T)
         /\ SumOver(g, T) >= 0
<1> DEFINE k == [x \in T |-> IF x \in S THEN g[x] ELSE 0]
           z == [x \in T |-> 0]
<1>1. IsFiniteSet(S)
  BY FS_Subset
<1>2. /\ \A x \in T : k[x] \in Int /\ k[x] <= g[x] /\ z[x] \in Int /\ z[x] <= g[x] /\ z[x] = 0
      /\ \A x \in T \ S : k[x] = 0
      /\ \A x \in S : k[x] = g[x]
  OBVIOUS
<1> HIDE DEF k, z
<1>3. SumOver(k, T) = SumOver(k, S)
  BY <1>2, SumRestricted
<1>4. SumOver(k, S) = SumOver(f, S) /\ SumOver(k, S) \in Int
  BY <1>1, <1>2, SumSame, SumType
<1>5. SumOver(k, T) <= SumOver(g, T) /\ SumOver(z, T) <= SumOver(g, T)
  BY <1>2, SumLeq
<1>6. SumOver(g, T) \in Int
  BY SumType
<1>7. SumOver(z, T) = 0
  <2>1. SumOver(z, T) = SumOver(z, {})
    BY <1>2, SumRestricted
  <2>2. SumOver(z, {}) = 0
    BY FS_EmptySet, SumFirst
  <2> QED
    BY <2>1, <2>2
<1> QED
  BY <1>3, <1>4, <1>5, <1>6, <1>7

(* A context of which every count of units has grown.                      *)
MetricsGrow(a, b) ==
  \A k \in UnitMetrics : a[k] \in Int /\ b[k] \in Int /\ a[k] <= b[k]

ContextGrows(a, b) ==
  /\ a.scope = "period" /\ b.scope = "period" /\ a.day = b.day
  /\ a.sale = <<>> /\ b.sale = <<>> /\ a.eligibility = b.eligibility
  /\ DOMAIN a.metrics = UnitMetrics \cup GrossMetrics
  /\ DOMAIN b.metrics = UnitMetrics \cup GrossMetrics
  /\ MetricsGrow(a.metrics, b.metrics)
  /\ \A d \in Days : MetricsGrow(a.since[d], b.since[d])
  /\ {a.eligibility.nps_qualifying_surveys, a.eligibility.nps_low_score_surveys} \subseteq Int

(* A rule whose conditions ask for what the month says of the user alone   *)
(* applies with more sales as before.                                      *)
LEMMA GrowsApplies ==
  ASSUME NEW rule, NEW a, NEW b, ContextGrows(a, b),
         \A i \in DOMAIN rule.conditions :
           rule.conditions[i].field \in DOMAIN a.eligibility \ (UnitMetrics \cup GrossMetrics)
  PROVE  Applies(rule, a) <=> Applies(rule, b)
<1>1. ASSUME NEW i \in DOMAIN rule.conditions
      PROVE  EvaluateCondition(rule.conditions[i], a) <=> EvaluateCondition(rule.conditions[i], b)
  <2> DEFINE c == rule.conditions[i]
  <2>1. /\ c.field \notin DOMAIN a.sale /\ c.field \notin DOMAIN b.sale
        /\ c.field \notin DOMAIN a.metrics /\ c.field \notin DOMAIN b.metrics
        /\ a.eligibility = b.eligibility
    BY DEF ContextGrows
  <2>2. Fact(a, c.field) = a.eligibility[c.field] /\ Fact(b, c.field) = a.eligibility[c.field]
    BY <2>1 DEF Fact
  <2>3. HasFact(a, c.field) <=> HasFact(b, c.field)
    BY <2>1 DEF HasFact
  <2> HIDE DEF c
  <2>4. EvaluateCondition(c, a) <=> EvaluateCondition(c, b)
    BY <2>2, <2>3, Zenon DEF EvaluateCondition
  <2> QED
    BY <2>4 DEF c
<1>2. Matches(rule, a) <=> Matches(rule, b)
  BY <1>1, Zenon DEF Matches, EvaluateConditions
<1>3. a.day = b.day
  BY DEF ContextGrows
<1> QED
  BY <1>2, <1>3, Zenon DEF Applies

(* The units a volume bonus counts grow with the sales.                    *)
LEMMA VolumeUnitsGrow ==
  ASSUME NEW rule, rule.unit_metric \in UnitMetrics, rule.start \in Days \cup {NoStart},
         NEW a, NEW b, ContextGrows(a, b)
  PROVE  /\ VolumeUnits(rule, a) \in Int /\ VolumeUnits(rule, b) \in Int
         /\ VolumeUnits(rule, a) <= VolumeUnits(rule, b)
<1> DEFINE k == IF rule.unit_metric \in {"monthly_new_units", "monthly_used_units", "fast_start_volume_units"}
                THEN rule.unit_metric ELSE "monthly_units"
<1>1. CASE rule.start # NoStart
  <2>1. VolumeUnits(rule, a) = a.since[rule.start][k] /\ VolumeUnits(rule, b) = b.since[rule.start][k]
    BY <1>1 DEF VolumeUnits, ContextGrows
  <2>2. k \in UnitMetrics /\ rule.start \in Days
    BY <1>1 DEF UnitMetrics
  <2> HIDE DEF k
  <2> QED
    BY <2>1, <2>2 DEF ContextGrows, MetricsGrow
<1>2. CASE rule.start = NoStart
  <2>1. \A ctx \in {a, b} : HasFact(ctx, rule.unit_metric) /\ Fact(ctx, rule.unit_metric) = ctx.metrics[rule.unit_metric]
    BY DEF HasFact, Fact, ContextGrows
  <2>2. /\ VolumeUnits(rule, a) = a.metrics[rule.unit_metric]
        /\ VolumeUnits(rule, b) = b.metrics[rule.unit_metric]
    BY <1>2, <2>1 DEF VolumeUnits
  <2> QED
    BY <2>2 DEF ContextGrows, MetricsGrow
<1> QED
  BY <1>1, <1>2

(* The amounts of some tiers, of which there are more and more.            *)
Reached(rule, tiers) ==
  IF tiers = {} THEN 0
  ELSE IF rule.tier_mode = "cumulative" THEN Total([i \in tiers |-> rule.tiers[i].amount])
  ELSE CHOOSE amount \in {rule.tiers[i].amount : i \in tiers} :
         \A other \in {rule.tiers[i].amount : i \in tiers} : other <= amount

(* The highest of some amounts is one of them.                             *)
LEMMA HighestOf ==
  ASSUME NEW rule, NEW tiers, IsFiniteSet(tiers), tiers # {}, \A i \in tiers : rule.tiers[i].amount \in Int
  PROVE  LET amounts == {rule.tiers[i].amount : i \in tiers}
             top == CHOOSE amount \in amounts : \A other \in amounts : other <= amount
         IN  top \in amounts /\ \A other \in amounts : other <= top
<1> DEFINE f == [i \in tiers |-> rule.tiers[i].amount]
           amounts == {rule.tiers[i].amount : i \in tiers}
<1>1. \A x \in tiers : f[x] \in Int /\ f[x] = rule.tiers[x].amount
  OBVIOUS
<1>2. \E x \in tiers : \A y \in tiers : f[y] <= f[x]
  <2> HIDE DEF f
  <2> QED
    BY <1>1, Greatest
<1>3. \E x \in amounts : \A y \in amounts : y <= x
  BY <1>1, <1>2
<1> DEFINE top == CHOOSE amount \in amounts : \A other \in amounts : other <= amount
<1>4. top \in amounts /\ \A other \in amounts : other <= top
  <2> HIDE DEF amounts
  <2> QED
    BY <1>3
<1> QED
  BY <1>4

(* More tiers pay no less, in either mode.                                 *)
LEMMA ReachedGrows ==
  ASSUME NEW rule, NEW more, IsFiniteSet(more), NEW less \in SUBSET more,
         \A i \in more : rule.tiers[i].amount \in Int /\ rule.tiers[i].amount >= 0
  PROVE  Reached(rule, less) \in Int /\ Reached(rule, more) \in Int /\ Reached(rule, less) <= Reached(rule, more)
<1> DEFINE f == [i \in less |-> rule.tiers[i].amount]
           g == [i \in more |-> rule.tiers[i].amount]
           top(tiers) == CHOOSE amount \in {rule.tiers[i].amount : i \in tiers} :
                           \A other \in {rule.tiers[i].amount : i \in tiers} : other <= amount
<1>1. IsFiniteSet(less)
  BY FS_Subset
<1>2. /\ Total(f) \in Int /\ Total(g) \in Int /\ Total(f) <= Total(g) /\ Total(g) >= 0
  <2>1. /\ DOMAIN f = less /\ DOMAIN g = more /\ \A i \in more : g[i] \in Int /\ g[i] >= 0
        /\ \A i \in less : f[i] = g[i]
    OBVIOUS
  <2> HIDE DEF f, g
  <2>2. Total(f) = SumOver(f, less) /\ Total(g) = SumOver(g, more)
    BY <2>1, TotalSum
  <2> QED
    BY <2>1, <2>2, SumSubset
<1>3. ASSUME more # {}
      PROVE  top(more) \in Int /\ top(more) >= 0 /\ \A i \in more : rule.tiers[i].amount <= top(more)
  <2>1. top(more) \in {rule.tiers[i].amount : i \in more} /\ \A other \in {rule.tiers[i].amount : i \in more} : other <= top(more)
    BY <1>3, HighestOf
  <2> HIDE DEF top
  <2> QED
    BY <2>1
<1>4. ASSUME less # {} PROVE top(less) \in Int /\ \E i \in less : top(less) = rule.tiers[i].amount
  <2>1. top(less) \in {rule.tiers[i].amount : i \in less}
    BY <1>1, <1>4, HighestOf
  <2> HIDE DEF top
  <2> QED
    BY <2>1
<1>5. /\ Reached(rule, less) = IF less = {} THEN 0 ELSE IF rule.tier_mode = "cumulative" THEN Total(f) ELSE top(less)
      /\ Reached(rule, more) = IF more = {} THEN 0 ELSE IF rule.tier_mode = "cumulative" THEN Total(g) ELSE top(more)
  BY DEF Reached
<1> HIDE DEF top, f, g
<1>6. less # {} => more # {}
  OBVIOUS
<1>7. CASE rule.tier_mode = "cumulative"
  BY <1>2, <1>5, <1>6, <1>7
<1>8. CASE rule.tier_mode # "cumulative"
  <2>1. less # {} => top(less) <= top(more)
    BY <1>3, <1>4, <1>6
  <2> QED
    BY <1>3, <1>4, <1>5, <1>6, <1>8, <2>1
<1> QED
  BY <1>7, <1>8

(* A volume bonus grows with the units.                                    *)
LEMMA VolumeGrows ==
  ASSUME NEW rule, IsRule(rule), rule.type = "volume_bonus", rule.start \in Days \cup {NoStart},
         rule.unit_metric \in UnitMetrics,
         \A i \in DOMAIN rule.tiers : rule.tiers[i].high = NoEnd /\ rule.tiers[i].amount >= 0,
         NEW a, NEW b, ContextGrows(a, b)
  PROVE  /\ VolumeBonus(rule, a).amount \in Int /\ VolumeBonus(rule, b).amount \in Int
         /\ VolumeBonus(rule, a).amount <= VolumeBonus(rule, b).amount
<1> DEFINE less == TiersOf(rule, VolumeUnits(rule, a))
           more == TiersOf(rule, VolumeUnits(rule, b))
<1>1. \A ctx : VolumeBonus(rule, ctx).amount = Reached(rule, TiersOf(rule, VolumeUnits(rule, ctx)))
  BY DEF VolumeBonus, Reached, AppliedIf, Applied, NotApplied, Item
<1>2. /\ IsFiniteSet(more) /\ more \subseteq DOMAIN rule.tiers
      /\ \A i \in more : rule.tiers[i].amount \in Int /\ rule.tiers[i].amount >= 0
  BY TiersIn DEF TierTypes, GrossTypes, IsTier
<1>3. less \in SUBSET more
  <2>1. /\ VolumeUnits(rule, a) \in Int /\ VolumeUnits(rule, b) \in Int
        /\ VolumeUnits(rule, a) <= VolumeUnits(rule, b)
    BY VolumeUnitsGrow
  <2>2. \A i \in DOMAIN rule.tiers : rule.tiers[i].low \in Int /\ rule.tiers[i].high = NoEnd
    BY DEF IsRule, IsTier, TierTypes
  <2> QED
    BY <2>1, <2>2 DEF TiersOf, InTier
<1>4. /\ Reached(rule, less) \in Int /\ Reached(rule, more) \in Int
      /\ Reached(rule, less) <= Reached(rule, more)
  <2> HIDE DEF less, more
  <2> QED
    BY <1>2, <1>3, ReachedGrows
<1> QED
  BY <1>1, <1>4

(* Rounding keeps the order.                                               *)
LEMMA RoundMonotone ==
  \A m, n \in Int : 0 <= m /\ m <= n =>
    RoundMoney(m, 2) \in Int /\ 0 <= RoundMoney(m, 2) /\ RoundMoney(m, 2) <= RoundMoney(n, 2)
BY DEF RoundMoney

(* A bonus per unit grows with the units.                                  *)
LEMMA PerUnitGrows ==
  ASSUME NEW rule, IsRule(rule), rule.type = "per_unit_bonus", rule.amount >= 0,
         NEW a, NEW b, ContextGrows(a, b)
  PROVE  /\ PerUnitBonus(rule, a).amount \in Int /\ PerUnitBonus(rule, b).amount \in Int
         /\ PerUnitBonus(rule, a).amount <= PerUnitBonus(rule, b).amount
<1> DEFINE x == EligibleUnits(rule, a)
           y == EligibleUnits(rule, b)
<1>1. /\ a.metrics.monthly_units \in Int /\ b.metrics.monthly_units \in Int
      /\ a.metrics.monthly_units <= b.metrics.monthly_units
  BY DEF ContextGrows, MetricsGrow, UnitMetrics
<1>2. rule.amount \in Int /\ rule.threshold \in Int
  BY DEF IsRule, AmountTypes
<1>3. x \in Int /\ y \in Int /\ 0 <= x /\ x <= y
  BY <1>1, <1>2 DEF EligibleUnits, Greater
<1>4. \A ctx : PerUnitBonus(rule, ctx).amount =
               IF EligibleUnits(rule, ctx) > 0 THEN RoundMoney(rule.amount * EligibleUnits(rule, ctx), 2) ELSE 0
  BY DEF PerUnitBonus, AppliedIf, Applied, NotApplied, Item
<1>5. /\ PerUnitBonus(rule, a).amount = IF x > 0 THEN RoundMoney(rule.amount * x, 2) ELSE 0
      /\ PerUnitBonus(rule, b).amount = IF y > 0 THEN RoundMoney(rule.amount * y, 2) ELSE 0
  BY <1>4
<1> HIDE DEF x, y
<1>6. /\ rule.amount * x \in Int /\ rule.amount * y \in Int /\ 0 <= rule.amount * x
      /\ rule.amount * x <= rule.amount * y
  <2>1. rule.amount * x \in Int /\ rule.amount * y \in Int
    BY <1>2, <1>3
  <2>2. 0 <= rule.amount * x
    BY <1>2, <1>3
  <2>3. rule.amount * x <= rule.amount * y
    BY <1>2, <1>3
  <2> QED
    BY <2>1, <2>2, <2>3
<1>7. /\ RoundMoney(rule.amount * x, 2) \in Int /\ RoundMoney(rule.amount * y, 2) \in Int
      /\ 0 <= RoundMoney(rule.amount * x, 2)
      /\ RoundMoney(rule.amount * x, 2) <= RoundMoney(rule.amount * y, 2)
  BY <1>6, RoundMonotone
<1> QED
  BY <1>3, <1>5, <1>7

(* A requirement on units that was met is met with more of them.           *)
LEMMA QualificationGrows ==
  ASSUME NEW rule, IsRule(rule), rule.type = "period_qualification_bonus", rule.amount >= 0,
         rule.start \in Days \cup {NoStart},
         \A i \in DOMAIN rule.requirements :
           /\ rule.requirements[i].metric \in UnitMetrics
           /\ rule.requirements[i].operator = "greater_than_or_equal",
         NEW a, NEW b, ContextGrows(a, b)
  PROVE  /\ PeriodQualification(rule, a).amount \in Int /\ PeriodQualification(rule, b).amount \in Int
         /\ PeriodQualification(rule, a).amount <= PeriodQualification(rule, b).amount
<1>1. ASSUME NEW i \in DOMAIN rule.requirements PROVE Satisfied(rule, a, i) => Satisfied(rule, b, i)
  <2> DEFINE c == rule.requirements[i]
             p == QualificationMetric(rule, a, c.metric)
             q == QualificationMetric(rule, b, c.metric)
  <2>1. c.metric \in UnitMetrics /\ c.operator = "greater_than_or_equal" /\ c.value \in Int
    BY DEF IsRule
  <2> HIDE DEF c
  <2>2. p \in Int /\ q \in Int /\ p <= q
    <3>1. CASE rule.start # NoStart
      <4>1. c.metric # "monthly_total_gross" /\ rule.start \in Days
        BY <2>1, <3>1 DEF UnitMetrics
      <4>2. p = a.since[rule.start][c.metric] /\ q = b.since[rule.start][c.metric]
        BY <3>1, <4>1 DEF QualificationMetric, ContextGrows
      <4> QED
        BY <2>1, <4>1, <4>2 DEF ContextGrows, MetricsGrow
    <3>2. CASE rule.start = NoStart
      <4>1. p = a.metrics[c.metric] /\ q = b.metrics[c.metric]
        BY <3>2 DEF QualificationMetric
      <4> QED
        BY <2>1, <4>1 DEF ContextGrows, MetricsGrow
    <3> QED
      BY <3>1, <3>2
  <2> HIDE DEF p, q
  <2>3. \A v : Holds(c, v) <=> v >= c.value
    BY <2>1 DEF Holds
  <2>4. Holds(c, p) => Holds(c, q)
    BY <2>1, <2>2, <2>3
  <2> QED
    BY <2>4 DEF Satisfied, c, p, q
<1>2. rule.amount \in Int
  BY DEF IsRule, AmountTypes
<1> DEFINE passed(ctx) ==
             \/ rule.mode = "all" /\ \A i \in DOMAIN rule.requirements : Satisfied(rule, ctx, i)
             \/ rule.mode = "any" /\ \E i \in DOMAIN rule.requirements : Satisfied(rule, ctx, i)
<1>3. passed(a) => passed(b)
  BY <1>1
<1>4. \A ctx : PeriodQualification(rule, ctx).amount = IF passed(ctx) THEN rule.amount ELSE 0
  BY DEF PeriodQualification, Applied, NotApplied, Item
<1>5. /\ PeriodQualification(rule, a).amount = IF passed(a) THEN rule.amount ELSE 0
      /\ PeriodQualification(rule, b).amount = IF passed(b) THEN rule.amount ELSE 0
  BY <1>4
<1> HIDE DEF passed
<1> QED
  BY <1>2, <1>3, <1>5

(* Surveys do not depend on the sales.                                     *)
LEMMA SurveySame ==
  ASSUME NEW rule, IsRule(rule), rule.type = "survey_count_bonus", NEW a, NEW b, ContextGrows(a, b)
  PROVE  SurveyCountBonus(rule, a).amount \in Int /\ SurveyCountBonus(rule, a) = SurveyCountBonus(rule, b)
<1>1. a.eligibility = b.eligibility
      /\ {a.eligibility.nps_qualifying_surveys, a.eligibility.nps_low_score_surveys} \subseteq Int
  BY DEF ContextGrows
<1>2. SurveyCountBonus(rule, a) \in Lines({rule})
  BY <1>1, SurveyLine
<1> QED
  BY <1>1, <1>2 DEF SurveyCountBonus, Lines

(* No bonus of a kind that grows pays less when every count has grown.     *)
LEMMA EvaluateGrows ==
  ASSUME NEW rule, IsRule(rule), rule.type \in BonusTypes, rule.start \in Days \cup {NoStart},
         NEW a, NEW b, ContextGrows(a, b), NEW m, a.eligibility = eligibility[m], Grows(rule, m)
  PROVE  /\ Evaluate(rule, a).amount \in Int /\ Evaluate(rule, b).amount \in Int
         /\ Evaluate(rule, a).amount <= Evaluate(rule, b).amount
<1>1. Applies(rule, a) <=> Applies(rule, b)
  BY GrowsApplies DEF Grows
<1>2. CASE ~Applies(rule, a)
  <2>1. Evaluate(rule, a).amount = 0 /\ Evaluate(rule, b).amount = 0
    BY <1>1, <1>2 DEF Evaluate, NotApplied, Item
  <2> QED
    BY <2>1
<1>3. CASE Applies(rule, a) /\ rule.type = "volume_bonus"
  <2>1. Evaluate(rule, a) = VolumeBonus(rule, a) /\ Evaluate(rule, b) = VolumeBonus(rule, b)
    BY <1>1, <1>3 DEF Evaluate
  <2> QED
    BY <1>3, <2>1, VolumeGrows DEF Grows
<1>4. CASE Applies(rule, a) /\ rule.type = "per_unit_bonus"
  <2>1. Evaluate(rule, a) = PerUnitBonus(rule, a) /\ Evaluate(rule, b) = PerUnitBonus(rule, b)
    BY <1>1, <1>4 DEF Evaluate
  <2> QED
    BY <1>4, <2>1, PerUnitGrows DEF Grows
<1>5. CASE Applies(rule, a) /\ rule.type = "period_qualification_bonus"
  <2>1. Evaluate(rule, a) = PeriodQualification(rule, a) /\ Evaluate(rule, b) = PeriodQualification(rule, b)
    BY <1>1, <1>5 DEF Evaluate
  <2> QED
    BY <1>5, <2>1, QualificationGrows DEF Grows
<1>6. CASE Applies(rule, a) /\ rule.type = "survey_count_bonus"
  <2>1. Evaluate(rule, a) = SurveyCountBonus(rule, a) /\ Evaluate(rule, b) = SurveyCountBonus(rule, b)
    BY <1>1, <1>6 DEF Evaluate
  <2> QED
    BY <1>6, <2>1, SurveySame
<1> QED
  BY <1>2, <1>3, <1>4, <1>5, <1>6 DEF BonusTypes

(* The metrics of a month, of any table of sales.                          *)
UnitsIn(rows, S) == Total([s \in S |-> rows[s].count])

MetricsIn(rows, S) ==
  [monthly_units           |-> UnitsIn(rows, S),
   monthly_new_units       |-> UnitsIn(rows, {s \in S : rows[s].condition = "new"}),
   monthly_used_units      |-> UnitsIn(rows, {s \in S : rows[s].condition = "used"}),
   units_by_day_10         |-> UnitsIn(rows, {s \in S : DayOf(rows[s].day) <= TenthDay}),
   fast_start_volume_units |->
     UnitsIn(rows, S) + UnitsIn(rows, {s \in S : DayOf(rows[s].day) <= FastStartDay}),
   monthly_front_gross     |-> Total([s \in S |-> rows[s]["front"]]),
   monthly_back_gross      |-> Total([s \in S |-> rows[s]["back"]]),
   monthly_total_gross     |-> Total([s \in S |-> rows[s]["front"]]) + Total([s \in S |-> rows[s]["back"]])]

PeriodIn(rows, S, facts, m) ==
  [scope |-> "period", day |-> MonthLength * (m + 1), subtotal |-> NoResult.subtotal,
   sale |-> <<>>, metrics |-> MetricsIn(rows, S), eligibility |-> facts,
   since |-> [d \in Days |-> MetricsIn(rows, {s \in S : rows[s].day >= d})]]

(* The context of a month before and after a step, of the rows of each.    *)
LEMMA MonthContext ==
  ASSUME NEW m
  PROVE  /\ PeriodContext(m) = PeriodIn(sales, SalesOf(m), eligibility[m], m)
         /\ PeriodContext(m)' = PeriodIn(sales', SalesOf(m)', eligibility'[m], m)
<1>1. PeriodContext(m) = PeriodIn(sales, SalesOf(m), eligibility[m], m)
  BY DEF PeriodContext, PeriodIn, Metrics, MetricsIn, Units, UnitsIn, Gross
<1>2. PeriodContext(m)' = PeriodIn(sales', SalesOf(m)', eligibility'[m], m)
  BY DEF PeriodContext, PeriodIn, Metrics, MetricsIn, Units, UnitsIn, Gross
<1> QED
  BY <1>1, <1>2

More(old, new, S, T) ==
  /\ IsFiniteSet(T) /\ S \in SUBSET T
  /\ \A s \in T : new[s].count \in Int /\ new[s].count >= 0
  /\ \A s \in S : old[s] = new[s]

(* More sales, more units.                                                 *)
LEMMA UnitsGrow ==
  ASSUME NEW old, NEW new, NEW S, NEW T, More(old, new, S, T)
  PROVE  UnitsIn(old, S) \in Int /\ UnitsIn(new, T) \in Int /\ UnitsIn(old, S) <= UnitsIn(new, T)
<1> DEFINE f == [s \in S |-> old[s].count]
           g == [s \in T |-> new[s].count]
<1>1. /\ DOMAIN f = S /\ DOMAIN g = T /\ IsFiniteSet(T) /\ S \in SUBSET T
      /\ \A x \in T : g[x] \in Int /\ g[x] >= 0
      /\ \A x \in S : f[x] = g[x]
  BY DEF More
<1>2. UnitsIn(old, S) = Total(f) /\ UnitsIn(new, T) = Total(g)
  BY DEF UnitsIn
<1> HIDE DEF f, g
<1>3. Total(f) = SumOver(f, S) /\ Total(g) = SumOver(g, T)
  BY <1>1, TotalSum
<1> QED
  BY <1>1, <1>2, <1>3, SumSubset

(* So it is with each metric of units.                                     *)
LEMMA MetricsInGrow ==
  ASSUME NEW old, NEW new, NEW S, NEW T, More(old, new, S, T)
  PROVE  /\ MetricsGrow(MetricsIn(old, S), MetricsIn(new, T))
         /\ DOMAIN MetricsIn(old, S) = UnitMetrics \cup GrossMetrics
         /\ DOMAIN MetricsIn(new, T) = UnitMetrics \cup GrossMetrics
<1>1. /\ More(old, new, {s \in S : old[s].condition = "new"}, {s \in T : new[s].condition = "new"})
      /\ More(old, new, {s \in S : old[s].condition = "used"}, {s \in T : new[s].condition = "used"})
      /\ More(old, new, {s \in S : DayOf(old[s].day) <= TenthDay}, {s \in T : DayOf(new[s].day) <= TenthDay})
      /\ More(old, new, {s \in S : DayOf(old[s].day) <= FastStartDay},
                        {s \in T : DayOf(new[s].day) <= FastStartDay})
  <2>1. \A U \in SUBSET T : IsFiniteSet(U)
    BY FS_Subset DEF More
  <2> QED
    BY <2>1 DEF More
<1>2. /\ UnitsIn(old, S) \in Int /\ UnitsIn(new, T) \in Int /\ UnitsIn(old, S) <= UnitsIn(new, T)
  BY UnitsGrow
<1>3. /\ MetricsIn(old, S).monthly_new_units \in Int /\ MetricsIn(new, T).monthly_new_units \in Int
      /\ MetricsIn(old, S).monthly_new_units <= MetricsIn(new, T).monthly_new_units
  BY <1>1, UnitsGrow DEF MetricsIn
<1>4. /\ MetricsIn(old, S).monthly_used_units \in Int /\ MetricsIn(new, T).monthly_used_units \in Int
      /\ MetricsIn(old, S).monthly_used_units <= MetricsIn(new, T).monthly_used_units
  BY <1>1, UnitsGrow DEF MetricsIn
<1>5. /\ MetricsIn(old, S).units_by_day_10 \in Int /\ MetricsIn(new, T).units_by_day_10 \in Int
      /\ MetricsIn(old, S).units_by_day_10 <= MetricsIn(new, T).units_by_day_10
  BY <1>1, UnitsGrow DEF MetricsIn
<1>6. /\ MetricsIn(old, S).fast_start_volume_units \in Int /\ MetricsIn(new, T).fast_start_volume_units \in Int
      /\ MetricsIn(old, S).fast_start_volume_units <= MetricsIn(new, T).fast_start_volume_units
  <2> DEFINE p == UnitsIn(old, {s \in S : DayOf(old[s].day) <= FastStartDay})
             q == UnitsIn(new, {s \in T : DayOf(new[s].day) <= FastStartDay})
  <2>1. p \in Int /\ q \in Int /\ p <= q
    BY <1>1, UnitsGrow
  <2>2. /\ MetricsIn(old, S).fast_start_volume_units = UnitsIn(old, S) + p
        /\ MetricsIn(new, T).fast_start_volume_units = UnitsIn(new, T) + q
    BY DEF MetricsIn
  <2> HIDE DEF p, q
  <2> QED
    BY <1>2, <2>1, <2>2
<1>7. /\ MetricsIn(old, S).monthly_units = UnitsIn(old, S)
      /\ MetricsIn(new, T).monthly_units = UnitsIn(new, T)
  BY DEF MetricsIn
<1>8. MetricsGrow(MetricsIn(old, S), MetricsIn(new, T))
  BY <1>2, <1>3, <1>4, <1>5, <1>6, <1>7 DEF MetricsGrow, UnitMetrics
<1>9. /\ DOMAIN MetricsIn(old, S) = UnitMetrics \cup GrossMetrics
      /\ DOMAIN MetricsIn(new, T) = UnitMetrics \cup GrossMetrics
  BY DEF MetricsIn, UnitMetrics, GrossMetrics
<1> QED
  BY <1>8, <1>9

(* And with the context of the month.                                      *)
LEMMA PeriodInGrows ==
  ASSUME NEW old, NEW new, NEW S, NEW T, More(old, new, S, T), NEW facts \in Eligibilities, NEW m
  PROVE  ContextGrows(PeriodIn(old, S, facts, m), PeriodIn(new, T, facts, m))
<1> DEFINE a == PeriodIn(old, S, facts, m)
           b == PeriodIn(new, T, facts, m)
<1>1. /\ a.scope = "period" /\ b.scope = "period" /\ a.day = b.day
      /\ a.sale = <<>> /\ b.sale = <<>> /\ a.eligibility = facts /\ b.eligibility = facts
      /\ a.metrics = MetricsIn(old, S) /\ b.metrics = MetricsIn(new, T)
      /\ \A d \in Days : /\ a.since[d] = MetricsIn(old, {s \in S : old[s].day >= d})
                          /\ b.since[d] = MetricsIn(new, {s \in T : new[s].day >= d})
  BY DEF PeriodIn
<1>2. ASSUME NEW d \in Days PROVE MetricsGrow(a.since[d], b.since[d])
  <2>1. \A U \in SUBSET T : IsFiniteSet(U)
    BY FS_Subset DEF More
  <2>2. More(old, new, {s \in S : old[s].day >= d}, {s \in T : new[s].day >= d})
    BY <2>1 DEF More
  <2> HIDE DEF a, b
  <2> QED
    BY <1>1, <2>2, MetricsInGrow
<1>3. /\ MetricsGrow(a.metrics, b.metrics)
      /\ DOMAIN a.metrics = UnitMetrics \cup GrossMetrics
      /\ DOMAIN b.metrics = UnitMetrics \cup GrossMetrics
  <2>1. /\ MetricsGrow(MetricsIn(old, S), MetricsIn(new, T))
        /\ DOMAIN MetricsIn(old, S) = UnitMetrics \cup GrossMetrics
        /\ DOMAIN MetricsIn(new, T) = UnitMetrics \cup GrossMetrics
    BY MetricsInGrow
  <2>2. a.metrics = MetricsIn(old, S) /\ b.metrics = MetricsIn(new, T)
    BY <1>1
  <2> HIDE DEF a, b
  <2> QED
    BY <2>1, <2>2, Zenon
<1>4. {facts.nps_qualifying_surveys, facts.nps_low_score_surveys} \subseteq Int
  BY ConstantsAssumption
<1> HIDE DEF a, b
<1>5. ContextGrows(a, b)
  BY <1>1, <1>2, <1>3, <1>4 DEF ContextGrows
<1> QED
  BY <1>5 DEF a, b

(* The sum of the bonuses of a version grows with the context.             *)
LEMMA BonusesGrow ==
  ASSUME NEW version, IsVersion(version), NEW a, NEW b, ContextGrows(a, b),
         NEW m, a.eligibility = eligibility[m],
         \A i \in RulesOf(version, "period", BonusTypes) : Grows(version.rules[i], m)
  PROVE  LET bonuses == RulesOf(version, "period", BonusTypes)
             before  == Total([i \in bonuses |-> Evaluate(version.rules[i], a).amount])
             after   == Total([i \in bonuses |-> Evaluate(version.rules[i], b).amount])
         IN  before \in Int /\ after \in Int /\ before <= after
<1> DEFINE bonuses == RulesOf(version, "period", BonusTypes)
           f == [i \in bonuses |-> Evaluate(version.rules[i], a).amount]
           g == [i \in bonuses |-> Evaluate(version.rules[i], b).amount]
<1>1. IsFiniteSet(bonuses)
  <2>1. version.rules \in Seq(Range(version.rules))
    BY DEF IsVersion, Sequence
  <2>2. DOMAIN version.rules = 1..Len(version.rules) /\ Len(version.rules) \in Nat
    BY <2>1
  <2>3. bonuses \in SUBSET (1..Len(version.rules)) /\ IsFiniteSet(1..Len(version.rules))
    BY <2>2, FS_Interval DEF RulesOf
  <2> HIDE DEF bonuses
  <2> QED
    BY <2>3, FS_Subset
<1>2. ASSUME NEW i \in bonuses
      PROVE  /\ Evaluate(version.rules[i], a).amount \in Int
             /\ Evaluate(version.rules[i], b).amount \in Int
             /\ Evaluate(version.rules[i], a).amount <= Evaluate(version.rules[i], b).amount
  <2>1. /\ i \in DOMAIN version.rules /\ version.rules[i].type \in BonusTypes
        /\ Grows(version.rules[i], m)
    BY DEF RulesOf
  <2>2. IsRule(version.rules[i]) /\ version.rules[i].start \in Days \cup {NoStart}
    BY <2>1 DEF IsVersion
  <2> HIDE DEF bonuses
  <2> QED
    BY <2>1, <2>2, EvaluateGrows
<1>3. f \in [bonuses -> Int] /\ g \in [bonuses -> Int] /\ \A i \in bonuses : f[i] <= g[i]
  <2> HIDE DEF bonuses
  <2> QED
    BY <1>2
<1>4. Total(f) \in Int /\ Total(g) \in Int /\ Total(f) <= Total(g)
  <2> HIDE DEF bonuses, f, g
  <2> QED
    BY <1>1, <1>3, TotalLeq, TotalType
<1> QED
  BY <1>4

(* A month of which some day is covered has a version of the plan.         *)
LEMMA MonthVersion ==
  ASSUME TypeOK, NEW m, PeriodVersion(m) # NoVersion
  PROVE  IsVersion(PeriodVersion(m))
<1> DEFINE covered == {d \in Days : Month(d) = m /\ calendar[d] # NoVersion}
           first == CHOOSE d \in covered : \A e \in covered : d <= e
<1>1. covered # {} /\ PeriodVersion(m) = calendar[first]
  BY DEF PeriodVersion
<1>2. covered \in SUBSET Nat
  BY ConstantsAssumption DEF Days
<1>3. first \in covered
  <2>1. \E d \in covered : \A e \in covered : d <= e
    <3> HIDE DEF covered
    <3> QED
      BY <1>1, <1>2, Least
  <2> HIDE DEF covered
  <2> QED
    BY <2>1
<1>4. first \in Days /\ calendar[first] # NoVersion
  BY <1>3
<1> HIDE DEF first
<1> QED
  BY <1>1, <1>4, ConstantsAssumption DEF TypeOK

(* A new sale is one more row of its month.                                *)
LEMMA NewSale ==
  ASSUME TypeOK, NEW f \in Facts, AddSale(f), NEW m, m = Month(f.day)
  PROVE  /\ last + 1 \in SaleIds /\ sales'[last + 1] = f
         /\ \A s \in SalesOf(m) : sales'[s] = sales[s]
         /\ SalesOf(m)' = SalesOf(m) \cup {last + 1}
<1>1. /\ last + 1 \in SaleIds /\ sales' = [sales EXCEPT ![last + 1] = f]
      /\ sales \in [SaleIds -> Facts \cup {NoSale}]
  BY DEF AddSale, TypeOK
<1>2. sales[last + 1] = NoSale
  <2>1. last \in Int /\ ~(last + 1 <= last)
    BY <1>1, ConstantsAssumption DEF TypeOK, SaleIds
  <2> QED
    BY <1>1, <2>1 DEF TypeOK
<1>3. f # NoSale
  <2>1. f.day \in Days /\ 0 \notin Days
    BY ConstantsAssumption DEF Days
  <2> QED
    BY <2>1 DEF NoSale
<1>4. /\ sales'[last + 1] = f
      /\ \A s \in SaleIds : s # last + 1 => sales'[s] = sales[s]
  BY <1>1
<1>5. SalesOf(m)' = {s \in SaleIds : sales'[s] # NoSale /\ Month(sales'[s].day) = m}
  BY DEF SalesOf, Recorded, Month, NoSale
<1>6. SalesOf(m) = {s \in SaleIds : sales[s] # NoSale /\ Month(sales[s].day) = m}
  BY DEF SalesOf, Recorded
<1> QED
  BY <1>1, <1>2, <1>3, <1>4, <1>5, <1>6

(* A new sale does not lower the unit bonus.                               *)
LEMMA StepBonus ==
  ASSUME TypeOK, TypeOK', NEW f \in Facts, AddSale(f), calendar[f.day] # NoVersion,
         NEW m, m = Month(f.day),
         \A i \in RulesOf(PeriodVersion(m), "period", BonusTypes) : Grows(PeriodVersion(m).rules[i], m)
  PROVE  UnitBonus(m)' >= UnitBonus(m)
<1> DEFINE n == last + 1
           version == PeriodVersion(m)
           bonuses == RulesOf(version, "period", BonusTypes)
           a == PeriodContext(m)
           b == PeriodIn(sales', SalesOf(m)', eligibility[m], m)
           bonus(ctx) == Total([i \in bonuses |-> Evaluate(version.rules[i], ctx).amount])
           none(rows, S) == version = NoVersion \/ \E s \in S : calendar[rows[s].day] = NoVersion
<1>1. calendar' = calendar /\ eligibility' = eligibility
  BY DEF AddSale
<1>2. /\ n \in SaleIds /\ sales'[n] = f
      /\ \A s \in SalesOf(m) : sales'[s] = sales[s]
      /\ SalesOf(m)' = SalesOf(m) \cup {n}
  BY NewSale
<1>3. More(sales, sales', SalesOf(m), SalesOf(m)')
  <2>1. SalesOf(m) \in SUBSET SaleIds
    BY DEF SalesOf, Recorded
  <2>2. IsFiniteSet(SalesOf(m)')
    BY <1>2, <2>1, SalesFinite, FS_Subset
  <2>3. f.count \in Int /\ f.count >= 0
    BY ConstantsAssumption DEF Counts
  <2>4. \A s \in SalesOf(m) : sales[s].count \in Int /\ sales[s].count >= 0
    BY SeriesRow DEF SalesOf, Recorded
  <2> QED
    BY <1>2, <2>2, <2>3, <2>4 DEF More
<1>4. PeriodVersion(m)' = version
  BY <1>1 DEF PeriodVersion, Month, NoVersion
<1>5. PeriodContext(m)' = b
  BY <1>1, MonthContext
<1>6. UnitBonus(m) = IF none(sales, SalesOf(m)) THEN 0 ELSE bonus(a)
  BY DEF UnitBonus, VersionOf
<1>7. UnitBonus(m)' = IF none(sales', SalesOf(m)') THEN 0 ELSE bonus(b)
  BY <1>1, <1>4, <1>5 DEF UnitBonus, VersionOf
<1>8. none(sales, SalesOf(m)) <=> none(sales', SalesOf(m)')
  BY <1>2
<1>9. ASSUME version # NoVersion PROVE bonus(a) \in Int /\ bonus(b) \in Int /\ bonus(a) <= bonus(b)
  <2>1. IsVersion(version)
    BY <1>9, MonthVersion
  <2>2. f.day \in Days
    BY ConstantsAssumption
  <2>3. m \in 0..Months
    BY <2>2, MonthOfDay
  <2>4. eligibility[m] \in Eligibilities
    BY <2>3 DEF TypeOK
  <2>5. a = PeriodIn(sales, SalesOf(m), eligibility[m], m)
    BY MonthContext
  <2>6. ContextGrows(a, b)
    BY <1>3, <2>4, <2>5, PeriodInGrows
  <2>7. a.eligibility = eligibility[m]
    BY DEF PeriodContext
  <2> HIDE DEF version, a, b
  <2> QED
    BY <2>1, <2>6, <2>7, BonusesGrow DEF version
<1> HIDE DEF bonus, none, a, b, version
<1> QED
  BY <1>6, <1>7, <1>8, <1>9 DEF none

(* A new sale never lowers the unit bonus of its month, whatever the plan    *)
(* and the sales, if its bonuses ask for nothing a sale may break: the sales *)
(* of the month are one more, so no count of units falls, so each bonus, and *)
(* the sum of them, pays as much as before.                                  *)
THEOREM BonusNeverFallsCorrect == Spec => BonusNeverFalls
<1> DEFINE A == \A f \in Facts :
       LET m == Month(f.day)
           bonuses == RulesOf(PeriodVersion(m), "period", BonusTypes)
       IN  AddSale(f) /\ calendar[f.day] # NoVersion
             /\ (\A i \in bonuses : Grows(PeriodVersion(m).rules[i], m))
           => UnitBonus(m)' >= UnitBonus(m)
<1>1. TypeOK /\ [Next]_vars => [A]_vars
  <2> SUFFICES ASSUME TypeOK, [Next]_vars PROVE A
    OBVIOUS
  <2>1. TypeOK'
    BY StepType
  <2>2. ASSUME NEW f \in Facts, AddSale(f), calendar[f.day] # NoVersion,
               \A i \in RulesOf(PeriodVersion(Month(f.day)), "period", BonusTypes) :
                 Grows(PeriodVersion(Month(f.day)).rules[i], Month(f.day))
        PROVE  UnitBonus(Month(f.day))' >= UnitBonus(Month(f.day))
    BY <2>1, <2>2, StepBonus
  <2> QED
    BY <2>2
<1> QED
  BY <1>1, TypeCorrect, PTL DEF Spec, BonusNeverFalls

=============================================================================
