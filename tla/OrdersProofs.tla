---------------------------- MODULE OrdersProofs ----------------------------
(***************************************************************************)
(* Facts about the vocabulary of module Orders: the best price of a set    *)
(* exists and is unique, what adding, dropping and shrinking an order does *)
(* to the levels that the order map adds up to, and how ranks number the   *)
(* members of a finite set in a strict order.                              *)
(***************************************************************************)
EXTENDS Orders, FiniteSetTheorems, WellFoundedInduction, TLAPS

-----------------------------------------------------------------------------
(***************************************************************************)
(* Best of a set.                                                          *)
(***************************************************************************)

IsBest(side, x, S) == x \in S /\ \A y \in S : ~Better(side, y, x)

\* A finite non-empty set of integers has a best element on either side: take a smallest
\* non-empty subset without one and leave an element out.
LEMMA BestExists ==
  ASSUME NEW side, NEW S \in SUBSET Int, IsFiniteSet(S), S # {}
  PROVE  \E x \in S : \A y \in S : ~Better(side, y, x)
<1> DEFINE Bad == {T \in SUBSET S : T # {} /\ ~\E x \in T : IsBest(side, x, T)}
<1>1. SUFFICES ASSUME Bad # {} PROVE FALSE
  BY DEF IsBest
<1>2. PICK T \in Bad : \A U \in Bad : ~(<<U, T>> \in StrictSubsetOrdering(S))
  <2>1. FiniteSubsetsOf(S) = SUBSET S
    BY FS_FiniteSubsetsOfFinite
  <2>2. IsWellFoundedOn(StrictSubsetOrdering(S), SUBSET S)
    BY <2>1, FS_StrictSubsetOrderingWellFounded
  <2> HIDE DEF Bad
  <2>3. Bad \subseteq SUBSET S
    BY DEF Bad
  <2> QED
    BY <1>1, <2>2, <2>3, WFMin
<1>3. PICK x \in T : TRUE
  OBVIOUS
<1>4. CASE T \ {x} = {}
  BY <1>3, <1>4 DEF IsBest, Better
<1>5. CASE T \ {x} # {}
  <2>1. <<T \ {x}, T>> \in StrictSubsetOrdering(S)
    BY <1>3 DEF StrictSubsetOrdering
  <2>2. T \ {x} \notin Bad
    BY <1>2, <2>1
  <2>3. PICK y \in T \ {x} : IsBest(side, y, T \ {x})
    BY <1>5, <2>2
  <2>4. IsBest(side, x, T) \/ IsBest(side, y, T)
    BY <1>3, <2>3 DEF IsBest, Better
  <2> QED
    BY <1>3, <2>3, <2>4
<1> QED
  BY <1>4, <1>5

\* BestOf picks a best element of any finite non-empty set of prices or cells.
LEMMA BestOfIsBest ==
  ASSUME NEW side, NEW S \in SUBSET Int, IsFiniteSet(S), S # {}
  PROVE  IsBest(side, BestOf(side, S), S)
BY BestExists DEF IsBest, BestOf

\* There is only one best element, so BestOf is it.
LEMMA BestIsUnique ==
  ASSUME NEW side, NEW S \in SUBSET Int, NEW x, IsBest(side, x, S)
  PROVE  BestOf(side, S) = x
<1>1. \A y : IsBest(side, y, S) => y = x
  BY DEF IsBest, Better
<1> QED
  BY <1>1 DEF IsBest, BestOf

-----------------------------------------------------------------------------
(***************************************************************************)
(* Ranks: in a finite set in a strict order, each member has a number of   *)
(* others before it, and each number below the size of the set is that of  *)
(* one member.                                                             *)
(***************************************************************************)
\* below[x] are the members of S before x in a strict total order.
Ranking(S, below) ==
  /\ below \in [S -> SUBSET S]
  /\ \A x \in S : x \notin below[x]
  /\ \A x, y \in S : x \in below[y] => below[x] \subseteq below[y]
  /\ \A x, y \in S : x = y \/ x \in below[y] \/ y \in below[x]

\* What comes earlier has fewer before it.
LEMMA RanksRise ==
  ASSUME NEW S, IsFiniteSet(S), NEW below, Ranking(S, below)
  PROVE  /\ \A x \in S : /\ IsFiniteSet(below[x])
                         /\ Cardinality(below[x]) \in 0 .. Cardinality(S) - 1
         /\ \A x, y \in S : x \in below[y] => Cardinality(below[x]) < Cardinality(below[y])
<1>1. ASSUME NEW x \in S
      PROVE  /\ below[x] \in SUBSET S /\ IsFiniteSet(below[x]) /\ Cardinality(below[x]) \in Nat
             /\ IsFiniteSet(below[x] \cup {x})
             /\ Cardinality(below[x] \cup {x}) = Cardinality(below[x]) + 1
  <2>1. below[x] \in SUBSET S /\ x \notin below[x]
    BY DEF Ranking
  <2>2. IsFiniteSet(below[x])
    BY <2>1, FS_Subset
  <2> QED
    BY <2>1, <2>2, FS_AddElement, FS_CardinalityType
<1>2. ASSUME NEW x \in S
      PROVE  Cardinality(below[x]) + 1 <= Cardinality(S) /\ Cardinality(S) \in Nat
  <2>1. below[x] \cup {x} \in SUBSET S
    BY <1>1
  <2> QED
    BY <1>1, <2>1, FS_Subset, FS_CardinalityType
<1>3. ASSUME NEW x \in S, NEW y \in S, x \in below[y]
      PROVE  Cardinality(below[x]) < Cardinality(below[y])
  <2>1. below[x] \cup {x} \in SUBSET below[y]
    BY <1>3 DEF Ranking
  <2>2. Cardinality(below[x] \cup {x}) <= Cardinality(below[y])
    BY <1>1, <2>1, FS_Subset
  <2>3. Cardinality(below[x]) \in Nat /\ Cardinality(below[y]) \in Nat
    BY <1>1
  <2>4. Cardinality(below[x] \cup {x}) = Cardinality(below[x]) + 1
    BY <1>1
  <2> QED
    BY <2>2, <2>3, <2>4
<1>4. ASSUME NEW x \in S
      PROVE  IsFiniteSet(below[x]) /\ Cardinality(below[x]) \in 0 .. Cardinality(S) - 1
  <2>1. Cardinality(below[x]) \in Nat /\ IsFiniteSet(below[x])
    BY <1>1
  <2> QED
    BY <1>2, <2>1
<1> QED
  BY <1>3, <1>4

\* No two members have the same rank.
LEMMA RanksDiffer ==
  ASSUME NEW S, IsFiniteSet(S), NEW below, Ranking(S, below), NEW x \in S, NEW y \in S,
         Cardinality(below[x]) = Cardinality(below[y])
  PROVE  x = y
<1>1. x = y \/ x \in below[y] \/ y \in below[x]
  BY DEF Ranking
<1>2. Cardinality(below[x]) \in Int
  BY RanksRise
<1> QED
  BY <1>1, <1>2, RanksRise

\* Every rank is somebody's.
LEMMA RanksFill ==
  ASSUME NEW S, IsFiniteSet(S), NEW below, Ranking(S, below), NEW k \in 1 .. Cardinality(S)
  PROVE  \E x \in S : Cardinality(below[x]) = k - 1
<1> DEFINE n == Cardinality(S)
           r == [x \in S |-> Cardinality(below[x]) + 1]
<1>1. n \in Nat
  BY FS_CardinalityType
<1>2. \A x \in S : Cardinality(below[x]) \in 0 .. n - 1
  BY RanksRise
<1>3. IsFiniteSet(1 .. n) /\ Cardinality(1 .. n) = n
  BY <1>1, FS_Interval
<1> HIDE DEF n
<1>4. r \in [S -> 1 .. n]
  BY <1>1, <1>2
<1>5. \A x, y \in S : r[x] = r[y] => x = y
  BY <1>1, <1>2, RanksDiffer
<1>6. r \in Injection(S, 1 .. n)
  BY <1>4, <1>5 DEF Injection, IsInjective
<1>7. r \in Surjection(S, 1 .. n)
  BY <1>3, <1>6, FS_Injection DEF n
<1>8. PICK x \in S : r[x] = k
  BY <1>7 DEF Surjection, n
<1> QED
  BY <1>1, <1>2, <1>8

\* A non-empty set of numbers has a least one.
LEMMA LeastOf ==
  ASSUME NEW T \in SUBSET Nat, T # {}
  PROVE  \E m \in T : \A k \in T : m <= k
<1>1. PICK m \in T : \A k \in T : <<k, m>> \notin OpToRel(<, Nat)
  BY NatLessThanWellFounded, WFMin
<1> WITNESS m \in T
<1> TAKE k \in T
<1>2. <<k, m>> \in Nat \X Nat /\ ~(k < m)
  BY <1>1 DEF OpToRel
<1> QED
  BY <1>2

-----------------------------------------------------------------------------
(***************************************************************************)
(* Sums of quantities.                                                     *)
(***************************************************************************)

\* An order map with finitely many orders.
IsOrderMap(o) == o \in [DOMAIN o -> OrderType] /\ IsFiniteSet(DOMAIN o)

Total(o, R) == Cardinality(SharesHeld(o, R))

\* The shares of one order are as many as its quantity.
LEMMA SharesOfOne ==
  ASSUME NEW r, NEW q \in Nat
  PROVE  IsFiniteSet({r} \X (1 .. q)) /\ Cardinality({r} \X (1 .. q)) = q
<1>1. IsFiniteSet(1 .. q) /\ Cardinality(1 .. q) = q
  BY FS_Interval
<1>2. IsFiniteSet({r}) /\ Cardinality({r}) = 1
  BY FS_Singleton
<1> QED
  BY SMTT(30), <1>1, <1>2, FS_Product

\* Finitely many orders hold finitely many shares.
LEMMA SharesHeldFinite ==
  ASSUME NEW o, IsOrderMap(o), NEW R \in SUBSET DOMAIN o
  PROVE  IsFiniteSet(SharesHeld(o, R)) /\ Total(o, R) \in Nat
<1> DEFINE f == [r \in R |-> {r} \X (1 .. o[r].qty)]
           T == {{r} \X (1 .. o[r].qty) : r \in R}
<1>1. IsFiniteSet(R)
  BY FS_Subset DEF IsOrderMap
<1>2. f \in Surjection(R, T)
  BY DEF Surjection
<1>3. IsFiniteSet(T)
  BY <1>1, <1>2, FS_Surjection
<1>4. \A U \in T : IsFiniteSet(U)
  <2>1. \A r \in R : o[r].qty \in Nat
    BY DEF IsOrderMap, OrderType
  <2>2. \A r \in R : IsFiniteSet({r} \X (1 .. o[r].qty))
    BY <2>1, SharesOfOne
  <2> QED
    BY <2>2
<1>5. IsFiniteSet(UNION T)
  BY <1>3, <1>4, FS_UNION
<1> QED
  BY <1>5, FS_CardinalityType DEF SharesHeld, Total

\* Taking one order out of a set of orders takes out its quantity.
LEMMA TotalWithout ==
  ASSUME NEW o, IsOrderMap(o), NEW R \in SUBSET DOMAIN o, NEW r \in R
  PROVE  Total(o, R) = Total(o, R \ {r}) + o[r].qty
<1> DEFINE A == SharesHeld(o, R \ {r})
           B == {r} \X (1 .. o[r].qty)
<1>1. SharesHeld(o, R) = A \cup B
  BY DEF SharesHeld
<1>2. A \cap B = {}
  BY DEF SharesHeld
<1>3. o[r].qty \in Nat
  BY DEF IsOrderMap, OrderType
<1>4. IsFiniteSet(A)
  BY SharesHeldFinite
<1>5. IsFiniteSet(B) /\ Cardinality(B) = o[r].qty
  BY <1>3, SharesOfOne
<1>6. Cardinality(A \cup B) = Cardinality(A) + Cardinality(B) - Cardinality(A \cap B)
  BY <1>4, <1>5, FS_Union
<1>7. Cardinality(A) \in Nat
  BY <1>4, FS_CardinalityType
<1> HIDE DEF A, B
<1>8. Cardinality(A \cap B) = 0
  BY <1>2, FS_EmptySet
<1>9. Cardinality(A \cup B) = Cardinality(A) + o[r].qty
  BY <1>3, <1>5, <1>6, <1>7, <1>8
<1> QED
  BY <1>1, <1>9 DEF Total, A

\* Two order maps that agree on the quantities of a set of orders agree on its total.
LEMMA TotalAgrees ==
  ASSUME NEW o, NEW p, NEW R, \A r \in R : o[r].qty = p[r].qty
  PROVE  Total(o, R) = Total(p, R)
<1>1. SharesHeld(o, R) = SharesHeld(p, R)
  BY DEF SharesHeld
<1> QED
  BY <1>1 DEF Total

QtyIn(o, R, ref) == IF ref \in R THEN o[ref].qty ELSE 0
OneIn(R, ref) == IF ref \in R THEN 1 ELSE 0

\* A change confined to one order moves a total by the change of that order.
LEMMA TotalChange ==
  ASSUME NEW o, IsOrderMap(o), NEW R \in SUBSET DOMAIN o,
         NEW p, IsOrderMap(p), NEW S \in SUBSET DOMAIN p,
         NEW ref, R \ {ref} = S \ {ref},
         \A r \in R \ {ref} : o[r].qty = p[r].qty
  PROVE  /\ Total(o, R) \in Nat /\ Total(p, S) \in Nat
         /\ Cardinality(R) \in Nat /\ Cardinality(S) \in Nat
         /\ Total(p, S) = Total(o, R) - QtyIn(o, R, ref) + QtyIn(p, S, ref)
         /\ Cardinality(S) = Cardinality(R) - OneIn(R, ref) + OneIn(S, ref)
         /\ QtyIn(o, R, ref) \in Nat /\ QtyIn(p, S, ref) \in Nat
<1>1. Total(o, R \ {ref}) = Total(p, S \ {ref})
  BY TotalAgrees
<1>2. /\ Total(o, R) \in Nat /\ Total(o, R \ {ref}) \in Nat
      /\ Total(p, S) \in Nat
  BY SharesHeldFinite
<1>3. QtyIn(o, R, ref) \in Nat /\ QtyIn(p, S, ref) \in Nat
  BY DEF QtyIn, IsOrderMap, OrderType
<1>4. Total(o, R) = Total(o, R \ {ref}) + QtyIn(o, R, ref)
  <2>1. CASE ref \in R
    BY <2>1, TotalWithout DEF QtyIn
  <2>2. CASE ref \notin R
    <3>1. R \ {ref} = R
      BY <2>2
    <3>2. Total(o, R \ {ref}) = Total(o, R)
      BY <3>1, Zenon
    <3>3. QtyIn(o, R, ref) = 0
      BY <2>2 DEF QtyIn
    <3> QED
      BY <1>2, <3>2, <3>3
  <2> QED
    BY <2>1, <2>2
<1>5. Total(p, S) = Total(p, S \ {ref}) + QtyIn(p, S, ref)
  <2>1. CASE ref \in S
    BY <2>1, TotalWithout DEF QtyIn
  <2>2. CASE ref \notin S
    <3>1. S \ {ref} = S
      BY <2>2
    <3>2. Total(p, S \ {ref}) = Total(p, S)
      BY <3>1, Zenon
    <3>3. QtyIn(p, S, ref) = 0
      BY <2>2 DEF QtyIn
    <3> QED
      BY <1>2, <3>2, <3>3
  <2> QED
    BY <2>1, <2>2
<1>6. /\ IsFiniteSet(R) /\ IsFiniteSet(S)
      /\ Cardinality(R) \in Nat /\ Cardinality(S) \in Nat
      /\ Cardinality(R \ {ref}) = Cardinality(R) - OneIn(R, ref)
      /\ Cardinality(S \ {ref}) = Cardinality(S) - OneIn(S, ref)
  <2>1. IsFiniteSet(R) /\ IsFiniteSet(S)
    BY FS_Subset DEF IsOrderMap
  <2>2. Cardinality(R) \in Nat /\ Cardinality(S) \in Nat
    BY <2>1, FS_CardinalityType
  <2>3. Cardinality(R \ {ref}) = IF ref \in R THEN Cardinality(R) - 1 ELSE Cardinality(R)
    BY <2>1, FS_RemoveElement
  <2>4. Cardinality(S \ {ref}) = IF ref \in S THEN Cardinality(S) - 1 ELSE Cardinality(S)
    BY <2>1, FS_RemoveElement
  <2>5. Cardinality(R \ {ref}) = Cardinality(R) - OneIn(R, ref)
    BY <2>2, <2>3 DEF OneIn
  <2>6. Cardinality(S \ {ref}) = Cardinality(S) - OneIn(S, ref)
    BY <2>2, <2>4 DEF OneIn
  <2> QED
    BY <2>1, <2>2, <2>5, <2>6
<1>7. OneIn(R, ref) \in Nat /\ OneIn(S, ref) \in Nat
  BY DEF OneIn
<1>8. Cardinality(R \ {ref}) = Cardinality(S \ {ref})
  OBVIOUS
<1> DEFINE a == Total(o, R \ {ref})  b == Total(p, S \ {ref})
           c == Cardinality(R \ {ref})  d == Cardinality(S \ {ref})
<1>9. /\ a = b /\ c = d /\ a \in Nat
      /\ Total(o, R) = a + QtyIn(o, R, ref) /\ Total(p, S) = b + QtyIn(p, S, ref)
      /\ c = Cardinality(R) - OneIn(R, ref) /\ d = Cardinality(S) - OneIn(S, ref)
  BY <1>1, <1>2, <1>4, <1>5, <1>6, <1>8
<1> HIDE DEF a, b, c, d
<1>10. Total(p, S) = Total(o, R) - QtyIn(o, R, ref) + QtyIn(p, S, ref)
  BY <1>2, <1>3, <1>9
<1>11. Cardinality(S) = Cardinality(R) - OneIn(R, ref) + OneIn(S, ref)
  <2> DEFINE m == Cardinality(R)  n == Cardinality(S)
  <2>1. m \in Nat /\ n \in Nat
    BY <1>6
  <2>2. c = m - OneIn(R, ref) /\ d = n - OneIn(S, ref) /\ c = d
    BY <1>9
  <2> HIDE DEF m, n
  <2>3. n = m - OneIn(R, ref) + OneIn(S, ref)
    BY <2>1, <2>2, <1>7
  <2> QED
    BY <2>3 DEF m, n
<1> QED
  BY <1>2, <1>3, <1>6, <1>10, <1>11
-----------------------------------------------------------------------------
(***************************************************************************)
(* What the orders at a price, and all of them, come to.                   *)
(***************************************************************************)
NumAt(o, d, p) == Cardinality(RefsAt(o, d, p))
SumAt(o, d, p) == Total(o, RefsAt(o, d, p))
NumAll(o) == Cardinality(DOMAIN o)
SumAll(o) == Total(o, DOMAIN o)

\* The part of one order in them.
IsAt(o, ref, d, p) == ref \in DOMAIN o /\ o[ref].side = d /\ o[ref].price = p
QtyAt(o, ref, d, p) == IF IsAt(o, ref, d, p) THEN o[ref].qty ELSE 0
OneAt(o, ref, d, p) == IF IsAt(o, ref, d, p) THEN 1 ELSE 0
QtyOf(o, ref) == IF ref \in DOMAIN o THEN o[ref].qty ELSE 0
OneOf(o, ref) == IF ref \in DOMAIN o THEN 1 ELSE 0

\* Two order maps that differ at ref at most.
DifferAt(o, q, ref) ==
  \A r : r # ref => (r \in DOMAIN o <=> r \in DOMAIN q) /\ (r \in DOMAIN o => o[r] = q[r])

\* Orders and shares at one price, when one order came, went or changed.
LEMMA SumsChangeAt ==
  ASSUME NEW o, NEW q, IsOrderMap(o), IsOrderMap(q), NEW ref, DifferAt(o, q, ref), NEW d, NEW p
  PROVE  /\ NumAt(o, d, p) \in Nat /\ SumAt(o, d, p) \in Nat
         /\ NumAt(q, d, p) \in Nat /\ SumAt(q, d, p) \in Nat
         /\ NumAt(q, d, p) = NumAt(o, d, p) - OneAt(o, ref, d, p) + OneAt(q, ref, d, p)
         /\ SumAt(q, d, p) = SumAt(o, d, p) - QtyAt(o, ref, d, p) + QtyAt(q, ref, d, p)
<1> DEFINE R == RefsAt(o, d, p)  S == RefsAt(q, d, p)
<1>1. R \in SUBSET DOMAIN o /\ S \in SUBSET DOMAIN q
  BY DEF RefsAt
<1>2. R \ {ref} = S \ {ref} /\ \A r \in R \ {ref} : o[r].qty = q[r].qty
  BY DEF RefsAt, DifferAt
<1>3. /\ QtyIn(o, R, ref) = QtyAt(o, ref, d, p) /\ OneIn(R, ref) = OneAt(o, ref, d, p)
      /\ QtyIn(q, S, ref) = QtyAt(q, ref, d, p) /\ OneIn(S, ref) = OneAt(q, ref, d, p)
  BY DEF QtyIn, OneIn, QtyAt, OneAt, IsAt, RefsAt
<1> HIDE DEF R, S
<1>4. /\ Total(o, R) \in Nat /\ Total(q, S) \in Nat
      /\ Cardinality(R) \in Nat /\ Cardinality(S) \in Nat
      /\ Total(q, S) = Total(o, R) - QtyIn(o, R, ref) + QtyIn(q, S, ref)
      /\ Cardinality(S) = Cardinality(R) - OneIn(R, ref) + OneIn(S, ref)
  <2>1. Total(q, S) = Total(o, R) - QtyIn(o, R, ref) + QtyIn(q, S, ref)
    BY <1>1, <1>2, TotalChange
  <2>2. Cardinality(S) = Cardinality(R) - OneIn(R, ref) + OneIn(S, ref)
    BY <1>1, <1>2, TotalChange
  <2>3. Total(o, R) \in Nat /\ Total(q, S) \in Nat
    BY <1>1, <1>2, TotalChange
  <2>4. Cardinality(R) \in Nat /\ Cardinality(S) \in Nat
    BY <1>1, <1>2, TotalChange
  <2> QED
    BY <2>1, <2>2, <2>3, <2>4
<1>5. /\ NumAt(o, d, p) = Cardinality(R) /\ SumAt(o, d, p) = Total(o, R)
      /\ NumAt(q, d, p) = Cardinality(S) /\ SumAt(q, d, p) = Total(q, S)
  BY DEF NumAt, SumAt, R, S
<1>6. /\ NumAt(o, d, p) \in Nat /\ SumAt(o, d, p) \in Nat
      /\ NumAt(q, d, p) \in Nat /\ SumAt(q, d, p) \in Nat
  BY <1>4, <1>5, Zenon
<1>7. NumAt(q, d, p) = NumAt(o, d, p) - OneAt(o, ref, d, p) + OneAt(q, ref, d, p)
  BY <1>3, <1>4, <1>5, Zenon
<1>8. SumAt(q, d, p) = SumAt(o, d, p) - QtyAt(o, ref, d, p) + QtyAt(q, ref, d, p)
  BY <1>3, <1>4, <1>5, Zenon
<1> QED
  BY <1>6, <1>7, <1>8

\* The same over the whole order map.
LEMMA SumsChangeAll ==
  ASSUME NEW o, NEW q, IsOrderMap(o), IsOrderMap(q), NEW ref, DifferAt(o, q, ref)
  PROVE  /\ NumAll(o) \in Nat /\ SumAll(o) \in Nat
         /\ NumAll(q) \in Nat /\ SumAll(q) \in Nat
         /\ NumAll(q) = NumAll(o) - OneOf(o, ref) + OneOf(q, ref)
         /\ SumAll(q) = SumAll(o) - QtyOf(o, ref) + QtyOf(q, ref)
<1> DEFINE R == DOMAIN o  S == DOMAIN q
<1>1. R \in SUBSET DOMAIN o /\ S \in SUBSET DOMAIN q
  OBVIOUS
<1>2. R \ {ref} = S \ {ref} /\ \A r \in R \ {ref} : o[r].qty = q[r].qty
  BY DEF DifferAt
<1>3. /\ QtyIn(o, R, ref) = QtyOf(o, ref) /\ OneIn(R, ref) = OneOf(o, ref)
      /\ QtyIn(q, S, ref) = QtyOf(q, ref) /\ OneIn(S, ref) = OneOf(q, ref)
  BY DEF QtyIn, OneIn, QtyOf, OneOf
<1> HIDE DEF R, S
<1>4. /\ Total(o, R) \in Nat /\ Total(q, S) \in Nat
      /\ Cardinality(R) \in Nat /\ Cardinality(S) \in Nat
      /\ Total(q, S) = Total(o, R) - QtyIn(o, R, ref) + QtyIn(q, S, ref)
      /\ Cardinality(S) = Cardinality(R) - OneIn(R, ref) + OneIn(S, ref)
  <2>1. Total(q, S) = Total(o, R) - QtyIn(o, R, ref) + QtyIn(q, S, ref)
    BY <1>1, <1>2, TotalChange
  <2>2. Cardinality(S) = Cardinality(R) - OneIn(R, ref) + OneIn(S, ref)
    BY <1>1, <1>2, TotalChange
  <2>3. Total(o, R) \in Nat /\ Total(q, S) \in Nat
    BY <1>1, <1>2, TotalChange
  <2>4. Cardinality(R) \in Nat /\ Cardinality(S) \in Nat
    BY <1>1, <1>2, TotalChange
  <2> QED
    BY <2>1, <2>2, <2>3, <2>4
<1>5. /\ NumAll(o) = Cardinality(R) /\ SumAll(o) = Total(o, R)
      /\ NumAll(q) = Cardinality(S) /\ SumAll(q) = Total(q, S)
  BY DEF NumAll, SumAll, R, S
<1>6. /\ NumAll(o) \in Nat /\ SumAll(o) \in Nat
      /\ NumAll(q) \in Nat /\ SumAll(q) \in Nat
  BY <1>4, <1>5, Zenon
<1>7. NumAll(q) = NumAll(o) - OneOf(o, ref) + OneOf(q, ref)
  BY <1>3, <1>4, <1>5, Zenon
<1>8. SumAll(q) = SumAll(o) - QtyOf(o, ref) + QtyOf(q, ref)
  BY <1>3, <1>4, <1>5, Zenon
<1> QED
  BY <1>6, <1>7, <1>8

-----------------------------------------------------------------------------
(***************************************************************************)
(* The three ways in which an operation changes the order map.             *)
(***************************************************************************)
LEMMA PutOrder ==
  ASSUME NEW o, IsOrderMap(o), NEW ref, NEW x \in OrderType, NEW q, q = Put(o, ref, x)
  PROVE  IsOrderMap(q) /\ DifferAt(o, q, ref) /\ ref \in DOMAIN q /\ q[ref] = x
<1>1. DOMAIN q = DOMAIN o \cup {ref} /\ q[ref] = x /\ \A r \in DOMAIN o : r # ref => q[r] = o[r]
  BY DEF Put
<1>2. IsFiniteSet(DOMAIN q)
  BY <1>1, FS_AddElement DEF IsOrderMap
<1>3. q \in [DOMAIN q -> OrderType]
  BY <1>1 DEF IsOrderMap, Put
<1> QED
  BY <1>1, <1>2, <1>3 DEF IsOrderMap, DifferAt

\* Erasing an order leaves an order map that differs at that reference only.
LEMMA DropOrder ==
  ASSUME NEW o, IsOrderMap(o), NEW ref, NEW q, q = Drop(o, ref)
  PROVE  IsOrderMap(q) /\ DifferAt(o, q, ref) /\ ref \notin DOMAIN q
         /\ DOMAIN q = DOMAIN o \ {ref}
<1>1. DOMAIN q = DOMAIN o \ {ref} /\ \A r \in DOMAIN q : q[r] = o[r]
  BY DEF Drop, Restrict
<1>2. IsFiniteSet(DOMAIN q)
  BY <1>1, FS_RemoveElement DEF IsOrderMap
<1>3. q \in [DOMAIN q -> OrderType]
  BY <1>1 DEF IsOrderMap, Drop, Restrict
<1> QED
  BY <1>1, <1>2, <1>3 DEF IsOrderMap, DifferAt

\* Cutting an order leaves an order map that differs at that reference only.
LEMMA CutOrder ==
  ASSUME NEW o, IsOrderMap(o), NEW ref \in DOMAIN o, NEW n \in Nat, n <= o[ref].qty,
         NEW q, q = [o EXCEPT ![ref].qty = @ - n]
  PROVE  /\ IsOrderMap(q) /\ DifferAt(o, q, ref) /\ ref \in DOMAIN q
         /\ q[ref].side = o[ref].side /\ q[ref].price = o[ref].price
         /\ q[ref].qty = o[ref].qty - n
<1>1. o \in [DOMAIN o -> OrderType] /\ o[ref] \in OrderType
  BY DEF IsOrderMap
<1> DEFINE x == [o[ref] EXCEPT !.qty = @ - n]
<1>2. x \in OrderType /\ x.side = o[ref].side /\ x.price = o[ref].price
      /\ x.qty = o[ref].qty - n
  BY <1>1 DEF OrderType
<1>3. q = [o EXCEPT ![ref] = x]
  OBVIOUS
<1> HIDE DEF x
<1>4. /\ q \in [DOMAIN o -> OrderType] /\ DOMAIN q = DOMAIN o /\ q[ref] = x
      /\ \A r \in DOMAIN o : r # ref => q[r] = o[r]
  BY <1>1, <1>2, <1>3
<1> QED
  BY <1>2, <1>4 DEF IsOrderMap, DifferAt
\* Where no order rests there are no shares.
LEMMA NoneAt ==
  ASSUME NEW o, IsOrderMap(o), NEW d, NEW p, NumAt(o, d, p) = 0
  PROVE  SumAt(o, d, p) = 0
<1> DEFINE R == RefsAt(o, d, p)
<1>1. IsFiniteSet(R)
  <2>1. R \in SUBSET DOMAIN o /\ IsFiniteSet(DOMAIN o)
    BY DEF RefsAt, IsOrderMap
  <2> QED
    BY <2>1, FS_Subset
<1>2. R = {}
  BY <1>1, FS_EmptySet DEF NumAt
<1>3. SharesHeld(o, {}) = {}
  BY DEF SharesHeld
<1> QED
  BY <1>2, <1>3, FS_EmptySet DEF SumAt, Total

\* No orders, no shares.
LEMMA NoOrdersAtAll ==
  /\ IsOrderMap(NoOrders) /\ NumAll(NoOrders) = 0 /\ SumAll(NoOrders) = 0
  /\ \A d, p : NumAt(NoOrders, d, p) = 0 /\ SumAt(NoOrders, d, p) = 0
<1>1. DOMAIN NoOrders = {} /\ NoOrders \in [{} -> OrderType]
  BY DEF NoOrders
<1>2. IsFiniteSet({}) /\ Cardinality({}) = 0
  BY FS_EmptySet
<1>3. IsOrderMap(NoOrders)
  BY <1>1, <1>2 DEF IsOrderMap
<1>4. SharesHeld(NoOrders, {}) = {}
  BY DEF SharesHeld
<1>5. NumAll(NoOrders) = 0 /\ SumAll(NoOrders) = 0
  BY <1>1, <1>2, <1>4 DEF NumAll, SumAll, Total
<1>6. ASSUME NEW d, NEW p PROVE NumAt(NoOrders, d, p) = 0 /\ SumAt(NoOrders, d, p) = 0
  <2>1. RefsAt(NoOrders, d, p) = {}
    BY <1>1 DEF RefsAt
  <2> QED
    BY <2>1, <1>2, <1>4 DEF NumAt, SumAt, Total
<1> QED
  BY <1>3, <1>5, <1>6
=============================================================================
