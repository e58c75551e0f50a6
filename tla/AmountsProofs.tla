----------------------------- MODULE AmountsProofs -----------------------------
(***************************************************************************)
(* What SumAmounts computes: the laws of a finite sum of naturals.         *)
(***************************************************************************)
EXTENDS Amounts, FiniteSetTheorems, TLAPS

\* Finitely many rows with natural amounts hold finitely many minor units.
LEMMA MinorUnitsFinite ==
  ASSUME NEW rows, IsFiniteSet(rows),
         NEW amount, \A r \in rows : amount[r] \in Nat
  PROVE  IsFiniteSet(MinorUnits(amount, rows))
<1> DEFINE units(r) == {r} \X (1 .. amount[r])
           T == { units(r) : r \in rows }
           f == [r \in rows |-> units(r)]
<1>1. f \in Surjection(rows, T)
  BY Zenon DEF Surjection
<1>2. IsFiniteSet(T)
  <2> HIDE DEF f, T
  <2> QED
    BY <1>1, FS_Surjection
<1>3. ASSUME NEW r \in rows PROVE IsFiniteSet(units(r))
  <2>1. IsFiniteSet({r})
    BY FS_Singleton, Zenon
  <2>2. IsFiniteSet(1 .. amount[r])
    BY FS_Interval
  <2> QED
    BY <2>1, <2>2, FS_Product
<1>4. \A U \in T : IsFiniteSet(U)
  BY <1>3
<1> QED
  BY <1>2, <1>4, FS_UNION, Zenon DEF MinorUnits

\* The sum of finitely many natural amounts is a natural number.
LEMMA SumAmountsType ==
  ASSUME NEW rows, IsFiniteSet(rows),
         NEW amount, \A r \in rows : amount[r] \in Nat
  PROVE  SumAmounts(amount, rows) \in Nat
BY MinorUnitsFinite, FS_CardinalityType DEF SumAmounts

\* The sum over no rows is coalesced to zero.
LEMMA SumAmountsEmpty ==
  ASSUME NEW amount PROVE SumAmounts(amount, {}) = 0
<1>1. MinorUnits(amount, {}) = {}
  BY DEF MinorUnits
<1> QED
  BY <1>1, FS_EmptySet DEF SumAmounts

\* The sum depends only on the amounts of the rows it is taken over.
LEMMA SumAmountsSame ==
  ASSUME NEW rows, NEW amount, NEW other, \A r \in rows : amount[r] = other[r]
  PROVE  SumAmounts(amount, rows) = SumAmounts(other, rows)
<1>1. MinorUnits(amount, rows) = MinorUnits(other, rows)
  BY DEF MinorUnits
<1> QED
  BY <1>1 DEF SumAmounts

\* More rows never make a smaller sum.
LEMMA SumAmountsMonotone ==
  ASSUME NEW rows, IsFiniteSet(rows), NEW fewer \in SUBSET rows,
         NEW amount, \A r \in rows : amount[r] \in Nat
  PROVE  SumAmounts(amount, fewer) <= SumAmounts(amount, rows)
<1>1. MinorUnits(amount, fewer) \in SUBSET MinorUnits(amount, rows)
  BY DEF MinorUnits
<1>2. IsFiniteSet(MinorUnits(amount, rows))
  BY MinorUnitsFinite
<1> QED
  BY <1>1, <1>2, FS_Subset DEF SumAmounts

\* A further row adds its amount.
LEMMA SumAmountsAdd ==
  ASSUME NEW rows, IsFiniteSet(rows), NEW row, row \notin rows,
         NEW amount, \A r \in rows \cup {row} : amount[r] \in Nat
  PROVE  SumAmounts(amount, rows \cup {row}) = SumAmounts(amount, rows) + amount[row]
<1> DEFINE old == MinorUnits(amount, rows)
           new == {row} \X (1 .. amount[row])
<1>1. MinorUnits(amount, rows \cup {row}) = old \cup new
  BY DEF MinorUnits
<1>2. old \cap new = {}
  BY DEF MinorUnits
<1>3. IsFiniteSet(old)
  BY MinorUnitsFinite
<1>4. IsFiniteSet(new) /\ Cardinality(new) = amount[row]
  <2>1. IsFiniteSet({row}) /\ Cardinality({row}) = 1
    BY FS_Singleton, Zenon
  <2>2. amount[row] \in Nat
    OBVIOUS
  <2>3. IsFiniteSet(1 .. amount[row]) /\ Cardinality(1 .. amount[row]) = amount[row]
    BY ONLY <2>2, FS_Interval
  <2> QED
    BY <2>1, <2>3, FS_Product
<1>5. Cardinality(old \cup new) = Cardinality(old) + Cardinality(new) - Cardinality({})
  <2> HIDE DEF old, new
  <2> QED
    BY <1>2, <1>3, <1>4, FS_Union
<1>6. Cardinality(old) \in Nat /\ Cardinality({}) = 0
  BY <1>3, FS_CardinalityType, FS_EmptySet
<1>7. /\ SumAmounts(amount, rows \cup {row}) = Cardinality(old \cup new)
      /\ SumAmounts(amount, rows) = Cardinality(old)
  BY <1>1 DEF SumAmounts
<1>8. amount[row] \in Nat
  OBVIOUS
<1> HIDE DEF old, new
<1> QED
  BY <1>4, <1>5, <1>6, <1>7, <1>8

\* The sum over one row is its amount.
LEMMA SumAmountsOne ==
  ASSUME NEW row, NEW amount, amount[row] \in Nat
  PROVE  SumAmounts(amount, {row}) = amount[row]
<1>1. SumAmounts(amount, {} \cup {row}) = SumAmounts(amount, {}) + amount[row]
  BY FS_EmptySet, SumAmountsAdd
<1>2. {} \cup {row} = {row}
  OBVIOUS
<1> QED
  BY <1>1, <1>2, SumAmountsEmpty

\* No row holds more than the sum.
LEMMA SumAmountsMember ==
  ASSUME NEW rows, IsFiniteSet(rows), NEW row \in rows,
         NEW amount, \A r \in rows : amount[r] \in Nat
  PROVE  amount[row] <= SumAmounts(amount, rows)
<1>1. {row} \in SUBSET rows /\ amount[row] \in Nat
  OBVIOUS
<1> QED
  BY <1>1, SumAmountsOne, SumAmountsMonotone, Zenon

\* Rows that all hold the same amount hold its multiple.
LEMMA SumAmountsConstant ==
  ASSUME NEW rows, IsFiniteSet(rows), NEW a \in Nat,
         NEW amount, \A r \in rows : amount[r] = a
  PROVE  SumAmounts(amount, rows) = Cardinality(rows) * a
<1>1. MinorUnits(amount, rows) = rows \X (1 .. a)
  BY DEF MinorUnits
<1>2. IsFiniteSet(1 .. a) /\ Cardinality(1 .. a) = a
  BY FS_Interval
<1> QED
  BY <1>1, <1>2, FS_Product, Zenon DEF SumAmounts

===============================================================================
