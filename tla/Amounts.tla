-------------------------------- MODULE Amounts --------------------------------
(***************************************************************************)
(* SQL's coalesce(sum(amount_minor), 0) over a set of rows.  A sum of      *)
(* natural numbers is the number of minor units the rows hold together,    *)
(* each unit tagged with its row: stated with Cardinality instead of a     *)
(* fold, the sum is within reach of the proof system.                      *)
(***************************************************************************)
EXTENDS Integers, FiniteSets

MinorUnits(amount, rows) == UNION { {r} \X (1 .. amount[r]) : r \in rows }

SumAmounts(amount, rows) == Cardinality(MinorUnits(amount, rows))

===============================================================================
