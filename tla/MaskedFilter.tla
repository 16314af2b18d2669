----------------------------- MODULE MaskedFilter ------------------------------
(***************************************************************************)
(* filter_avx2 of day26_simd_masked_filter.cpp: the quantities of the rows *)
(* of one symbol, summed LANES rows at a time with a mask and the rest one *)
(* by one, next to filter_scalar, which is the definition of the sum.      *)
(*                                                                         *)
(* The block of prices copied for a batch is half a batch long             *)
(* (_mm256_load_pd loads four doubles): a matching lane of the other half  *)
(* adds what the stack held, one of Garbage, to sink.                      *)
(***************************************************************************)
EXTENDS Recurrences

CONSTANTS LANES,         \* rows of a batch (8)
          MaxSize,       \* bound on the rows (N)
          qty_column, price_column,  \* the columns, as functions of the row
          Junk           \* values of an uninitialised double

ASSUME ColumnAssumption == /\ LANES \in Nat \ {0} /\ MaxSize \in Nat
                           /\ \A k \in 0 .. MaxSize - 1 : qty_column[k] \in Nat

VARIABLES size, matches,      \* the rows, and those of the target symbol
          row, total_vol, sink

filterVars == <<size, matches, row, total_vol, sink>>

FilterInit == /\ size \in 0 .. MaxSize
              /\ matches \in SUBSET (0 .. size - 1)
              /\ row = 0 /\ total_vol = 0 /\ sink = 0

\* The sum of a column over some of the rows.
Column(f, rows) == SumTo([k \in 0 .. size - 1 |-> IF k \in rows THEN f[k] ELSE 0], size)

\* filter_scalar
FilterScalar == Column(qty_column, matches)

\* A slip (mutant of Batch): the quantities too are taken of half a batch.
BatchHalf == /\ row + LANES <= size
             /\ LET loaded == {k \in matches : row <= k /\ k < row + LANES \div 2}
                IN /\ total_vol' = total_vol + Column(qty_column, loaded)
                   /\ sink' = sink + Column(price_column, loaded)
             /\ row' = row + LANES
             /\ UNCHANGED <<size, matches>>

\* One batch; only the prices of its first half are loaded.
Batch == /\ row + LANES <= size
         /\ LET mask == matches \cap (row .. row + LANES - 1)
                loaded == {k \in mask : k < row + LANES \div 2}
            IN /\ total_vol' = total_vol + Column(qty_column, mask)
               /\ \E junk \in [mask \ loaded -> Junk] :
                      sink' = sink + Column(price_column, loaded) + Column(junk, mask \ loaded)
         /\ row' = row + LANES
         /\ UNCHANGED <<size, matches>>

\* The rows after the last whole batch.
TailRow == /\ row + LANES > size /\ row < size
           /\ IF row \in matches
              THEN total_vol' = total_vol + qty_column[row] /\ sink' = sink + price_column[row]
              ELSE UNCHANGED <<total_vol, sink>>
           /\ row' = row + 1
           /\ UNCHANGED <<size, matches>>

\* return total_vol
Returned == row = size /\ UNCHANGED filterVars

FilterNext == Batch \/ TailRow \/ Returned

FilterSpec == FilterInit /\ [][FilterNext]_filterVars

-----------------------------------------------------------------------------
(* Properties.                                                             *)

\* The columns' sums are numbers and the cursor stays in the rows.
FilterTypeOK == /\ size \in 0 .. MaxSize /\ matches \subseteq 0 .. size - 1
                /\ row \in 0 .. size /\ total_vol \in Nat /\ sink \in Int

\* Whatever the number of rows, a multiple of the batch or not, the masked
\* filter has summed each matching row it passed once and no other, and returns
\* what the scalar filter returns.
VolumesAgree == /\ total_vol = Column(qty_column, matches \cap (0 .. row - 1))
                /\ row = size => total_vol = FilterScalar
================================================================================
