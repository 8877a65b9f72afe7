------------------------------ MODULE DotKernels ------------------------------
(***************************************************************************)
(* The sums over a row of weights: dot_cached and quant_dot                *)
(* (src/inference_v2.cpp) with dot_f16, dot_f32 and axpy_f32               *)
(* (src/compute_dot.cpp), and a row of the avx kernel (src/matmul.cpp).    *)
(* A row is cut into tiles of half the L1 cache, a tile into blocks of     *)
(* lanes, and a remainder is left for narrower loops.                      *)
(*                                                                         *)
(* Data.  used counts, for every element of the row, the products with it  *)
(* that were added to the result; the values are left out.                 *)
(***************************************************************************)
EXTENDS Integers, Sequences, FiniteSets

CONSTANTS Rows,         \* lengths n of the rows
          Budgets       \* what CachePlan::l1_tile_bytes may be; 0 is unknown

ASSUME DotAssumption == Rows \subseteq Nat /\ Budgets \subseteq Nat

VARIABLES kernel,       \* the function that runs, "none" or "stopped"
          widths,       \* the lanes of its loops, the widest first
          row,          \* n
          tile,         \* elements of a tile
          start,        \* j: the first element of the tile
          lane,         \* i: the next element, from the start of the tile
          used          \* how often each element was used

dotVars == <<kernel, widths, row, tile, start, lane, used>>

\* The loops with and without vectors (NEON, or AVX for the product of
\* matrices).
VectorWidths == [dot_f16 |-> <<16, 1>>, dot_f32 |-> <<8, 1>>, avx |-> <<8, 1>>,
                 axpy_f32 |-> <<16, 4, 1>>, quant_dot |-> <<1>>]
Kernels == DOMAIN VectorWidths
Widths(k, simd) == IF simd THEN VectorWidths[k] ELSE <<1>>

\* dot_cached: two rows of the tile's type fit the budget; without a budget, 32.
ScalarBytes == [dot_f16 |-> 2, dot_f32 |-> 4]
TileLength(k, n, budget) ==
    IF k \notin DOMAIN ScalarBytes THEN n
    ELSE LET fits == budget \div (2 * ScalarBytes[k])
         IN IF fits = 0 THEN 32 ELSE fits

TileEnd == IF tile < row - start THEN tile ELSE row - start

Fits_Anyway(w) == lane < TileEnd
Fits(w) == lane + w <= TileEnd

DotInit == /\ kernel = "none" /\ widths = <<>> /\ row = 0 /\ tile = 0
           /\ start = 0 /\ lane = 0 /\ used = <<>>

DotCall(k, simd, n, budget) ==
    /\ kernel = "none"
    /\ kernel' = k /\ widths' = Widths(k, simd)
    /\ row' = n /\ tile' = TileLength(k, n, budget)
    /\ start' = 0 /\ lane' = 0
    /\ used' = [e \in 0 .. n - 1 |-> 0]

\* A loop ends when its lanes no longer fit, and the next narrower one goes on.
Lanes(w) == /\ Fits(w)
            /\ used' = [e \in DOMAIN used \cup
                              (start + lane .. start + lane + w - 1) |->
                           (IF e \in DOMAIN used THEN used[e] ELSE 0) +
                           (IF e - start \in lane .. lane + w - 1
                            THEN 1 ELSE 0)]
            /\ lane' = lane + w
            /\ UNCHANGED <<kernel, widths, row, tile, start>>

Loop == /\ kernel \in Kernels
        /\ \E l \in DOMAIN widths : /\ Lanes(widths[l])
                                    /\ \A m \in 1 .. l - 1 : ~Fits(widths[m])

TileDone == kernel \in Kernels /\ lane >= TileEnd

NextDotTile == /\ TileDone /\ start + tile < row
               /\ start' = start + tile /\ lane' = 0
               /\ UNCHANGED <<kernel, widths, row, tile, used>>

\* dot_cached looks at the stop flag before each tile and gives up.
DotStopped == /\ kernel \in DOMAIN ScalarBytes
              /\ lane = 0 /\ start < row
              /\ kernel' = "stopped"
              /\ UNCHANGED <<widths, row, tile, start, lane, used>>

RowDone == TileDone /\ start + tile >= row

DotNext == \/ \E k \in Kernels, simd \in BOOLEAN, n \in Rows, b \in Budgets :
                 DotCall(k, simd, n, b)
           \/ Loop \/ NextDotTile \/ DotStopped

DotSpec == DotInit /\ [][DotNext]_dotVars
-----------------------------------------------------------------------------
\* A sum takes every element of its row exactly once, and nothing beyond the
\* row, for every length, tile and number of lanes; an unfinished one has none
\* twice.
ProductsOnce == kernel \in Kernels =>
    /\ DOMAIN used = 0 .. row - 1
    /\ \A e \in DOMAIN used : used[e] <= 1
    /\ RowDone => \A e \in DOMAIN used : used[e] = 1
=============================================================================
