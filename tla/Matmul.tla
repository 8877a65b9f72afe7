-------------------------------- MODULE Matmul --------------------------------
(***************************************************************************)
(* matmul_tiled and matmul_fp16 (src/matmul.cpp): the caller zeroes C,     *)
(* gives each thread a band of rows, and joins them; a thread walks its    *)
(* band tile by tile and adds to every cell of C the products of the       *)
(* tile's columns of A and rows of B.                                      *)
(*                                                                         *)
(* Data.  A cell of C is the sequence of the indices k whose products it   *)
(* has accumulated, in the order of the additions: floating-point sums     *)
(* depend on that order.  The three kernels (scalar, avx and the one for   *)
(* halves) have the same loops; avx only adds eight cells of a row at a    *)
(* time.  Prefetching changes no value and is left out.                    *)
(*                                                                         *)
(* Granularity.  d[j] += a * b[j] reads and writes memory that another     *)
(* thread could write: a tile is read in one action and written in         *)
(* another, so that an overlap of two threads would lose updates.          *)
(***************************************************************************)
EXTENDS Integers, Sequences

CONSTANTS Shapes,       \* the sizes [m, n, k] of the calls
          Configs,      \* MatmulConfig arguments; a field 0 asks for tuning
          Machines      \* what detection reports: [l1d, cpus]

ASSUME MatmulAssumption ==
    /\ Shapes \subseteq [m : Nat, n : Nat, k : Nat]
    /\ Configs \subseteq [tile_m : Nat, tile_n : Nat, tile_k : Nat,
                          threads : Nat]
    /\ Machines \subseteq [l1d : Nat, cpus : Nat]

VARIABLES pc,           \* where the caller is
          size,         \* the shape of the call
          machine,      \* the machine it runs on
          cfg,          \* the configuration c after norm
          spawned,      \* threads created
          joined,       \* threads joined
          tpc,          \* where each thread is
          at,           \* the tile [i, k, j] each thread works on
          held,         \* the cells a thread has read and not written yet
          C             \* the result matrix

vars == <<pc, size, machine, cfg, spawned, joined, tpc, at, held, C>>
given == <<size, machine, cfg>>
band == <<tpc, at, held, C>>

Smaller(a, b) == IF a <= b THEN a ELSE b
Larger(a, b) == IF a >= b THEN a ELSE b
-----------------------------------------------------------------------------
(* auto_cfg, norm *)

L1TileBytes_Whole(l1d) == l1d
L1TileBytes(l1d) == l1d \div 2

\* The doubling loop: the least side, from 8 to 128, of which three square
\* tiles of floats reach the budget.
Sides == {8, 16, 32, 64, 128}
TileSide(budget) ==
    CHOOSE n \in Sides : /\ 12 * n * n >= budget \/ n = 128
                         /\ \A s \in Sides : s < n => 12 * s * s < budget

AutoCfg(mc) == LET n == TileSide(L1TileBytes(mc.l1d))
            IN [tile_m |-> n \div 2, tile_n |-> n \div 2, tile_k |-> n,
                threads |-> Larger(1, mc.cpus)]

Norm_Raw(c, mc) == c
Norm(c, mc) == [f \in DOMAIN c |-> IF c[f] = 0 THEN AutoCfg(mc)[f] ELSE c[f]]
-----------------------------------------------------------------------------
(* The bands of rows *)

Threads == Larger(1, Smaller(cfg.threads, size.m))
ThreadIds == 0 .. Threads - 1

RowStart(x) == (size.m * x) \div Threads

RowEnd_PlusOne(x) == Smaller(size.m, (size.m * (x + 1)) \div Threads + 1)
RowEnd(x) == (size.m * (x + 1)) \div Threads

Cells == (0 .. size.m - 1) \X (0 .. size.n - 1)

\* Where a tile ends: im, km and jm.
RowTileEnd(x) == Smaller(at[x].i + cfg.tile_m, RowEnd(x))

KTileEnd_Unclipped(x) == at[x].k + cfg.tile_k
KTileEnd(x) == Smaller(at[x].k + cfg.tile_k, size.k)

ColTileEnd(x) == Smaller(at[x].j + cfg.tile_n, size.n)

Tile(x) == (at[x].i .. RowTileEnd(x) - 1) \X (at[x].j .. ColTileEnd(x) - 1)

\* The products added for k = from .. to - 1, in the order of the k loop.
Terms(from, to) == [n \in 1 .. to - from |-> from + n - 1]
-----------------------------------------------------------------------------
Init == /\ pc = "idle"
        /\ size = [m |-> 0, n |-> 0, k |-> 0]
        /\ machine = [l1d |-> 0, cpus |-> 0]
        /\ cfg = [tile_m |-> 1, tile_n |-> 1, tile_k |-> 1, threads |-> 1]
        /\ spawned = 0 /\ joined = 0
        /\ tpc = <<>> /\ at = <<>> /\ held = <<>> /\ C = <<>>

\* std::fill: what was in C before (-1) is forgotten.
Filled_Kept == <<-1>>
Filled == <<>>

Call(s, c, mc) == /\ pc = "idle"
                  /\ pc' = "spawn"
                  /\ size' = s /\ machine' = mc
                  /\ cfg' = Norm(c, mc)
                  /\ C' = [cell \in (0 .. s.m - 1) \X (0 .. s.n - 1) |-> Filled]
                  /\ tpc' = [x \in ThreadIds' |-> "unborn"]
                  /\ at' = [x \in ThreadIds' |-> [i |-> 0, k |-> 0, j |-> 0]]
                  /\ held' = [x \in ThreadIds' |-> <<>>]
                  /\ UNCHANGED <<spawned, joined>>

\* Where a thread goes from the tile that starts at p: on to it, or out of the
\* loops, which have no iteration for an empty band or an empty matrix.
PcAt(x, p) == IF p.i < RowEnd(x) /\ size.k > 0 /\ size.n > 0
              THEN "tile" ELSE "done"

Spawn == LET first == [i |-> RowStart(spawned), k |-> 0, j |-> 0]
         IN /\ pc = "spawn" /\ spawned < Threads
            /\ spawned' = spawned + 1
            /\ at' = [at EXCEPT ![spawned] = first]
            /\ tpc' = [tpc EXCEPT ![spawned] = PcAt(spawned, first)]
            /\ UNCHANGED <<pc, given, joined, held, C>>

AllSpawned == /\ pc = "spawn" /\ spawned = Threads
              /\ pc' = "join"
              /\ UNCHANGED <<given, spawned, joined, band>>

JoinReady_Anyway(x) == TRUE
JoinReady(x) == tpc[x] = "done"

Join == /\ pc = "join" /\ joined < Threads
        /\ JoinReady(joined)
        /\ joined' = joined + 1
        /\ UNCHANGED <<pc, given, spawned, band>>

Return == /\ pc = "join" /\ joined = Threads
          /\ pc' = "done"
          /\ UNCHANGED <<given, spawned, joined, band>>
-----------------------------------------------------------------------------
(* A thread: for i, for k0, for j0 *)

Read(x) == /\ tpc[x] = "tile"
           /\ tpc' = [tpc EXCEPT ![x] = "add"]
           /\ held' = [held EXCEPT ![x] = [cell \in Tile(x) |-> C[cell]]]
           /\ UNCHANGED <<pc, given, spawned, joined, at, C>>

NextTile(x) ==
    LET p == at[x]
    IN IF p.j + cfg.tile_n < size.n THEN [p EXCEPT !.j = @ + cfg.tile_n]
       ELSE IF p.k + cfg.tile_k < size.k
       THEN [p EXCEPT !.j = 0, !.k = @ + cfg.tile_k]
       ELSE [p EXCEPT !.j = 0, !.k = 0, !.i = @ + cfg.tile_m]

Add(x) == /\ tpc[x] = "add"
          /\ C' = [cell \in DOMAIN C |->
                      IF cell \in Tile(x)
                      THEN held[x][cell] \o Terms(at[x].k, KTileEnd(x))
                      ELSE C[cell]]
          /\ held' = [held EXCEPT ![x] = <<>>]
          /\ at' = [at EXCEPT ![x] = NextTile(x)]
          /\ tpc' = [tpc EXCEPT ![x] = PcAt(x, NextTile(x))]
          /\ UNCHANGED <<pc, given, spawned, joined>>

Proceed == Spawn \/ AllSpawned \/ Join \/ Return

Work == \E x \in DOMAIN tpc : Read(x) \/ Add(x)

Next == \/ \E s \in Shapes, c \in Configs, mc \in Machines : Call(s, c, mc)
        \/ Proceed \/ Work

SafeSpec == Init /\ [][Next]_vars

\* The scheduler does not stop the caller, nor all the threads that can run.
Spec == SafeSpec /\ WF_vars(Proceed) /\ WF_vars(Work)
-----------------------------------------------------------------------------
(* Properties *)

Positive == {n \in Nat : n > 0}

\* The values of the variables; after norm no tile and no thread count is zero.
TypeOK == /\ pc \in {"idle", "spawn", "join", "done"}
          /\ size \in [m : Nat, n : Nat, k : Nat]
          /\ machine \in [l1d : Nat, cpus : Nat]
          /\ cfg \in [tile_m : Positive, tile_n : Positive, tile_k : Positive,
                      threads : Positive]
          /\ spawned \in 0 .. Threads /\ joined \in 0 .. spawned
          /\ pc # "idle" =>
                /\ tpc \in [ThreadIds -> {"unborn", "tile", "add", "done"}]
                /\ at \in [ThreadIds -> [i : Nat, k : Nat, j : Nat]]
                /\ DOMAIN held = ThreadIds
                /\ C \in [Cells -> Seq(Int)]

Running(x) == tpc[x] \in {"tile", "add"}

\* Two threads never work on a common cell, whatever the shape, the tiles and
\* the number of threads: matmul needs no lock (src/matmul.cpp:122-123).
BandsAreDisjoint == \A x, y \in DOMAIN tpc :
    x # y /\ Running(x) /\ Running(y) => Tile(x) \cap Tile(y) = {}

\* A tile lies inside C and, with its k, inside A and B.
TilesInBounds == \A x \in DOMAIN tpc : Running(x) =>
    /\ Tile(x) \subseteq Cells
    /\ Tile(x) # {}
    /\ at[x].k < KTileEnd(x) /\ KTileEnd(x) <= size.k

\* Every cell adds its products in ascending order of k, each of them once:
\* tiling and threads never change the order of a sum.
AscendingSums == pc # "idle" => \A cell \in Cells :
    /\ Len(C[cell]) <= size.k
    /\ C[cell] = Terms(0, Len(C[cell]))

\* When the call returns, every cell has all its products.
ProductAtReturn == pc = "done" => \A cell \in Cells : C[cell] = Terms(0, size.k)

\* Tiles that were tuned for an L1 cache of at least 512 bytes leave room in it
\* for the three operands ("auto-tune from detected L1D working set",
\* include/laic/matmul.hpp:8).
WorkingSet(c) == 4 * (c.tile_m * c.tile_k + c.tile_k * c.tile_n
                      + c.tile_m * c.tile_n)
TunedTilesFit == machine.l1d >= 512 /\ pc # "idle" =>
    WorkingSet(AutoCfg(machine)) <= machine.l1d

\* The call returns.
Returns == pc = "spawn" ~> pc = "done"
=============================================================================
