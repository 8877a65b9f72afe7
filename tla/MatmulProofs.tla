----------------------------- MODULE MatmulProofs -----------------------------
(***************************************************************************)
(* Proofs about the matrix products, for every shape, configuration and    *)
(* machine: the bands of rows partition the rows of C, and every cell adds *)
(* its products once each and in ascending order; and about the benchmark. *)
(* The detection of src/cache.cpp and its twin in src/cpu.cpp find the     *)
(* same caches on every machine, and where the sources tell the truth what *)
(* they find is what the machine has; with any detected machine the        *)
(* benchmark is the program of Matmul, so that the theorems about products *)
(* are about it too.                                                       *)
(***************************************************************************)
EXTENDS TunedMatmul, SequenceTheorems, TLAPS

Band(x) == RowStart(x) .. RowEnd(x) - 1

Sizes == /\ size \in [m : Nat, n : Nat, k : Nat]
         /\ cfg \in [tile_m : Positive, tile_n : Positive, tile_k : Positive,
                     threads : Positive]

\* The caller's progress: threads run when they have been spawned, and those it
\* has joined are done.
CallerOrder ==
    /\ pc = "idle" => spawned = 0 /\ joined = 0 /\ tpc = <<>>
    /\ pc \in {"join", "done"} => spawned = Threads
    /\ pc = "done" => joined = Threads
    /\ pc # "idle" => \A x \in ThreadIds :
           /\ tpc[x] = "unborn" <=> x >= spawned
           /\ x < joined => tpc[x] = "done"

\* A thread works inside its band.
InBand == pc # "idle" => \A x \in ThreadIds : Running(x) =>
    at[x].i \in Band(x) /\ at[x].k < size.k /\ at[x].j < size.n

\* Nobody writes the cells that a thread has read.
HeldIsCurrent == pc # "idle" => \A x \in ThreadIds :
    tpc[x] = "add" => held[x] = [cell \in Tile(x) |-> C[cell]]

\* How many products the thread x has added to a cell of its band: all of them
\* above its tile, none below; to the left the tile's k are already done.
Added(x, cell) ==
    IF tpc[x] = "unborn" THEN 0
    ELSE IF tpc[x] = "done" \/ cell[1] < at[x].i THEN size.k
    ELSE IF cell[1] >= RowTileEnd(x) THEN 0
    ELSE IF cell[2] < at[x].j THEN KTileEnd(x) ELSE at[x].k

Sums == pc # "idle" => \A x \in ThreadIds, cell \in Cells :
    cell[1] \in Band(x) => C[cell] = Terms(0, Added(x, cell))

\* The inductive invariant.
IInv == TypeOK /\ CallerOrder /\ InBand /\ HeldIsCurrent /\ Sums
-----------------------------------------------------------------------------
(* The arithmetic of the bands, m * x / t *)

\* Division leaves a remainder below the divisor.
LEMMA DivFacts ==
    ASSUME NEW a \in Nat, NEW t \in Nat, t > 0
    PROVE  /\ a \div t \in Nat
           /\ t * (a \div t) <= a
           /\ a < t * (a \div t) + t
  BY SMT

\* Multiplication is monotonic.
LEMMA MulMono ==
    ASSUME NEW m \in Nat, NEW a \in Nat, NEW b \in Nat, a <= b
    PROVE  m * a <= m * b
<1>1. PICK d \in Nat : b = a + d
  BY SMT
<1>2. m * b = m * a + m * d /\ m * d >= 0
  BY <1>1, SMT
<1> QED BY <1>2, SMT

\* A quotient is below what the dividend is below, ...
LEMMA DivBelow ==
    ASSUME NEW a \in Nat, NEW b \in Nat, NEW t \in Nat, t > 0, a < t * b
    PROVE  a \div t < b
<1> DEFINE q == a \div t
<1>1. q \in Nat /\ t * q <= a
  BY DivFacts
<1>2. b <= q => t * b <= t * q
  BY <1>1, MulMono
<1>3. t * b \in Nat /\ t * q \in Nat
  BY <1>1, SMT
<1> HIDE DEF q
<1>4. q < b
  BY <1>1, <1>2, <1>3, SMT
<1> QED BY <1>4 DEF q

\* ... and reaches what the dividend reaches.
LEMMA DivReaches ==
    ASSUME NEW a \in Nat, NEW b \in Nat, NEW t \in Nat, t > 0, t * b <= a
    PROVE  b <= a \div t
<1> DEFINE q == a \div t
<1>1. q \in Nat /\ a < t * q + t
  BY DivFacts
<1>2. t * (q + 1) = t * q + t /\ t * b \in Nat /\ t * q \in Nat
  BY <1>1, SMT
<1>3. q + 1 <= b => t * (q + 1) <= t * b
  BY <1>1, MulMono
<1> HIDE DEF q
<1>4. b <= q
  BY <1>1, <1>2, <1>3, SMT
<1> QED BY <1>4 DEF q

\* Division is monotonic.
LEMMA DivMono ==
    ASSUME NEW a \in Nat, NEW b \in Nat, NEW t \in Nat, t > 0, a <= b
    PROVE  a \div t <= b \div t
<1> DEFINE q == a \div t
<1>1. q \in Nat /\ t * q <= a /\ t * q \in Nat
  BY DivFacts, SMT
<1> HIDE DEF q
<1>2. t * q <= b
  BY <1>1, SMT
<1>3. q <= b \div t
  BY <1>1, <1>2, DivReaches
<1> QED BY <1>3 DEF q

\* There is a thread, and not more than needed.
LEMMA ThreadCount == Sizes => /\ Threads \in Nat /\ Threads > 0
                              /\ ThreadIds = 0 .. Threads - 1
  BY SMT DEF Sizes, Positive, Threads, ThreadIds, Smaller, Larger

\* A band lies inside the matrix, ...
LEMMA BandInside ==
    ASSUME Sizes, NEW x \in ThreadIds
    PROVE  /\ RowStart(x) \in Nat /\ RowEnd(x) \in 0 .. size.m
           /\ RowStart(x) <= RowEnd(x)
<1> DEFINE t == Threads
           m == size.m
<1>1. t \in Nat /\ t > 0 /\ x \in Nat /\ x + 1 <= t /\ m \in Nat
  BY ThreadCount, SMT DEF Sizes
<1> HIDE DEF t, m
<1>2. m * x \in Nat /\ m * (x + 1) \in Nat /\ m * x <= m * (x + 1)
  BY <1>1, SMT
<1>3. m * (x + 1) <= m * t /\ m * t \in Nat /\ m * t < t * (m + 1)
  BY <1>1, MulMono, SMT
<1>4. (m * (x + 1)) \div t < m + 1
  BY <1>1, <1>2, <1>3, DivBelow, SMT
<1>5. (m * x) \div t <= (m * (x + 1)) \div t
  BY <1>1, <1>2, DivMono
<1>6. (m * x) \div t \in Nat /\ (m * (x + 1)) \div t \in Nat
  BY <1>1, <1>2, DivFacts
<1> QED BY <1>1, <1>4, <1>5, <1>6, SMT DEF RowStart, RowEnd, t, m

\* ... the bands follow one another, ...
LEMMA BandOrder ==
    ASSUME Sizes, NEW x \in ThreadIds, NEW y \in ThreadIds, x < y
    PROVE  RowEnd(x) <= RowStart(y)
<1> DEFINE t == Threads
           m == size.m
<1>1. /\ t \in Nat /\ t > 0 /\ m \in Nat
      /\ x \in Nat /\ y \in Nat /\ x + 1 <= y
  BY ThreadCount, SMT DEF Sizes
<1> HIDE DEF t, m
<1>2. m * (x + 1) \in Nat /\ m * y \in Nat
  BY <1>1, SMT
<1>3. m * (x + 1) <= m * y
  BY <1>1, MulMono, SMT
<1>4. (m * (x + 1)) \div t <= (m * y) \div t
  BY <1>1, <1>2, <1>3, DivMono
<1> QED BY <1>4 DEF RowStart, RowEnd, t, m

\* ... so that a row is in one band only, ...
LEMMA BandIsOwn ==
    ASSUME Sizes, NEW x \in ThreadIds, NEW y \in ThreadIds, x # y
    PROVE  Band(x) \cap Band(y) = {}
<1>1. x \in Int /\ y \in Int
  BY ThreadCount
<1>2. CASE x < y
  BY <1>2, BandOrder, BandInside, SMT DEF Band
<1>3. CASE y < x
  BY <1>3, BandOrder, BandInside, SMT DEF Band
<1> QED BY <1>1, <1>2, <1>3, SMT

\* ... and every row is in one.
LEMMA RowHasBand ==
    ASSUME Sizes, NEW r \in 0 .. size.m - 1
    PROVE  \E x \in ThreadIds : r \in Band(x)
<1> DEFINE t == Threads
           m == size.m
           a == t * (r + 1) - 1
           x == a \div m
<1>1. t \in Nat /\ t > 0 /\ m \in Nat /\ m > 0 /\ r \in Nat /\ r + 1 <= m
  BY ThreadCount, SMT DEF Sizes
<1>t. ThreadIds = 0 .. t - 1
  BY ThreadCount
<1> HIDE DEF t, m
<1>2. t * (r + 1) \in Nat /\ t * 1 <= t * (r + 1) /\ t * (r + 1) <= t * m
  BY <1>1, MulMono, SMT
<1>3. a \in Nat /\ a < m * t
  BY <1>1, <1>2, SMT
<1>4. x \in Nat /\ m * x <= a /\ a < m * x + m /\ x < t
  BY <1>1, <1>3, DivFacts, DivBelow
<1>5. m * (x + 1) = m * x + m /\ m * x \in Nat /\ m * (x + 1) \in Nat
  BY <1>1, <1>4, SMT
<1> HIDE DEF x
<1>6. m * x < t * (r + 1) /\ t * (r + 1) <= m * (x + 1)
  BY <1>2, <1>4, <1>5, SMT
<1>7. (m * x) \div t < r + 1
  BY <1>1, <1>5, <1>6, DivBelow
<1>8. r + 1 <= (m * (x + 1)) \div t
  BY <1>1, <1>5, <1>6, DivReaches
<1>9. (m * x) \div t \in Nat /\ (m * (x + 1)) \div t \in Nat
  BY <1>1, <1>5, DivFacts
<1>10. r \in (m * x) \div t .. (m * (x + 1)) \div t - 1
  BY <1>1, <1>7, <1>8, <1>9, SMT
<1> QED BY <1>t, <1>1, <1>4, <1>10 DEF Band, RowStart, RowEnd, t, m
-----------------------------------------------------------------------------
(* Tuning *)

\* The doubling loop ends at the least side that is large enough.
LEMMA TileSideFacts ==
    ASSUME NEW b \in Nat
    PROVE  /\ TileSide(b) \in Sides
           /\ \A s \in Sides : s < TileSide(b) => 12 * s * s < b
<1> DEFINE P(n) == /\ 12 * n * n >= b \/ n = 128
                   /\ \A s \in Sides : s < n => 12 * s * s < b
<1>1. \E n \in Sides : P(n)
  <2>1. CASE b <= 768
    <3>1. 8 \in Sides /\ P(8)
      BY <2>1, SMT DEF Sides
    <3> QED BY <3>1
  <2>2. CASE b \in 769 .. 3072
    <3>1. 16 \in Sides /\ P(16)
      BY <2>2, SMT DEF Sides
    <3> QED BY <3>1
  <2>3. CASE b \in 3073 .. 12288
    <3>1. 32 \in Sides /\ P(32)
      BY <2>3, SMT DEF Sides
    <3> QED BY <3>1
  <2>4. CASE b \in 12289 .. 49152
    <3>1. 64 \in Sides /\ P(64)
      BY <2>4, SMT DEF Sides
    <3> QED BY <3>1
  <2>5. CASE b > 49152
    <3>1. 128 \in Sides /\ P(128)
      BY <2>5, SMT DEF Sides
    <3> QED BY <3>1
  <2> QED BY <2>1, <2>2, <2>3, <2>4, <2>5, SMT
<1>2. TileSide(b) = CHOOSE n \in Sides : P(n)
  BY DEF TileSide
<1> HIDE DEF P
<1>3. TileSide(b) \in Sides /\ P(TileSide(b))
  BY <1>1, <1>2, Zenon
<1> QED BY <1>3 DEF P

\* Tuned tiles fit in an L1 cache of 512 bytes or more, whatever its size.
LEMMA TunedWorkingSet ==
    ASSUME NEW mc \in [l1d : Nat, cpus : Nat], mc.l1d >= 512
    PROVE  WorkingSet(AutoCfg(mc)) <= mc.l1d
<1> DEFINE b == L1TileBytes(mc.l1d)
           n == TileSide(b)
<1>1. mc.l1d \in Nat
  OBVIOUS
<1>2. b \in Nat /\ 2 * b <= mc.l1d
  BY <1>1, SMT DEF L1TileBytes
<1>3. n \in Sides /\ \A s \in Sides : s < n => 12 * s * s < b
  BY <1>2, TileSideFacts
<1>4. WorkingSet(AutoCfg(mc)) = 4 * ((n \div 2) * n + n * (n \div 2)
                                     + (n \div 2) * (n \div 2))
  BY SMT DEF WorkingSet, AutoCfg
<1> HIDE DEF n, b
<1>5. \/ n = 8
      \/ n = 16 /\ 768 < b
      \/ n = 32 /\ 3072 < b
      \/ n = 64 /\ 12288 < b
      \/ n = 128 /\ 49152 < b
  BY <1>3, SMT DEF Sides
<1> QED BY <1>1, <1>2, <1>4, <1>5, SMT

\* After norm no field is zero.
LEMMA NormPositive ==
    ASSUME NEW c \in Configs, NEW mc \in Machines
    PROVE  Norm(c, mc) \in [tile_m : Positive, tile_n : Positive,
                            tile_k : Positive, threads : Positive]
<1> DEFINE n == TileSide(L1TileBytes(mc.l1d))
<1>1. /\ c \in [tile_m : Nat, tile_n : Nat, tile_k : Nat, threads : Nat]
      /\ mc.l1d \in Nat /\ mc.cpus \in Nat
  BY MatmulAssumption
<1>2. n \in Sides
  BY <1>1, TileSideFacts, SMT DEF L1TileBytes
<1> HIDE DEF n
<1>3. n > 0 /\ n \in Nat /\ n \div 2 > 0 /\ n \div 2 \in Nat
  BY <1>2, SMT DEF Sides
<1>4. Larger(1, mc.cpus) \in Nat /\ Larger(1, mc.cpus) > 0
  BY <1>1, SMT DEF Larger
<1>5. AutoCfg(mc) = [tile_m |-> n \div 2, tile_n |-> n \div 2, tile_k |-> n,
                     threads |-> Larger(1, mc.cpus)]
  BY DEF AutoCfg, n
<1> QED BY <1>1, <1>3, <1>4, <1>5, SMT DEF Norm, Positive
-----------------------------------------------------------------------------
(* Tiles *)

\* A range of terms is a sequence of integers.
LEMMA TermsType ==
    ASSUME NEW a \in Nat, NEW b \in Nat, a <= b
    PROVE  Terms(a, b) \in Seq(Int) /\ Len(Terms(a, b)) = b - a
  BY SMT DEF Terms

\* The terms of two ranges that follow one another are those of both.
LEMMA TermsJoin ==
    ASSUME NEW a \in Nat, NEW b \in Nat, a <= b
    PROVE  Terms(0, a) \o Terms(a, b) = Terms(0, b)
<1>1. Terms(0, a) \in Seq(Int) /\ Len(Terms(0, a)) = a
  BY SMT DEF Terms
<1>2. Terms(a, b) \in Seq(Int) /\ Len(Terms(a, b)) = b - a
  BY TermsType
<1>3. Terms(0, b) \in Seq(Int) /\ Len(Terms(0, b)) = b
  BY SMT DEF Terms
<1> DEFINE s == Terms(0, a) \o Terms(a, b)
<1>4. s \in Seq(Int) /\ Len(s) = b
  BY <1>1, <1>2, SMT
<1>5. \A k \in 1 .. b : s[k] = Terms(0, b)[k]
  BY <1>1, <1>2, SMT DEF Terms
<1> QED BY <1>3, <1>4, <1>5, SeqEqual

\* The lemmas about bands need no more than the types of size and cfg.
LEMMA TypeSizes == TypeOK => Sizes
  BY DEF TypeOK, Sizes

\* A tile is clipped to the band and to the matrices.
LEMMA TileFacts ==
    ASSUME TypeOK, InBand, pc # "idle", NEW x \in ThreadIds, Running(x)
    PROVE  /\ at[x] \in [i : Nat, k : Nat, j : Nat]
           /\ RowTileEnd(x) \in Nat /\ KTileEnd(x) \in Nat
           /\ ColTileEnd(x) \in Nat
           /\ at[x].i < RowTileEnd(x) /\ RowTileEnd(x) <= RowEnd(x)
           /\ RowStart(x) <= at[x].i /\ RowEnd(x) <= size.m
           /\ at[x].k < KTileEnd(x) /\ KTileEnd(x) <= size.k
           /\ at[x].j < ColTileEnd(x) /\ ColTileEnd(x) <= size.n
<1>1. Sizes
  BY TypeSizes
<1>2. /\ RowStart(x) \in Nat /\ RowEnd(x) \in 0 .. size.m
      /\ at[x] \in [i : Nat, k : Nat, j : Nat]
      /\ at[x].i \in Band(x) /\ at[x].k < size.k /\ at[x].j < size.n
  BY <1>1, BandInside DEF TypeOK, InBand
<1>3. /\ size.m \in Nat /\ size.n \in Nat /\ size.k \in Nat
      /\ cfg.tile_m \in Nat /\ cfg.tile_n \in Nat /\ cfg.tile_k \in Nat
      /\ cfg.tile_m > 0 /\ cfg.tile_n > 0 /\ cfg.tile_k > 0
  BY <1>1 DEF Sizes, Positive
<1>4. at[x].i \in Nat /\ at[x].k \in Nat /\ at[x].j \in Nat
  BY <1>2
<1> QED BY <1>2, <1>3, <1>4, SMT DEF RowTileEnd, KTileEnd, ColTileEnd, Smaller,
           Band

\* A cell of a tile is a cell of C in the thread's band.
LEMMA TileCells ==
    ASSUME TypeOK, InBand, pc # "idle", NEW x \in ThreadIds, Running(x)
    PROVE  /\ Tile(x) \subseteq Cells
           /\ Tile(x) # {}
           /\ \A cell \in Tile(x) : cell[1] \in Band(x)
<1>1. /\ at[x].i \in Nat /\ at[x].j \in Nat
      /\ RowTileEnd(x) \in Nat /\ ColTileEnd(x) \in Nat
      /\ at[x].i < RowTileEnd(x) /\ RowTileEnd(x) <= RowEnd(x)
      /\ RowStart(x) <= at[x].i /\ RowEnd(x) <= size.m
      /\ at[x].j < ColTileEnd(x) /\ ColTileEnd(x) <= size.n
  BY TileFacts
<1>2. /\ size.m \in Nat /\ size.n \in Nat
      /\ RowStart(x) \in Nat /\ RowEnd(x) \in Nat
  BY TypeSizes, BandInside DEF Sizes
<1>3. <<at[x].i, at[x].j>> \in Tile(x)
  BY <1>1, SMT DEF Tile
<1>4. \A cell \in Tile(x) : cell \in Cells /\ cell[1] \in Band(x)
  BY <1>1, <1>2, SMT DEF Tile, Cells, Band
<1> QED BY <1>3, <1>4

\* Two threads have no cell in common.
LEMMA TilesApart ==
    ASSUME TypeOK, InBand, pc # "idle", NEW x \in ThreadIds,
           NEW y \in ThreadIds, x # y, Running(x), NEW cell \in Tile(x)
    PROVE  cell[1] \notin Band(y)
<1>1. cell[1] \in Band(x)
  BY TileCells
<1>2. Band(x) \cap Band(y) = {}
  BY TypeSizes, BandIsOwn
<1> QED BY <1>1, <1>2
-----------------------------------------------------------------------------
(* The invariant is inductive *)

\* The initial state has the invariant.
LEMMA InitInv == Init => IInv
<1> SUFFICES ASSUME Init PROVE IInv
  OBVIOUS
<1>1. Threads \in Nat
  BY SMT DEF Init, Threads, Larger, Smaller
<1>2. TypeOK
  BY <1>1, SMT DEF Init, TypeOK, Positive
<1>3. CallerOrder /\ InBand /\ HeldIsCurrent /\ Sums
  BY DEF Init, CallerOrder, InBand, HeldIsCurrent, Sums
<1> QED BY <1>2, <1>3 DEF IInv

\* Once called, nothing about the bands changes.
LEMMA Frozen ==
    ASSUME UNCHANGED given
    PROVE  /\ Threads' = Threads /\ ThreadIds' = ThreadIds /\ Cells' = Cells
           /\ \A x \in ThreadIds : Band(x)' = Band(x) /\ RowEnd(x)' = RowEnd(x)
                                   /\ RowStart(x)' = RowStart(x)
<1>1. size' = size /\ cfg' = cfg
  BY DEF given
<1>2. Threads' = Threads
  BY <1>1 DEF Threads, Larger, Smaller
<1> QED BY <1>1, <1>2 DEF ThreadIds, Cells, Band, RowStart, RowEnd

\* The call fills C and prepares the threads.
LEMMA CallStep ==
    ASSUME IInv, NEW s \in Shapes, NEW c \in Configs, NEW mc \in Machines,
           Call(s, c, mc)
    PROVE  IInv'
<1>1. /\ size' \in [m : Nat, n : Nat, k : Nat]
      /\ machine' \in [l1d : Nat, cpus : Nat]
      /\ cfg' \in [tile_m : Positive, tile_n : Positive, tile_k : Positive,
                   threads : Positive]
  BY MatmulAssumption, NormPositive DEF Call
<1>2. Threads' \in Nat /\ Threads' > 0 /\ ThreadIds' = 0 .. Threads' - 1
  <2>1. Sizes'
    BY <1>1 DEF Sizes
  <2>2. (Sizes => Threads \in Nat /\ Threads > 0 /\ ThreadIds = 0 .. Threads-1)'
    BY ThreadCount, PTL
  <2> QED BY <2>1, <2>2
<1>3. /\ spawned' = 0 /\ joined' = 0 /\ pc' = "spawn"
      /\ Cells' = (0 .. s.m - 1) \X (0 .. s.n - 1)
      /\ C' = [cell \in Cells' |-> <<>>]
      /\ tpc' = [x \in ThreadIds' |-> "unborn"]
      /\ at' = [x \in ThreadIds' |-> [i |-> 0, k |-> 0, j |-> 0]]
      /\ held' = [x \in ThreadIds' |-> <<>>]
  BY DEF IInv, CallerOrder, Call, Cells, Filled
<1>4. TypeOK'
  BY <1>1, <1>2, <1>3, SMT DEF TypeOK
<1>5. CallerOrder'
  <2>1. \A x \in ThreadIds' : tpc'[x] = "unborn" /\ x >= 0 /\ ~(x < 0)
    BY <1>2, <1>3, SMT
  <2> QED BY <1>3, <2>1 DEF CallerOrder
<1>6. InBand' /\ HeldIsCurrent'
  BY <1>3 DEF InBand, HeldIsCurrent, Running
<1>7. Sums'
  <2>1. Terms(0, 0) = <<>>
    BY SMT DEF Terms
  <2>2. \A x \in ThreadIds', cell \in Cells' :
            C'[cell] = Terms(0, 0) /\ Added(x, cell)' = 0
    BY <1>3, <2>1 DEF Added
  <2> QED BY <2>2 DEF Sums
<1> QED BY <1>4, <1>5, <1>6, <1>7 DEF IInv

\* Creating a thread puts it at the first tile of its band, if there is one.
LEMMA SpawnStep == IInv /\ Spawn => IInv'
<1> SUFFICES ASSUME IInv, Spawn PROVE IInv'
  OBVIOUS
<1> PICK x : x = spawned
  OBVIOUS
<1> DEFINE first == [i |-> RowStart(x), k |-> 0, j |-> 0]
<1>e. /\ TypeOK /\ CallerOrder /\ InBand /\ HeldIsCurrent /\ Sums
      /\ Sizes /\ pc = "spawn" /\ pc' = pc
  BY TypeSizes DEF IInv, Spawn
<1>f. /\ Threads' = Threads /\ ThreadIds' = ThreadIds /\ Cells' = Cells
      /\ Threads \in Nat /\ ThreadIds = 0 .. Threads - 1
      /\ \A y \in ThreadIds : Band(y)' = Band(y)
      /\ size' = size /\ machine' = machine /\ cfg' = cfg
  BY <1>e, Frozen, ThreadCount DEF Spawn, given
<1>1. /\ x \in ThreadIds /\ spawned' = x + 1 /\ joined' = joined
      /\ held' = held /\ C' = C
      /\ at' = [at EXCEPT ![x] = first]
      /\ tpc' = [tpc EXCEPT ![x] = PcAt(x, first)]
  BY <1>e, <1>f, SMT DEF Spawn, TypeOK
<1>2. /\ tpc \in [ThreadIds -> {"unborn", "tile", "add", "done"}]
      /\ at \in [ThreadIds -> [i : Nat, k : Nat, j : Nat]]
      /\ DOMAIN held = ThreadIds /\ C \in [Cells -> Seq(Int)]
      /\ spawned \in 0 .. Threads /\ joined \in 0 .. spawned
  BY <1>e DEF TypeOK
<1>3. RowStart(x) \in Nat /\ RowEnd(x) \in Nat /\ RowStart(x) <= RowEnd(x)
  BY <1>1, <1>e, BandInside
<1>4. PcAt(x, first) \in {"tile", "done"}
  BY DEF PcAt
<1>5. TypeOK'
  <2>1. first \in [i : Nat, k : Nat, j : Nat]
    BY <1>3
  <2>2. /\ tpc' \in [ThreadIds -> {"unborn", "tile", "add", "done"}]
        /\ at' \in [ThreadIds -> [i : Nat, k : Nat, j : Nat]]
    BY <1>1, <1>2, <1>4, <2>1
  <2>3. spawned' \in 0 .. Threads /\ joined' \in 0 .. spawned'
    BY <1>1, <1>2, <1>f, SMT
  <2> QED BY <1>e, <1>f, <1>1, <1>2, <2>2, <2>3 DEF TypeOK
<1>6. CallerOrder'
  BY <1>e, <1>f, <1>1, <1>2, <1>4, SMT DEF CallerOrder
<1>7. \A y \in ThreadIds : y # x => tpc'[y] = tpc[y] /\ at'[y] = at[y]
  BY <1>1, <1>2
<1>8. at'[x] = first /\ tpc'[x] = PcAt(x, first)
  BY <1>1, <1>2
<1>9. InBand'
  <2>1. tpc'[x] = "tile" =>
            RowStart(x) \in Band(x) /\ 0 < size.k /\ 0 < size.n
    BY <1>3, <1>8, <1>e, SMT DEF PcAt, Band, Sizes
  <2>2. tpc'[x] \in {"tile", "done"} /\ at'[x].i = RowStart(x)
        /\ at'[x].k = 0 /\ at'[x].j = 0
    BY <1>4, <1>8
  <2> QED BY <2>1, <2>2, <1>7, <1>1, <1>f, <1>e DEF InBand, Running
<1>10. HeldIsCurrent'
  <2>1. \A y \in ThreadIds : y # x => Tile(y)' = Tile(y)
    BY <1>7, <1>f, Frozen DEF Tile, RowTileEnd, ColTileEnd, RowEnd
  <2>2. tpc'[x] # "add"
    BY <1>4, <1>8
  <2> QED BY <2>1, <2>2, <1>7, <1>1, <1>f, <1>e DEF HeldIsCurrent
<1>11. Sums'
  <2> SUFFICES ASSUME NEW y \in ThreadIds, NEW cell \in Cells,
                      cell[1] \in Band(y)
               PROVE  C[cell] = Terms(0, Added(y, cell)')
    BY <1>f, <1>1 DEF Sums
  <2>1. CASE y # x
    <3>1. Added(y, cell)' = Added(y, cell)
      BY <2>1, <1>7, <1>f DEF Added, RowTileEnd, KTileEnd, RowEnd
    <3> QED BY <3>1, <1>e DEF Sums
  <2>2. CASE y = x
    <3>1. tpc[x] = "unborn"
      BY <1>e, <1>1, <1>f, SMT DEF CallerOrder
    <3>2. C[cell] = Terms(0, 0)
      BY <2>2, <3>1, <1>e DEF Sums, Added
    <3>3. /\ cell[1] \in Nat /\ cell[1] >= RowStart(x) /\ cell[1] < RowEnd(x)
          /\ cell[2] \in Nat /\ size.k \in Nat /\ size.n > 0
      BY <2>2, <1>3, <1>e, SMT DEF Band, Cells, Sizes
    <3>4. Added(x, cell)' = 0
      <4>1. CASE tpc'[x] = "done"
        <5>1. size.k = 0
          BY <4>1, <3>3, <1>3, <1>8, SMT DEF PcAt
        <5> QED BY <4>1, <5>1, <1>f DEF Added
      <4>2. CASE tpc'[x] = "tile"
        <5>1. ~(cell[1] < at'[x].i) /\ ~(cell[2] < at'[x].j) /\ at'[x].k = 0
          BY <1>8, <3>3, <1>3, SMT DEF Cells
        <5> QED BY <4>2, <5>1 DEF Added
      <4> QED BY <4>1, <4>2, <1>4, <1>8
    <3> QED BY <2>2, <3>2, <3>4
  <2> QED BY <2>1, <2>2
<1> QED BY <1>5, <1>6, <1>9, <1>10, <1>11 DEF IInv

\* The caller's other steps touch nothing that the threads use.
LEMMA CallerStep == IInv /\ (AllSpawned \/ Join \/ Return) => IInv'
<1> SUFFICES ASSUME IInv, AllSpawned \/ Join \/ Return PROVE IInv'
  OBVIOUS
<1>e. /\ TypeOK /\ CallerOrder /\ InBand /\ HeldIsCurrent /\ Sums /\ Sizes
      /\ pc \in {"spawn", "join"} /\ pc' \in {"spawn", "join", "done"}
  BY TypeSizes DEF IInv, AllSpawned, Join, Return
<1>1. /\ size' = size /\ machine' = machine /\ cfg' = cfg
      /\ spawned' = spawned /\ tpc' = tpc /\ at' = at /\ held' = held /\ C' = C
  BY DEF AllSpawned, Join, Return, given, band
<1>f. /\ Threads' = Threads /\ ThreadIds' = ThreadIds /\ Cells' = Cells
      /\ Threads \in Nat /\ ThreadIds = 0 .. Threads - 1
      /\ \A y \in ThreadIds : Band(y)' = Band(y)
  BY <1>e, <1>1, Frozen, ThreadCount DEF given
<1>2. spawned \in 0 .. Threads /\ joined \in 0 .. spawned
  BY <1>e DEF TypeOK
<1>3. joined' \in 0 .. spawned
  BY <1>2, <1>e, <1>f, SMT DEF AllSpawned, Join, Return, CallerOrder
<1>4. TypeOK'
  BY <1>e, <1>1, <1>f, <1>3 DEF TypeOK
<1>5. CallerOrder'
  BY <1>e, <1>1, <1>f, <1>2, SMT DEF CallerOrder, AllSpawned, Join, JoinReady,
     Return
<1>6. \A y \in ThreadIds : Tile(y)' = Tile(y)
  BY <1>1, <1>f DEF Tile, RowTileEnd, ColTileEnd, RowEnd
<1>7. InBand' /\ HeldIsCurrent'
  BY <1>e, <1>1, <1>f, <1>6 DEF InBand, HeldIsCurrent, Running
<1>8. \A y \in ThreadIds, cell \in Cells : Added(y, cell)' = Added(y, cell)
  BY <1>1, <1>f DEF Added, RowTileEnd, KTileEnd, RowEnd
<1>9. Sums'
  BY <1>e, <1>1, <1>f, <1>8 DEF Sums
<1> QED BY <1>4, <1>5, <1>7, <1>9 DEF IInv

\* What every step of a thread leaves alone, and what it may rely on.
LEMMA ThreadFrame ==
    ASSUME IInv, NEW x \in DOMAIN tpc, Read(x) \/ Add(x)
    PROVE  /\ x \in ThreadIds /\ pc \in {"spawn", "join", "done"} /\ Running(x)
           /\ Threads' = Threads /\ ThreadIds' = ThreadIds /\ Cells' = Cells
           /\ \A y \in ThreadIds : Band(y)' = Band(y) /\ RowEnd(y)' = RowEnd(y)
           /\ size' = size /\ machine' = machine /\ cfg' = cfg /\ pc' = pc
           /\ spawned' = spawned /\ joined' = joined
<1>1. /\ size' = size /\ machine' = machine /\ cfg' = cfg /\ pc' = pc
      /\ spawned' = spawned /\ joined' = joined /\ Running(x)
  BY DEF Read, Add, given, Running
<1>2. pc # "idle"
  BY DEF IInv, CallerOrder
<1>3. x \in ThreadIds /\ pc \in {"spawn", "join", "done"}
  BY <1>2 DEF IInv, TypeOK
<1> QED BY <1>1, <1>3, Frozen DEF given

\* The three loops that surround a tile.
LEMMA NextTileFields ==
    ASSUME NEW x, at[x] \in [i : Nat, k : Nat, j : Nat],
           cfg.tile_m \in Nat, cfg.tile_n \in Nat, cfg.tile_k \in Nat
    PROVE  /\ IF at[x].j + cfg.tile_n < size.n
              THEN /\ NextTile(x).i = at[x].i /\ NextTile(x).k = at[x].k
                   /\ NextTile(x).j = at[x].j + cfg.tile_n
              ELSE IF at[x].k + cfg.tile_k < size.k
              THEN /\ NextTile(x).i = at[x].i
                   /\ NextTile(x).k = at[x].k + cfg.tile_k
                   /\ NextTile(x).j = 0
              ELSE /\ NextTile(x).i = at[x].i + cfg.tile_m
                   /\ NextTile(x).k = 0 /\ NextTile(x).j = 0
           /\ NextTile(x) \in [i : Nat, k : Nat, j : Nat]
<1> PICK p \in [i : Nat, k : Nat, j : Nat] : p = at[x]
  OBVIOUS
<1>p. p = [i |-> p.i, k |-> p.k, j |-> p.j]
  OBVIOUS
<1>1. CASE p.j + cfg.tile_n < size.n
  <2>1. NextTile(x) = [p EXCEPT !.j = p.j + cfg.tile_n]
    BY <1>1 DEF NextTile
  <2>2. NextTile(x) = [i |-> p.i, k |-> p.k, j |-> p.j + cfg.tile_n]
    BY <1>p, <2>1
  <2> QED BY <1>1, <2>2
<1>2. CASE ~(p.j + cfg.tile_n < size.n) /\ p.k + cfg.tile_k < size.k
  <2>1. NextTile(x) = [p EXCEPT !.j = 0, !.k = p.k + cfg.tile_k]
    BY <1>2 DEF NextTile
  <2>2. NextTile(x) = [i |-> p.i, k |-> p.k + cfg.tile_k, j |-> 0]
    BY <1>p, <2>1
  <2> QED BY <1>2, <2>2
<1>3. CASE ~(p.j + cfg.tile_n < size.n) /\ ~(p.k + cfg.tile_k < size.k)
  <2>1. NextTile(x) = [p EXCEPT !.j = 0, !.k = 0, !.i = p.i + cfg.tile_m]
    BY <1>3 DEF NextTile
  <2>2. NextTile(x) = [i |-> p.i + cfg.tile_m, k |-> 0, j |-> 0]
    BY <1>p, <2>1
  <2> QED BY <1>3, <2>2
<1> QED BY <1>1, <1>2, <1>3

\* A thread reads its tile.
LEMMA ReadStep == ASSUME IInv, NEW x \in DOMAIN tpc, Read(x) PROVE IInv'
<1>f. /\ x \in ThreadIds /\ pc \in {"spawn", "join", "done"} /\ Running(x)
      /\ Threads' = Threads /\ ThreadIds' = ThreadIds /\ Cells' = Cells
      /\ \A y \in ThreadIds : Band(y)' = Band(y) /\ RowEnd(y)' = RowEnd(y)
      /\ size' = size /\ machine' = machine /\ cfg' = cfg /\ pc' = pc
      /\ spawned' = spawned /\ joined' = joined
  BY ThreadFrame
<1>e. TypeOK /\ CallerOrder /\ InBand /\ HeldIsCurrent /\ Sums
  BY DEF IInv
<1>1. /\ tpc[x] = "tile" /\ at' = at /\ C' = C
      /\ tpc' = [tpc EXCEPT ![x] = "add"]
      /\ held' = [held EXCEPT ![x] = [cell \in Tile(x) |-> C[cell]]]
  BY DEF Read
<1>2. /\ tpc \in [ThreadIds -> {"unborn", "tile", "add", "done"}]
      /\ DOMAIN held = ThreadIds
  BY <1>e, <1>f DEF TypeOK
<1>3. /\ tpc' \in [ThreadIds -> {"unborn", "tile", "add", "done"}]
      /\ tpc'[x] = "add" /\ held'[x] = [cell \in Tile(x) |-> C[cell]]
      /\ DOMAIN held' = ThreadIds
      /\ \A y \in ThreadIds : y # x => tpc'[y] = tpc[y] /\ held'[y] = held[y]
  BY <1>1, <1>2, <1>f
<1>4. TypeOK'
  BY <1>e, <1>f, <1>1, <1>3 DEF TypeOK
<1>5. CallerOrder'
  BY <1>e, <1>f, <1>1, <1>3 DEF CallerOrder
<1>6. InBand'
  BY <1>e, <1>f, <1>1, <1>3 DEF InBand, Running
<1>7. \A y \in ThreadIds : Tile(y)' = Tile(y)
  BY <1>1, <1>f DEF Tile, RowTileEnd, ColTileEnd
<1>8. HeldIsCurrent'
  BY <1>e, <1>f, <1>1, <1>3, <1>7 DEF HeldIsCurrent
<1>9. \A y \in ThreadIds, cell \in Cells : Added(y, cell)' = Added(y, cell)
  BY <1>1, <1>3, <1>f DEF Added, RowTileEnd, KTileEnd
<1>10. Sums'
  BY <1>e, <1>f, <1>1, <1>9 DEF Sums
<1> QED BY <1>4, <1>5, <1>6, <1>8, <1>10 DEF IInv

\* A thread adds the products of its tile and moves on.
LEMMA AddStep == ASSUME IInv, NEW x \in DOMAIN tpc, Add(x) PROVE IInv'
<1>f. /\ x \in ThreadIds /\ pc \in {"spawn", "join", "done"} /\ Running(x)
      /\ Threads' = Threads /\ ThreadIds' = ThreadIds /\ Cells' = Cells
      /\ \A y \in ThreadIds : Band(y)' = Band(y) /\ RowEnd(y)' = RowEnd(y)
      /\ size' = size /\ machine' = machine /\ cfg' = cfg /\ pc' = pc
      /\ spawned' = spawned /\ joined' = joined
  BY ThreadFrame
<1>e. TypeOK /\ CallerOrder /\ InBand /\ HeldIsCurrent /\ Sums /\ Sizes
  BY TypeSizes DEF IInv
<1> DEFINE p == at[x]
           q == NextTile(x)
           from == at[x].k
           to == KTileEnd(x)
<1>1. /\ tpc[x] = "add"
      /\ tpc' = [tpc EXCEPT ![x] = PcAt(x, q)]
      /\ at' = [at EXCEPT ![x] = q]
      /\ held' = [held EXCEPT ![x] = <<>>]
      /\ C' = [cell \in DOMAIN C |-> IF cell \in Tile(x)
                                     THEN held[x][cell] \o Terms(from, to)
                                     ELSE C[cell]]
  BY DEF Add
<1>2. /\ tpc \in [ThreadIds -> {"unborn", "tile", "add", "done"}]
      /\ at \in [ThreadIds -> [i : Nat, k : Nat, j : Nat]]
      /\ DOMAIN held = ThreadIds /\ C \in [Cells -> Seq(Int)]
  BY <1>e, <1>f DEF TypeOK
<1>3. /\ p \in [i : Nat, k : Nat, j : Nat]
      /\ RowTileEnd(x) \in Nat /\ to \in Nat /\ ColTileEnd(x) \in Nat
      /\ p.i < RowTileEnd(x) /\ RowTileEnd(x) <= RowEnd(x)
      /\ RowStart(x) <= p.i /\ RowEnd(x) <= size.m
      /\ from < to /\ to <= size.k
      /\ p.j < ColTileEnd(x) /\ ColTileEnd(x) <= size.n
  BY <1>e, <1>f, TileFacts
<1>4. /\ size.m \in Nat /\ size.n \in Nat /\ size.k \in Nat
      /\ cfg.tile_m \in Nat /\ cfg.tile_n \in Nat /\ cfg.tile_k \in Nat
      /\ cfg.tile_m > 0 /\ cfg.tile_n > 0 /\ cfg.tile_k > 0
      /\ RowStart(x) \in Nat /\ RowEnd(x) \in Nat
  BY <1>e, <1>f, BandInside DEF Sizes, Positive
<1>5. /\ p.i \in Nat /\ p.k \in Nat /\ p.j \in Nat
      /\ from \in Nat /\ from = p.k /\ from <= to
  BY <1>3, SMT
<1>6. IF p.j + cfg.tile_n < size.n
      THEN q.i = p.i /\ q.k = p.k /\ q.j = p.j + cfg.tile_n
      ELSE IF p.k + cfg.tile_k < size.k
      THEN q.i = p.i /\ q.k = p.k + cfg.tile_k /\ q.j = 0
      ELSE q.i = p.i + cfg.tile_m /\ q.k = 0 /\ q.j = 0
  BY <1>3, <1>4, NextTileFields
<1>7. q \in [i : Nat, k : Nat, j : Nat]
  BY <1>3, <1>4, NextTileFields
<1>8. PcAt(x, q) \in {"tile", "done"}
  BY DEF PcAt
<1>9. /\ tpc'[x] = PcAt(x, q) /\ at'[x] = q
      /\ tpc' \in [ThreadIds -> {"unborn", "tile", "add", "done"}]
      /\ at' \in [ThreadIds -> [i : Nat, k : Nat, j : Nat]]
      /\ DOMAIN held' = ThreadIds
      /\ \A y \in ThreadIds : y # x => /\ tpc'[y] = tpc[y] /\ at'[y] = at[y]
                                       /\ held'[y] = held[y]
  BY <1>1, <1>2, <1>7, <1>8, <1>f
<1>10. \A cell \in Cells :
           C'[cell] = IF cell \in Tile(x) THEN C[cell] \o Terms(from, to)
                                          ELSE C[cell]
  BY <1>1, <1>2, <1>e, <1>f DEF HeldIsCurrent
<1>11. C' \in [Cells -> Seq(Int)]
  <2>1. Terms(from, to) \in Seq(Int)
    BY <1>3, <1>5, TermsType
  <2>2. \A cell \in Cells : C'[cell] \in Seq(Int)
    <3> SUFFICES ASSUME NEW cell \in Cells PROVE C'[cell] \in Seq(Int)
      OBVIOUS
    <3>1. C[cell] \in Seq(Int)
      BY <1>2
    <3>2. C[cell] \o Terms(from, to) \in Seq(Int)
      BY <3>1, <2>1, ConcatProperties
    <3> QED BY <3>1, <3>2, <1>10
  <2> QED BY <2>2, <1>1, <1>2
<1> HIDE DEF p, q, from, to
<1>12. TypeOK'
  BY <1>e, <1>f, <1>9, <1>11 DEF TypeOK
<1>13. CallerOrder'
  BY <1>e, <1>f, <1>1, <1>8, <1>9 DEF CallerOrder
<1>14. InBand'
  <2>1. PcAt(x, q) = "tile" =>
            q.i \in Band(x) /\ q.k < size.k /\ q.j < size.n
    BY <1>3, <1>4, <1>5, <1>6, SMT DEF PcAt, Band
  <2> QED BY <2>1, <1>8, <1>9, <1>e, <1>f DEF InBand, Running
<1>15. HeldIsCurrent'
  <2>1. \A y \in ThreadIds : y # x => Tile(y)' = Tile(y)
    BY <1>9, <1>f DEF Tile, RowTileEnd, ColTileEnd
  <2>2. \A y \in ThreadIds : y # x /\ Running(y) =>
            \A cell \in Tile(y) : cell \in Cells /\ cell \notin Tile(x)
    BY <1>e, <1>f, TilesApart, TileCells
  <2>3. \A y \in ThreadIds : y # x /\ tpc[y] = "add" =>
            held[y] = [cell \in Tile(y) |-> C'[cell]]
    <3> SUFFICES ASSUME NEW y \in ThreadIds, y # x, tpc[y] = "add"
                 PROVE  held[y] = [cell \in Tile(y) |-> C'[cell]]
      OBVIOUS
    <3>1. held[y] = [cell \in Tile(y) |-> C[cell]]
      BY <1>e, <1>f DEF HeldIsCurrent
    <3>2. \A cell \in Tile(y) : C'[cell] = C[cell]
      BY <2>2, <1>10 DEF Running
    <3> QED BY <3>1, <3>2
  <2>4. tpc'[x] # "add"
    BY <1>8, <1>9
  <2> QED BY <2>1, <2>3, <2>4, <1>9, <1>f DEF HeldIsCurrent
<1>16. Sums'
  <2> SUFFICES ASSUME NEW y \in ThreadIds, NEW cell \in Cells,
                      cell[1] \in Band(y)
               PROVE  C'[cell] = Terms(0, Added(y, cell)')
    BY <1>f DEF Sums
  <2>e. C[cell] = Terms(0, Added(y, cell))
    BY <1>e, <1>f DEF Sums
  <2>1. CASE y # x
    <3>1. Added(y, cell)' = Added(y, cell)
      BY <2>1, <1>9, <1>f DEF Added, RowTileEnd, KTileEnd
    <3>2. cell \notin Tile(x)
      BY <2>1, <1>e, <1>f, TilesApart
    <3> QED BY <3>1, <3>2, <2>e, <1>10
  <2>2. CASE y = x
    <3>1. /\ cell[1] \in Nat /\ cell[2] \in Nat
          /\ cell[1] < RowEnd(x) /\ cell[2] < size.n
          /\ cell \in Tile(x) <=>
                 /\ p.i <= cell[1] /\ cell[1] < RowTileEnd(x)
                 /\ p.j <= cell[2] /\ cell[2] < ColTileEnd(x)
      BY <2>2, <1>3, <1>4, <1>5, SMT DEF Cells, Band, Tile, p
    <3>2. Added(x, cell) = IF cell[1] < p.i THEN size.k
                           ELSE IF cell[1] >= RowTileEnd(x) THEN 0
                           ELSE IF cell[2] < p.j THEN to ELSE from
      BY <1>1 DEF Added, p, from, to
    <3>3. /\ RowTileEnd(x) = Smaller(p.i + cfg.tile_m, RowEnd(x))
          /\ ColTileEnd(x) = Smaller(p.j + cfg.tile_n, size.n)
          /\ to = Smaller(p.k + cfg.tile_k, size.k) /\ from = p.k
      BY DEF RowTileEnd, ColTileEnd, KTileEnd, p, from, to
    <3>4. Added(x, cell)' =
              IF tpc'[x] = "done" \/ cell[1] < q.i THEN size.k
              ELSE IF cell[1] >= Smaller(q.i + cfg.tile_m, RowEnd(x)) THEN 0
              ELSE IF cell[2] < q.j THEN Smaller(q.k + cfg.tile_k, size.k)
              ELSE q.k
      BY <1>8, <1>9, <1>f DEF Added, RowTileEnd, KTileEnd
    <3>5. tpc'[x] = "done" => q.i >= RowEnd(x)
      BY <1>3, <1>4, <1>5, <1>6, <1>9, SMT DEF PcAt
    <3>6. CASE cell \in Tile(x)
      <4>1. Added(x, cell) = from /\ Added(x, cell)' = to
        BY <3>1, <3>2, <3>3, <3>4, <3>5, <3>6, <1>3, <1>4, <1>5, <1>6, SMT
           DEF Smaller
      <4>2. Terms(0, from) \o Terms(from, to) = Terms(0, to)
        BY <1>3, <1>5, <3>3, TermsJoin
      <4> QED BY <4>1, <4>2, <3>6, <2>2, <2>e, <1>10
    <3>7. CASE cell \notin Tile(x)
      <4>1. Added(x, cell)' = Added(x, cell)
        BY <3>1, <3>2, <3>3, <3>4, <3>5, <3>7, <1>3, <1>4, <1>5, <1>6, SMT
           DEF Smaller
      <4> QED BY <4>1, <3>7, <2>2, <2>e, <1>10
    <3> QED BY <3>6, <3>7
  <2> QED BY <2>1, <2>2
<1> QED BY <1>12, <1>13, <1>14, <1>15, <1>16 DEF IInv

\* Idle steps keep everything.
LEMMA StutterStep == IInv /\ UNCHANGED vars => IInv'
<1> SUFFICES ASSUME IInv, UNCHANGED vars PROVE IInv'
  OBVIOUS
<1>1. /\ pc' = pc /\ size' = size /\ machine' = machine /\ cfg' = cfg
      /\ spawned' = spawned /\ joined' = joined
      /\ tpc' = tpc /\ at' = at /\ held' = held /\ C' = C
  BY DEF vars
<1>2. TypeOK' /\ CallerOrder'
  BY <1>1 DEF IInv, TypeOK, CallerOrder, Threads, ThreadIds, Cells
<1>3. InBand'
  BY <1>1 DEF IInv, InBand, Running, Threads, ThreadIds, Band, RowStart, RowEnd
<1>4. HeldIsCurrent'
  <2>1. ThreadIds' = ThreadIds /\ \A x \in ThreadIds : RowEnd(x)' = RowEnd(x)
    BY <1>1, Frozen DEF given
  <2>2. \A x \in ThreadIds : Tile(x)' = Tile(x)
    BY <1>1, <2>1 DEF Tile, RowTileEnd, ColTileEnd
  <2> QED BY <1>1, <2>1, <2>2 DEF IInv, HeldIsCurrent
<1>5. Sums'
  BY <1>1 DEF IInv, Sums, Added, Threads, ThreadIds, Cells, Band, RowStart,
     RowEnd, RowTileEnd, KTileEnd
<1> QED BY <1>2, <1>3, <1>4, <1>5 DEF IInv

\* The invariant holds in every reachable state.
THEOREM Invariance == SafeSpec => []IInv
<1>1. IInv /\ [Next]_vars => IInv'
  <2> SUFFICES ASSUME IInv, [Next]_vars PROVE IInv'
    OBVIOUS
  <2>1. ASSUME NEW s \in Shapes, NEW c \in Configs, NEW mc \in Machines,
               Call(s, c, mc)
        PROVE  IInv'
    BY <2>1, CallStep
  <2>2. CASE Proceed
    BY <2>2, SpawnStep, CallerStep DEF Proceed
  <2>3. CASE Work
    BY <2>3, ReadStep, AddStep DEF Work
  <2>4. CASE UNCHANGED vars
    BY <2>4, StutterStep
  <2> QED BY <2>1, <2>2, <2>3, <2>4 DEF Next
<1> QED BY InitInv, <1>1, PTL DEF SafeSpec
-----------------------------------------------------------------------------
(* The results *)

\* The variables keep their types: after norm no tile and no number of threads
\* is zero, so that no loop of matmul stands still.
THEOREM TypeCorrect == SafeSpec => []TypeOK
<1>1. IInv => TypeOK
  BY DEF IInv
<1> QED BY Invariance, <1>1, PTL

\* Threads that run never have a cell in common: matmul needs no lock, whatever
\* the shape, the tiles and the number of threads.
THEOREM NoSharedCell == SafeSpec => []BandsAreDisjoint
<1>1. IInv => BandsAreDisjoint
  <2> SUFFICES ASSUME IInv, NEW x \in DOMAIN tpc, NEW y \in DOMAIN tpc, x # y,
                      Running(x), Running(y), NEW cell \in Tile(x)
               PROVE  cell \notin Tile(y)
    BY Zenon DEF BandsAreDisjoint
  <2>1. pc # "idle" /\ TypeOK /\ InBand
    BY DEF IInv, CallerOrder
  <2>2. x \in ThreadIds /\ y \in ThreadIds
    BY <2>1 DEF TypeOK
  <2>3. cell[1] \notin Band(y)
    BY <2>1, <2>2, TilesApart
  <2> QED BY <2>1, <2>2, <2>3, TileCells
<1> QED BY Invariance, <1>1, PTL

\* No tile reaches beyond the matrices.
THEOREM InsideTheMatrices == SafeSpec => []TilesInBounds
<1>1. IInv => TilesInBounds
  <2> SUFFICES ASSUME IInv, NEW x \in DOMAIN tpc, Running(x)
               PROVE  /\ Tile(x) \subseteq Cells /\ Tile(x) # {}
                      /\ at[x].k < KTileEnd(x) /\ KTileEnd(x) <= size.k
    BY DEF TilesInBounds
  <2>1. pc # "idle" /\ TypeOK /\ InBand
    BY DEF IInv, CallerOrder
  <2>2. x \in ThreadIds
    BY <2>1 DEF TypeOK
  <2> QED BY <2>1, <2>2, TileFacts, TileCells
<1> QED BY Invariance, <1>1, PTL

\* A cell's products are added once each, in ascending order.
LEMMA CellIsPrefix ==
    ASSUME IInv, pc # "idle", NEW cell \in Cells
    PROVE  \E n \in 0 .. size.k : C[cell] = Terms(0, n)
<1>1. TypeOK /\ InBand /\ Sums /\ Sizes
  BY TypeSizes DEF IInv
<1>2. cell[1] \in 0 .. size.m - 1 /\ size.k \in Nat
  BY <1>1 DEF Cells, Sizes
<1>3. PICK x \in ThreadIds : cell[1] \in Band(x)
  BY <1>1, <1>2, RowHasBand
<1>4. C[cell] = Terms(0, Added(x, cell))
  BY <1>1, <1>3 DEF Sums
<1>5. Added(x, cell) \in 0 .. size.k
  <2>1. CASE Running(x)
    <3>1. /\ at[x].k \in Nat /\ KTileEnd(x) \in Nat
          /\ at[x].k < KTileEnd(x) /\ KTileEnd(x) <= size.k
      BY <2>1, <1>1, TileFacts
    <3> QED BY <3>1, <1>2, SMT DEF Added
  <2>2. CASE ~Running(x)
    <3>1. tpc[x] \in {"unborn", "done"}
      BY <2>2, <1>1, <1>3 DEF Running, TypeOK
    <3> QED BY <3>1, <1>2, SMT DEF Added
  <2> QED BY <2>1, <2>2
<1> QED BY <1>4, <1>5

\* Tiles and threads never change the order of a sum: every cell is always the
\* sum of its first products, in the order of the plain triple loop.
THEOREM SumsAscend == SafeSpec => []AscendingSums
<1>1. IInv => AscendingSums
  <2> SUFFICES ASSUME IInv, pc # "idle", NEW cell \in Cells
               PROVE  /\ Len(C[cell]) <= size.k
                      /\ C[cell] = Terms(0, Len(C[cell]))
    BY DEF AscendingSums
  <2>1. PICK n \in 0 .. size.k : C[cell] = Terms(0, n)
    BY CellIsPrefix
  <2>2. size.k \in Nat
    BY DEF IInv, TypeOK
  <2>3. Len(Terms(0, n)) = n
    BY <2>1, <2>2, TermsType, SMT
  <2> QED BY <2>1, <2>2, <2>3, SMT
<1> QED BY Invariance, <1>1, PTL

\* What matmul returns is the product, for every shape.
THEOREM ProductIsComplete == SafeSpec => []ProductAtReturn
<1>1. IInv => ProductAtReturn
  <2> SUFFICES ASSUME IInv, pc = "done", NEW cell \in Cells
               PROVE  C[cell] = Terms(0, size.k)
    BY DEF ProductAtReturn
  <2>1. TypeOK /\ CallerOrder /\ Sums /\ Sizes
    BY TypeSizes DEF IInv
  <2>2. cell[1] \in 0 .. size.m - 1
    BY <2>1 DEF Cells, Sizes
  <2>3. PICK x \in ThreadIds : cell[1] \in Band(x)
    BY <2>1, <2>2, RowHasBand
  <2>4. tpc[x] = "done"
    <3>1. joined = Threads /\ x < Threads
      BY <2>1, ThreadCount, SMT DEF CallerOrder
    <3> QED BY <3>1, <2>1 DEF CallerOrder
  <2>5. Added(x, cell) = size.k
    BY <2>4 DEF Added
  <2> QED BY <2>1, <2>3, <2>5 DEF Sums
<1> QED BY Invariance, <1>1, PTL

\* The tuning keeps the working set of a tile inside the L1 cache of any size
\* from 512 bytes on.
THEOREM TuningFits == SafeSpec => []TunedTilesFit
<1>1. IInv => TunedTilesFit
  <2>1. IInv => machine \in [l1d : Nat, cpus : Nat]
    BY DEF IInv, TypeOK
  <2> QED BY <2>1, TunedWorkingSet DEF TunedTilesFit
<1> QED BY Invariance, <1>1, PTL
-----------------------------------------------------------------------------
(* The benchmark *)

Found(h) == Leaf4(h) \cup Index(h)
CpuFound(h) == CpuLeaf4(h) \cup CpuIndex(h)

\* Two readings of the same cache.
Same(r, s) == /\ s.bytes = r.bytes /\ s.line = r.line
              /\ s.slot = CpuSlot(r.level, r.type)

\* The capacities that either detector finds for a slot.
InSlot(h, slot) ==
    {r.bytes : r \in {q \in Found(h) : <<q.level, q.type>> \in slot}}
AtSlot(h, name) ==
    {s.bytes : s \in {q \in CpuFound(h) : q.slot = name}}

\* The two ways to say which caches belong to a slot.
SameSlot(slot, name) == \A level : \A type \in Kinds :
    <<level, type>> \in slot <=> CpuSlot(level, type) = name
-----------------------------------------------------------------------------
\* Both parsers read the capacities that the directory writes.
LEMMA ParsersAgree ==
    ASSUME NEW s \in [value : Nat, unit : {"K", "M", "none"}]
    PROVE  ParseSize(s) = CpuParseSize(s)
  BY DEF ParseSize, CpuParseSize

\* The chain of else-ifs takes a cache for the slots to which it belongs.
LEMMA SlotsAgree ==
    ASSUME NEW level, NEW type \in Kinds
    PROVE  /\ <<level, type>> \in Slots.l1d <=> CpuSlot(level, type) = "l1d"
           /\ <<level, type>> \in Slots.l1i <=> CpuSlot(level, type) = "l1i"
           /\ <<level, type>> \in Slots.l2 <=> CpuSlot(level, type) = "l2"
           /\ <<level, type>> \in Slots.l3 <=> CpuSlot(level, type) = "l3"
<1>1. /\ <<level, type>> \in Slots.l1d <=> level = 1 /\ type = "Data"
      /\ <<level, type>> \in Slots.l1i <=> level = 1 /\ type = "Instruction"
      /\ <<level, type>> \in Slots.l2 <=> level = 2
      /\ <<level, type>> \in Slots.l3 <=> level = 3
  BY DEF Slots
<1>2. CASE level = 1 /\ type = "Data"
  BY <1>1, <1>2 DEF CpuSlot
<1>3. CASE level = 1 /\ type = "Instruction"
  BY <1>1, <1>3 DEF CpuSlot
<1>4. CASE level = 1 /\ type = "Unified"
  BY <1>1, <1>4 DEF CpuSlot
<1>5. CASE level = 2
  BY <1>1, <1>5 DEF CpuSlot
<1>6. CASE level = 3
  BY <1>1, <1>6 DEF CpuSlot
<1>7. CASE level \notin {1, 2, 3}
  BY <1>1, <1>7 DEF CpuSlot
<1> QED BY <1>2, <1>3, <1>4, <1>5, <1>6, <1>7 DEF Kinds

\* Every reading of src/cache.cpp is one of src/cpu.cpp.
LEMMA ThereIsCpu ==
    ASSUME NEW h \in Hosts, NEW r \in Found(h)
    PROVE  r.type \in Kinds /\ \E s \in CpuFound(h) : Same(r, s)
<1>1. CASE r \in Leaf4(h)
  <2>1. PICK k \in Subleaves(h) :
          r = [level |-> h.leaf4[k].level, type |-> h.leaf4[k].type,
               bytes |-> Leaf4Bytes(h.leaf4[k]), line |-> h.leaf4[k].line + 1]
    BY <1>1 DEF Leaf4
  <2>2. h.maxleaf >= 4 /\ k \in 1 .. 32
        /\ \A q \in 1 .. k : h.leaf4[q].type # "Null"
    BY DEF Subleaves
  <2> DEFINE s == [slot |-> CpuSlot(h.leaf4[k].level, h.leaf4[k].type),
                   line |-> h.leaf4[k].line + 1,
                   bytes |-> Leaf4Bytes(h.leaf4[k])]
  <2>3. s \in CpuLeaf4(h)
    BY <2>2 DEF CpuLeaf4, Leaf4Bytes
  <2>4. Same(r, s)
    BY <2>1 DEF Same
  <2>5. r.type \in Kinds
    BY <2>1, <2>2, DetectAssumption
  <2> QED BY <2>3, <2>4, <2>5 DEF CpuFound
<1>2. CASE r \in Index(h)
  <2>1. PICK e \in {h.index[k] : k \in 0 .. 15} \ {Gap} :
          r = [level |-> e.level, type |-> e.type, bytes |-> ParseSize(e.size),
               line |-> e.line]
    BY <1>2 DEF Index
  <2>2. e.type \in Kinds /\ ParseSize(e.size) = CpuParseSize(e.size)
    BY DetectAssumption, ParsersAgree
  <2> DEFINE s == [slot |-> CpuSlot(e.level, e.type), line |-> e.line,
                   bytes |-> CpuParseSize(e.size)]
  <2>3. s \in CpuIndex(h)
    BY DEF CpuIndex
  <2>4. Same(r, s)
    BY <2>1, <2>2 DEF Same
  <2> QED BY <2>1, <2>2, <2>3, <2>4 DEF CpuFound
<1> QED BY <1>1, <1>2 DEF Found

\* And the other way round.
LEMMA ThereIsCache ==
    ASSUME NEW h \in Hosts, NEW s \in CpuFound(h)
    PROVE  \E r \in Found(h) : Same(r, s)
<1>1. CASE s \in CpuLeaf4(h)
  <2>1. h.maxleaf >= 4
    BY <1>1 DEF CpuLeaf4
  <2>2. PICK k \in {k \in 1 .. 32 : \A q \in 1 .. k : h.leaf4[q].type # "Null"} :
          s = [slot |-> CpuSlot(h.leaf4[k].level, h.leaf4[k].type),
               line |-> h.leaf4[k].line + 1,
               bytes |-> Leaf4Bytes(h.leaf4[k])]
    BY <1>1, <2>1 DEF CpuLeaf4, Leaf4Bytes
  <2> DEFINE r == [level |-> h.leaf4[k].level, type |-> h.leaf4[k].type,
                   bytes |-> Leaf4Bytes(h.leaf4[k]),
                   line |-> h.leaf4[k].line + 1]
  <2>3. r \in Leaf4(h)
    BY <2>1, <2>2 DEF Leaf4, Subleaves
  <2>4. Same(r, s)
    BY <2>2 DEF Same
  <2> QED BY <2>3, <2>4 DEF Found
<1>2. CASE s \in CpuIndex(h)
  <2>1. PICK e \in {h.index[k] : k \in 0 .. 15} \ {Gap} :
          s = [slot |-> CpuSlot(e.level, e.type), line |-> e.line,
               bytes |-> CpuParseSize(e.size)]
    BY <1>2 DEF CpuIndex
  <2>2. ParseSize(e.size) = CpuParseSize(e.size)
    BY DetectAssumption, ParsersAgree
  <2> DEFINE r == [level |-> e.level, type |-> e.type,
                   bytes |-> ParseSize(e.size), line |-> e.line]
  <2>3. r \in Index(h)
    BY DEF Index
  <2>4. Same(r, s)
    BY <2>1, <2>2 DEF Same
  <2> QED BY <2>3, <2>4 DEF Found
<1> QED BY <1>1, <1>2 DEF CpuFound

\* What is found for a slot is the same.
LEMMA SlotFound ==
    ASSUME NEW h \in Hosts, NEW slot, NEW name, SameSlot(slot, name)
    PROVE  InSlot(h, slot) = AtSlot(h, name)
<1> DEFINE In == {q \in Found(h) : <<q.level, q.type>> \in slot}
           At == {q \in CpuFound(h) : q.slot = name}
<1>1. ASSUME NEW r \in In PROVE \E s \in At : s.bytes = r.bytes
  <2>1. r \in Found(h) /\ r.type \in Kinds
    BY ThereIsCpu
  <2>2. PICK s \in CpuFound(h) : Same(r, s)
    BY <2>1, ThereIsCpu
  <2>3. s.slot = name
    BY <2>1, <2>2 DEF Same, SameSlot
  <2> QED BY <2>2, <2>3 DEF Same
<1>2. ASSUME NEW s \in At PROVE \E r \in In : r.bytes = s.bytes
  <2>1. PICK r \in Found(h) : Same(r, s)
    BY ThereIsCache
  <2>2. r.type \in Kinds
    BY <2>1, ThereIsCpu
  <2>3. <<r.level, r.type>> \in slot
    BY <2>1, <2>2 DEF Same, SameSlot
  <2> QED BY <2>1, <2>3 DEF Same
<1> HIDE DEF In, At
<1>3. {r.bytes : r \in In} = {s.bytes : s \in At}
  BY <1>1, <1>2
<1> QED BY <1>3 DEF In, At, InSlot, AtSlot

\* And so are the lines.
LEMMA LinesFound ==
    ASSUME NEW h \in Hosts
    PROVE  {r.line : r \in Found(h)} = {s.line : s \in CpuFound(h)}
<1>1. ASSUME NEW r \in Found(h)
      PROVE  \E s \in CpuFound(h) : s.line = r.line
  BY ThereIsCpu DEF Same
<1>2. ASSUME NEW s \in CpuFound(h)
      PROVE  \E r \in Found(h) : r.line = s.line
  BY ThereIsCache DEF Same
<1> QED BY <1>1, <1>2

\* The two detectors, of which each reads CPUID and the directory on its own,
\* report the same caches on every machine.
THEOREM DetectorsAgree ==
    \A h \in Hosts : LET plan == CachePlan(h)
                         mine == CpuInfo(h)
                     IN /\ plan.cpu.l1_data_bytes = mine.l1d
                        /\ plan.cpu.l1_instruction_bytes = mine.l1i
                        /\ plan.cpu.l2_bytes = mine.l2
                        /\ plan.cpu.l3_bytes = mine.l3
                        /\ plan.cache_line_bytes = mine.cache_line
<1> TAKE h \in Hosts
<1>1. /\ SameSlot(Slots.l1d, "l1d") /\ SameSlot(Slots.l1i, "l1i")
      /\ SameSlot(Slots.l2, "l2") /\ SameSlot(Slots.l3, "l3")
  BY SlotsAgree DEF SameSlot
<1>2. /\ InSlot(h, Slots.l1d) = AtSlot(h, "l1d")
      /\ InSlot(h, Slots.l1i) = AtSlot(h, "l1i")
      /\ InSlot(h, Slots.l2) = AtSlot(h, "l2")
      /\ InSlot(h, Slots.l3) = AtSlot(h, "l3")
  BY <1>1, SlotFound
<1>3. {r.line : r \in Found(h)} = {s.line : s \in CpuFound(h)}
  BY LinesFound
<1>4. /\ CachePlan(h).cpu.l1_data_bytes = Largest(InSlot(h, Slots.l1d))
      /\ CachePlan(h).cpu.l1_instruction_bytes = Largest(InSlot(h, Slots.l1i))
      /\ CachePlan(h).cpu.l2_bytes = Largest(InSlot(h, Slots.l2))
      /\ CachePlan(h).cpu.l3_bytes = Largest(InSlot(h, Slots.l3))
      /\ CachePlan(h).cache_line_bytes = Largest({r.line : r \in Found(h)})
  BY DEF CachePlan, CpuCacheInfo, LargestIn, Found, InSlot
<1>5. /\ CpuInfo(h).l1d = Largest(AtSlot(h, "l1d"))
      /\ CpuInfo(h).l1i = Largest(AtSlot(h, "l1i"))
      /\ CpuInfo(h).l2 = Largest(AtSlot(h, "l2"))
      /\ CpuInfo(h).l3 = Largest(AtSlot(h, "l3"))
      /\ CpuInfo(h).cache_line = Largest({s.line : s \in CpuFound(h)})
  BY DEF CpuInfo, CpuFound, AtSlot
<1> QED BY <1>2, <1>3, <1>4, <1>5
-----------------------------------------------------------------------------
\* A reading that gives a cache as it is.
Tells(r, c) == /\ r.level = c.level /\ r.type = c.type
               /\ r.bytes = Capacity(c) /\ r.line = c.line

\* The code adds the one that CPUID leaves out.
LEMMA OneMore ==
    ASSUME NEW raw, NEW c, WritesLeaf4(raw, c), c.line \in Nat,
           c.parts \in Nat, c.ways \in Nat, c.sets \in Nat
    PROVE  /\ raw.line + 1 = c.line /\ raw.parts + 1 = c.parts
           /\ raw.ways + 1 = c.ways /\ raw.sets + 1 = c.sets
           /\ raw.level = c.level /\ raw.type = c.type
  BY DEF WritesLeaf4

\* ParseSize multiplies by the unit.
LEMMA ParsedBytes ==
    ASSUME NEW s, s.value \in Nat, s.unit \in {"K", "M", "none"}
    PROVE  ParseSize(s) = s.value * UnitBytes[s.unit]
<1>1. CASE s.unit = "K"
  <2>1. UnitBytes[s.unit] = 1024 /\ ParseSize(s) = s.value * 1024
    BY <1>1 DEF ParseSize, UnitBytes
  <2> QED BY <2>1
<1>2. CASE s.unit = "M"
  <2>1. /\ UnitBytes[s.unit] = 1024 * 1024
        /\ ParseSize(s) = s.value * 1024 * 1024
    BY <1>2 DEF ParseSize, UnitBytes
  <2>2. \A v \in Nat : v * 1024 * 1024 = v * (1024 * 1024)
    OBVIOUS
  <2> QED BY <2>1, <2>2
<1>3. CASE s.unit = "none"
  <2>1. UnitBytes[s.unit] = 1 /\ ParseSize(s) = s.value
    BY <1>3 DEF ParseSize, UnitBytes
  <2> QED BY <2>1
<1> QED BY <1>1, <1>2, <1>3

\* CPUID's fields minus one multiply to the capacity.
LEMMA Leaf4Tells ==
    ASSUME NEW h \in Hosts, NEW k \in Listed(h), NEW c \in h.reported,
           WritesLeaf4(h.leaf4[k], c)
    PROVE  \E r \in Found(h) : Tells(r, c)
<1> DEFINE raw == h.leaf4[k]
           r == [level |-> raw.level, type |-> raw.type,
                 bytes |-> Leaf4Bytes(raw), line |-> raw.line + 1]
<1>1. r \in Leaf4(h)
  BY DEF Leaf4, Subleaves, Listed
<1>2. /\ raw.line + 1 = c.line /\ raw.parts + 1 = c.parts
      /\ raw.ways + 1 = c.ways /\ raw.sets + 1 = c.sets
      /\ raw.level = c.level /\ raw.type = c.type
  BY TruthAssumption, OneMore
<1>3. Leaf4Bytes(raw) = Capacity(c)
  BY <1>2 DEF Leaf4Bytes, Capacity
<1> QED BY <1>1, <1>2, <1>3 DEF Found, Tells

\* The parser of the directory's capacities multiplies by the unit.
LEMMA IndexTells ==
    ASSUME NEW h \in Hosts, NEW k \in Entries(h), NEW c \in h.reported,
           WritesIndex(h.index[k], c)
    PROVE  \E r \in Found(h) : Tells(r, c)
<1> DEFINE e == h.index[k]
           r == [level |-> e.level, type |-> e.type,
                 bytes |-> ParseSize(e.size), line |-> e.line]
<1>1. k \in 0 .. 15 /\ e # Gap
  BY DEF Entries
<1>2. r \in Index(h)
  BY <1>1 DEF Index
<1>3. e.size.value \in Nat /\ e.size.unit \in {"K", "M", "none"}
  BY <1>1, DetectAssumption
<1>4. e.size.value * UnitBytes[e.size.unit] = Capacity(c)
  BY DEF WritesIndex
<1>5. ParseSize(e.size) = e.size.value * UnitBytes[e.size.unit]
  BY <1>3, ParsedBytes
<1>6. Tells(r, c)
  BY <1>4, <1>5 DEF WritesIndex, Tells
<1> QED BY <1>2, <1>6 DEF Found

\* What is found is what some source says of a cache that exists ...
LEMMA FoundIsReported ==
    ASSUME NEW h \in Hosts, NEW r \in Found(h)
    PROVE  \E c \in h.reported : Tells(r, c)
<1>1. CASE r \in Leaf4(h)
  <2>1. PICK k \in Listed(h) :
          r = [level |-> h.leaf4[k].level, type |-> h.leaf4[k].type,
               bytes |-> Leaf4Bytes(h.leaf4[k]), line |-> h.leaf4[k].line + 1]
    BY <1>1 DEF Leaf4, Subleaves, Listed
  <2>2. PICK c \in h.reported : WritesLeaf4(h.leaf4[k], c)
    BY TruthAssumption
  <2> DEFINE raw == h.leaf4[k]
  <2>3. /\ raw.line + 1 = c.line /\ raw.parts + 1 = c.parts
        /\ raw.ways + 1 = c.ways /\ raw.sets + 1 = c.sets
        /\ raw.level = c.level /\ raw.type = c.type
    BY <2>2, TruthAssumption, OneMore
  <2>4. Leaf4Bytes(raw) = Capacity(c)
    BY <2>3 DEF Leaf4Bytes, Capacity
  <2> QED BY <2>1, <2>3, <2>4 DEF Tells
<1>2. CASE r \in Index(h)
  <2>1. PICK k \in 0 .. 15 :
          /\ h.index[k] # Gap
          /\ r = [level |-> h.index[k].level, type |-> h.index[k].type,
                  bytes |-> ParseSize(h.index[k].size),
                  line |-> h.index[k].line]
    BY <1>2 DEF Index
  <2> DEFINE e == h.index[k]
  <2>2. PICK c \in h.reported : WritesIndex(e, c)
    BY <2>1, TruthAssumption DEF Entries
  <2>3. e.size.value \in Nat /\ e.size.unit \in {"K", "M", "none"}
    BY <2>1, DetectAssumption
  <2>4. ParseSize(e.size) = e.size.value * UnitBytes[e.size.unit]
    BY <2>3, ParsedBytes
  <2> QED BY <2>1, <2>2, <2>4 DEF WritesIndex, Tells
<1> QED BY <1>1, <1>2 DEF Found

\* ... and all of it: nothing that a source says is lost.
LEMMA ReportedIsFound ==
    ASSUME NEW h \in Hosts, NEW c \in h.reported
    PROVE  \E r \in Found(h) : Tells(r, c)
  BY TruthAssumption, Leaf4Tells, IndexTells

\* The true capacities of a slot's caches.
TrueBytes(h, slot) ==
    {Capacity(c) : c \in {d \in h.reported : <<d.level, d.type>> \in slot}}

LEMMA SlotIsTrue ==
    ASSUME NEW h \in Hosts, NEW slot
    PROVE  InSlot(h, slot) = TrueBytes(h, slot)
<1> DEFINE In == {q \in Found(h) : <<q.level, q.type>> \in slot}
           Out == {d \in h.reported : <<d.level, d.type>> \in slot}
<1>1. ASSUME NEW r \in In PROVE \E c \in Out : Capacity(c) = r.bytes
  BY FoundIsReported DEF Tells
<1>2. ASSUME NEW c \in Out PROVE \E r \in In : r.bytes = Capacity(c)
  BY ReportedIsFound DEF Tells
<1> HIDE DEF In, Out
<1>3. {r.bytes : r \in In} = {Capacity(c) : c \in Out}
  BY <1>1, <1>2
<1> QED BY <1>3 DEF In, Out, InSlot, TrueBytes

LEMMA LineIsTrue ==
    ASSUME NEW h \in Hosts
    PROVE  {r.line : r \in Found(h)} = {c.line : c \in h.reported}
<1>1. ASSUME NEW r \in Found(h) PROVE \E c \in h.reported : c.line = r.line
  BY FoundIsReported DEF Tells
<1>2. ASSUME NEW c \in h.reported PROVE \E r \in Found(h) : r.line = c.line
  BY ReportedIsFound DEF Tells
<1> QED BY <1>1, <1>2

\* Both detectors find the capacities and the line of the caches that some
\* source reports, for every machine whose sources tell the truth, whichever of
\* them are silent.
THEOREM TruthIsDetected == TunedSafeSpec => []DetectionIsTrue
<1>1. Detected => DetectionIsTrue
  <2> SUFFICES ASSUME Detected PROVE DetectionIsTrue
    OBVIOUS
  <2>1. host \in Hosts /\ info = CachePlan(host) /\ cpu = CpuInfo(host)
    BY DEF Detected
  <2> DEFINE true(slot) == Largest(TrueBytes(host, slot))
             line == Largest({c.line : c \in host.reported})
  <2>2. /\ info.cpu.l1_data_bytes = true(Slots.l1d)
        /\ info.cpu.l1_instruction_bytes = true(Slots.l1i)
        /\ info.cpu.l2_bytes = true(Slots.l2)
        /\ info.cpu.l3_bytes = true(Slots.l3)
    <3>1. \A slot : LargestIn(Found(host), slot) = true(slot)
      BY <2>1, SlotIsTrue DEF LargestIn, InSlot
    <3> QED BY <2>1, <3>1 DEF CachePlan, CpuCacheInfo, Found
  <2>3. info.cache_line_bytes = line
    <3>1. Largest({r.line : r \in Found(host)}) = line
      BY <2>1, LineIsTrue
    <3> QED BY <2>1, <3>1 DEF CachePlan, CpuCacheInfo, Found
  <2>4. /\ cpu.l1d = info.cpu.l1_data_bytes
        /\ cpu.l1i = info.cpu.l1_instruction_bytes
        /\ cpu.l2 = info.cpu.l2_bytes /\ cpu.l3 = info.cpu.l3_bytes
        /\ cpu.cache_line = info.cache_line_bytes
    BY <2>1, DetectorsAgree
  <2>5. host.linux => info.cpu.logical_cpus = cpu.logical_cpus
    BY <2>1 DEF CachePlan, CpuCacheInfo, CpuInfo
  <2> QED BY <2>2, <2>3, <2>4, <2>5 DEF DetectionIsTrue, TrueBytes
<1>2. TunedInit => Detected
  BY DEF TunedInit
<1>3. Detected /\ [TunedNext]_tunedVars => Detected'
  BY DEF Detected, TunedNext, TunedCall, tunedVars, detectVars
<1> QED BY <1>1, <1>2, <1>3, PTL DEF TunedSafeSpec
-----------------------------------------------------------------------------
\* A behaviour of the benchmark is one of the matrix products on the machines
\* that detection may report: what norm asks for (src/matmul.cpp:31) is the
\* plan of the one machine the program runs on.
THEOREM Implementation == TunedSafeSpec => SafeSpec
<1> DEFINE Here == host \in Hosts
<1>1. TunedInit => Init /\ Here
  BY DEF TunedInit, Detected
<1>2. Here /\ [TunedNext]_tunedVars => [Next]_vars /\ Here'
  <2> SUFFICES ASSUME Here, [TunedNext]_tunedVars
               PROVE  [Next]_vars /\ Here'
    OBVIOUS
  <2>1. CASE \E s \in Shapes, c \in Configs : TunedCall(s, c)
    <3>1. Reported(host) \in Machines
      BY TunedAssumption
    <3>2. PICK s \in Shapes, c \in Configs : TunedCall(s, c)
      BY <2>1
    <3>3. Call(s, c, Reported(host)) /\ host' = host
      BY <3>2 DEF TunedCall, detectVars
    <3> QED BY <3>1, <3>3 DEF Next
  <2>2. CASE (Proceed \/ Work) /\ UNCHANGED detectVars
    BY <2>2 DEF Next, detectVars
  <2>3. CASE UNCHANGED tunedVars
    BY <2>3 DEF tunedVars, detectVars
  <2> QED BY <2>1, <2>2, <2>3 DEF TunedNext
<1> QED BY <1>1, <1>2, PTL DEF TunedSafeSpec, SafeSpec

\* Whatever the sources of a machine say or leave out, the threads and the
\* tiles that it gets compute the whole product, each sum in ascending order.
THEOREM TunedProduct ==
    TunedSafeSpec => [](ProductAtReturn /\ AscendingSums)
BY Implementation, ProductIsComplete, SumsAscend, PTL

\* Tiles that were tuned for the detected L1 cache fit in it.
THEOREM DetectedTilesFit == TunedSafeSpec => []TunedTilesFit
BY Implementation, TuningFits, PTL
=============================================================================
