------------------------------- MODULE MCMatmul -------------------------------
(* Shapes that the tiles do not divide, a row, a column and an empty matrix;  *)
(* tiles of one to three, asked for or tuned; one to three threads, more than *)
(* there are rows, or as many as the machine has.  The machines: both sources *)
(* with siblings side by side, CPUID empty, CPUID alone with and without      *)
(* Linux, an ARM with gaps, and one that says nothing.                        *)
EXTENDS TunedMatmul

Shape(m, n, k) == [m |-> m, n |-> n, k |-> k]
Config(m, n, k, t) == [tile_m |-> m, tile_n |-> n, tile_k |-> k, threads |-> t]

MCShapes == {Shape(5, 2, 3), Shape(3, 3, 2), Shape(1, 3, 5), Shape(2, 1, 1),
             Shape(0, 2, 2), Shape(2, 2, 0)}
MCConfigs == {Config(2, 2, 2, 2), Config(1, 3, 1, 3), Config(0, 2, 2, 3),
              Config(2, 1, 0, 0), Config(0, 0, 0, 0)}
-----------------------------------------------------------------------------
Cache(level, type, line, ways, sets) ==
    [level |-> level, type |-> type, line |-> line, parts |-> 1,
     ways |-> ways, sets |-> sets]

\* How CPUID and the directory write a cache down.
InLeaf4(c) == [c EXCEPT !.line = @ - 1, !.parts = @ - 1, !.ways = @ - 1,
                        !.sets = @ - 1]
InIndex(c) ==
    LET b == Capacity(c)
    IN [level |-> c.level, type |-> c.type, line |-> c.line,
        size |-> IF b % (1024 * 1024) = 0
                 THEN [value |-> b \div (1024 * 1024), unit |-> "M"]
                 ELSE [value |-> b \div 1024, unit |-> "K"]]

Leaf4List(cs) == [k \in 1 .. Len(cs) + 1 |->
                     IF k > Len(cs) THEN [type |-> "Null"] ELSE InLeaf4(cs[k])]
IndexList(cs) == [k \in 0 .. 15 |-> IF k < Len(cs) /\ cs[k + 1] # Gap
                                    THEN InIndex(cs[k + 1]) ELSE Gap]

Host(maxleaf, cpuid, sysfs, cores, hw, linux) ==
    [maxleaf |-> maxleaf, leaf4 |-> Leaf4List(cpuid), index |-> IndexList(sysfs),
     cpuinfo |-> cores, hw |-> hw, linux |-> linux,
     ecx1 |-> IF maxleaf > 0 THEN {12, 28, 29} ELSE {}, ebx7 |-> {5},
     reported |-> {cpuid[k] : k \in {q \in DOMAIN cpuid : maxleaf >= 4}}
                  \cup ({sysfs[k] : k \in DOMAIN sysfs} \ {Gap})]

L1d == Cache(1, "Data", 64, 8, 64)
L1i == Cache(1, "Instruction", 64, 8, 128)
L2  == Cache(2, "Unified", 64, 16, 1024)
L3  == Cache(3, "Unified", 128, 12, 4096)
Siblings == <<<<0, 0>>, <<0, 0>>, <<>>, <<0, 1>>, <<0, 1>>, <<1, 0>>>>

MCHosts ==
    {Host(7, <<L1d, L1i, L2>>, <<L1d, L1i, L2, L3>>, Siblings, 3, TRUE),
     Host(5, <<>>, <<Cache(1, "Data", 64, 4, 256), L1i, L2>>, <<>>, 2, TRUE),
     Host(4, <<Cache(1, "Data", 32, 4, 24), Cache(1, "Unified", 64, 4, 4), L2,
               Cache(4, "Unified", 64, 8, 8)>>, <<>>, <<>>, 0, TRUE),
     Host(3, <<L1d>>, <<>>, <<>>, 2, FALSE),
     Host(0, <<>>, <<Cache(1, "Data", 16, 2, 32), Gap, L2>>, <<<<>>>>, 1, TRUE),
     Host(6, <<Cache(1, "Data", 64, 2, 4), L1i>>, <<>>, <<>>, 3, FALSE)}

MCMachines == {Reported(h) : h \in MCHosts}

\* Linux lists the processors by number; the siblings of a core are often
\* half of the list apart.
MCInterleaved ==
    {Host(7, <<L1d>>, <<L1d>>, <<<<0, 0>>, <<0, 1>>, <<0, 0>>, <<0, 1>>>>, 4,
          TRUE)}
MCInterleavedMachines == {Reported(h) : h \in MCInterleaved}
MCProduct == {Shape(5, 2, 3)}
=============================================================================
