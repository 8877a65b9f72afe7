------------------------------ MODULE CacheDetect ------------------------------
(***************************************************************************)
(* What the program learns about its machine: CpuCacheInfo::detect and     *)
(* CachePlan::detect (src/cache.cpp), which tune the kernels, and          *)
(* CpuInfo::detect (src/cpu.cpp), which the status page and the benchmark  *)
(* show.  They were written twice and read the same sources: the subleaves *)
(* of CPUID leaf 4, Linux's directory of cpu0's caches, /proc/cpuinfo.     *)
(*                                                                         *)
(* Data.  CPUID stores every field of a cache's geometry minus one; the    *)
(* directory has its capacity as a number of K or M.  A source may be      *)
(* silent: an old processor, one that leaves leaf 4 empty, no directory or *)
(* a gap in it, an entry without a line size; the two files are read on    *)
(* Linux only.  The name of the processor is left out.                     *)
(***************************************************************************)
EXTENDS Integers, Sequences, FiniteSets, FiniteSetsExt

CONSTANTS Hosts,        \* the machines, with what their sources say
          Gap           \* an entry of the directory that lacks a file

VARIABLES host,         \* the machine the program runs on
          info,         \* its CachePlan, with the CpuCacheInfo
          cpu           \* its CpuInfo

detectVars == <<host, info, cpu>>

Largest(S) == Max({0} \cup S)
Kinds == {"Data", "Instruction", "Unified"}

\* What CPUID and the kernel promise: a cache is of one of three kinds, its line
\* and capacity are numbers, and only Linux has the directory and the file.
ASSUME DetectAssumption == \A h \in Hosts :
    /\ ~h.linux => h.cpuinfo = <<>> /\ \A k \in 0 .. 15 : h.index[k] = Gap
    /\ \A k \in 0 .. 15 : h.index[k] # Gap => h.index[k] \in
          [level : Nat, type : Kinds, line : Nat,
           size : [value : Nat, unit : {"K", "M", "none"}]]
    /\ \A k \in 1 .. 32 :
          (\A q \in 1 .. k : h.leaf4[q].type # "Null") =>
              h.leaf4[k].type \in Kinds

Capacity(c) == c.line * c.parts * c.ways * c.sets

\* How the sources write a cache down: CPUID every field of its geometry minus
\* one, the directory its capacity in bytes, K or M.
UnitBytes == [u \in {"K", "M", "none"} |->
                 CASE u = "K" -> 1024 [] u = "M" -> 1024 * 1024 [] u = "none" -> 1]
WritesLeaf4(r, c) ==
    /\ r.level = c.level /\ r.type = c.type /\ r.line = c.line - 1
    /\ r.parts = c.parts - 1 /\ r.ways = c.ways - 1 /\ r.sets = c.sets - 1
WritesIndex(e, c) ==
    /\ e.level = c.level /\ e.type = c.type /\ e.line = c.line
    /\ e.size.value * UnitBytes[e.size.unit] = Capacity(c)

\* The subleaves of CPUID leaf 4: those before the first without a type.
Listed(h) == {k \in 1 .. 32 : /\ h.maxleaf >= 4
                              /\ \A q \in 1 .. k : h.leaf4[q].type # "Null"}
Entries(h) == {k \in 0 .. 15 : h.index[k] # Gap}

\* The sources tell the truth: what they list are caches of the machine, and
\* those are the caches that count as reported.
ASSUME TruthAssumption == \A h \in Hosts :
    /\ \A c \in h.reported : /\ c.line \in Nat /\ c.parts \in Nat
                             /\ c.ways \in Nat /\ c.sets \in Nat
    /\ \A k \in Listed(h) : \E c \in h.reported : WritesLeaf4(h.leaf4[k], c)
    /\ \A k \in Entries(h) : \E c \in h.reported : WritesIndex(h.index[k], c)
    /\ \A c \in h.reported :
          \/ \E k \in Listed(h) : WritesLeaf4(h.leaf4[k], c)
          \/ \E k \in Entries(h) : WritesIndex(h.index[k], c)
-----------------------------------------------------------------------------
(* src/cache.cpp *)

ParseSize(s) == CASE s.unit = "K" -> s.value * 1024
                  [] s.unit = "M" -> s.value * 1024 * 1024
                  [] OTHER        -> s.value

\* detect_x86: the subleaves before the first one without a type.
Leaf4Bytes_SetsRaw(r) == (r.line + 1) * (r.parts + 1) * (r.ways + 1) * r.sets
Leaf4Bytes(r) ==
    (r.line + 1) * (r.parts + 1) * (r.ways + 1) * (r.sets + 1)

Subleaves(h) == {k \in 1 .. 32 : /\ h.maxleaf >= 4
                                 /\ \A q \in 1 .. k : h.leaf4[q].type # "Null"}
Leaf4(h) == {[level |-> h.leaf4[k].level, type |-> h.leaf4[k].type,
              bytes |-> Leaf4Bytes(h.leaf4[k]), line |-> h.leaf4[k].line + 1] :
             k \in Subleaves(h)}

\* detect_linux: an entry that lacks a file is skipped, not the end.
Index(h) == {[level |-> e.level, type |-> e.type,
              bytes |-> ParseSize(e.size), line |-> e.line] :
             e \in {h.index[k] : k \in 0 .. 15} \ {Gap}}

\* Which caches count for which capacity.
Slots == [l1d |-> {<<1, "Data">>}, l1i |-> {<<1, "Instruction">>},
          l2 |-> {2} \X Kinds, l3 |-> {3} \X Kinds]

LargestIn(readings, slot) ==
    Largest({r.bytes : r \in {q \in readings : <<q.level, q.type>> \in slot}})

CpuCacheInfo(h) ==
    LET found == Leaf4(h) \cup Index(h)
    IN [l1_data_bytes |-> LargestIn(found, Slots.l1d),
        l1_instruction_bytes |-> LargestIn(found, Slots.l1i),
        l2_bytes |-> LargestIn(found, Slots.l2),
        l3_bytes |-> LargestIn(found, Slots.l3),
        line_bytes |-> Largest({r.line : r \in found}),
        logical_cpus |-> Largest({1, h.hw})]

\* Half of each cache is for the program; zero stays zero.
CachePlan(h) == LET c == CpuCacheInfo(h)
                IN [cpu |-> c, cache_line_bytes |-> c.line_bytes,
                    l1_tile_bytes |-> c.l1_data_bytes \div 2,
                    l2_window_bytes |-> c.l2_bytes \div 2,
                    l3_window_bytes |-> c.l3_bytes \div 2]
-----------------------------------------------------------------------------
(* src/cpu.cpp, the same in other words *)

CpuParseSize(s) == CASE s.unit = "K" -> s.value * 1024
                     [] s.unit = "M" -> s.value * 1024 * 1024
                     [] OTHER        -> s.value

\* The chain of else-ifs; "" for a cache that nobody asks for.
CpuSlot(level, type) == CASE level = 1 /\ type = "Data"        -> "l1d"
                          [] level = 1 /\ type = "Instruction" -> "l1i"
                          [] level = 2 -> "l2"
                          [] level = 3 -> "l3"
                          [] OTHER     -> ""

CpuLeaf4(h) ==
    LET listed == {k \in 1 .. 32 : \A q \in 1 .. k : h.leaf4[q].type # "Null"}
        read(r) == [slot |-> CpuSlot(r.level, r.type), line |-> r.line + 1,
                    bytes |-> (r.line + 1) * (r.parts + 1) * (r.ways + 1)
                              * (r.sets + 1)]
    IN IF h.maxleaf >= 4 THEN {read(h.leaf4[k]) : k \in listed} ELSE {}

CpuIndex(h) == {[slot |-> CpuSlot(e.level, e.type), line |-> e.line,
                 bytes |-> CpuParseSize(e.size)] :
                e \in {h.index[k] : k \in 0 .. 15} \ {Gap}}

\* Bits of leaves 1 and 7.
Features(h) == {f \in {"avx", "f16c", "avx2", "fma"} :
                   CASE f = "avx"  -> 28 \in h.ecx1
                     [] f = "f16c" -> 29 \in h.ecx1
                     [] f = "fma"  -> 12 \in h.ecx1
                     [] f = "avx2" -> h.maxleaf >= 7 /\ 5 \in h.ebx7}

\* A block of /proc/cpuinfo counts if its package and core differ from those of
\* the block before; blocks without them are passed over.
PhysicalCount(h) ==
    LET key == SelectSeq(h.cpuinfo, LAMBDA b : b # <<>>)
    IN Cardinality({k \in DOMAIN key : k = 1 \/ key[k] # key[k - 1]})

CpuInfo(h) ==
    LET found   == CpuLeaf4(h) \cup CpuIndex(h)
        at(s)   == Largest({r.bytes : r \in {q \in found : q.slot = s}})
        logical == IF h.linux THEN Largest({1, h.hw}) ELSE 1
        count   == PhysicalCount(h)
    IN [l1d |-> at("l1d"), l1i |-> at("l1i"), l2 |-> at("l2"), l3 |-> at("l3"),
        cache_line |-> Largest({r.line : r \in found}),
        logical_cpus |-> logical,
        physical_cores |-> IF count > 0 THEN count ELSE Min({2, logical}),
        features |-> Features(h)]
-----------------------------------------------------------------------------
\* A detection runs in one thread and changes nothing but its result.
Detected == host \in Hosts /\ info = CachePlan(host) /\ cpu = CpuInfo(host)
-----------------------------------------------------------------------------
(* Properties *)

\* "LAICompute reads CPU cache information from x86 CPUID and, on Linux,
\* /sys/devices/system/cpu/.../cache" (README.md:31): both detectors find
\* exactly the capacities and the line of the caches that some source reports,
\* whichever the source is, and nothing where all are silent.
DetectionIsTrue ==
    LET true(slot) == Largest({Capacity(c) : c \in
                          {d \in host.reported : <<d.level, d.type>> \in slot}})
        line == Largest({c.line : c \in host.reported})
    IN /\ info.cpu.l1_data_bytes = true(Slots.l1d) /\ cpu.l1d = true(Slots.l1d)
       /\ info.cpu.l1_instruction_bytes = true(Slots.l1i)
       /\ cpu.l1i = true(Slots.l1i)
       /\ info.cpu.l2_bytes = true(Slots.l2) /\ cpu.l2 = true(Slots.l2)
       /\ info.cpu.l3_bytes = true(Slots.l3) /\ cpu.l3 = true(Slots.l3)
       /\ info.cache_line_bytes = line /\ cpu.cache_line = line
       /\ host.linux => info.cpu.logical_cpus = cpu.logical_cpus

\* "Count physical package/core pairs where Linux exposes them"
\* (src/cpu.cpp:48): the count is the number of different pairs.
PhysicalCoresCounted ==
    LET pairs == {host.cpuinfo[k] : k \in DOMAIN host.cpuinfo} \ {<<>>}
    IN pairs # {} => cpu.physical_cores = Cardinality(pairs)
=============================================================================
