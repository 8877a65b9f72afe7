------------------------------- MODULE Attention -------------------------------
(***************************************************************************)
(* The shape of the network (src/inference_v2.cpp): which metadata         *)
(* LlamaRuntime::load accepts, and what rope and the attention of step do  *)
(* with the vectors of that shape.  A query has heads * head_dim elements, *)
(* a key and a value kv_heads * head_dim; the heads attend in parallel, as *)
(* jobs of the worker pool, and write to one vector.                       *)
(*                                                                         *)
(* Data.  A vector counts how often each of its elements was changed; the  *)
(* floats are left out.  Every cached position is read alike: one stands   *)
(* for all.                                                                *)
(***************************************************************************)
EXTENDS Integers, FiniteSets

CONSTANT Metas          \* the metadata of models, by key

VARIABLES phase,        \* "new", "q", "k", "attend" or "refused"
          arch,         \* hidden_, layers_, heads_, kv_heads_, ffn_, rope_dim_
          head,         \* the next head that rope turns
          qvec, kvec,   \* the vectors q and k
          attended,     \* the heads that are done
          attn,         \* the vector attn
          seen          \* elements of a position of lc.k that were read

attnVars == <<phase, arch, head, qvec, kvec, attended, attn, seen>>

Keys == {"embedding_length", "block_count", "head_count", "head_count_kv",
         "feed_forward_length", "rope_dimension_count"}

\* Metadata are numbers, any of which may be missing or zero.
ASSUME MetaAssumption == \A m \in Metas : \A key \in DOMAIN m \cap Keys :
    m[key] \in Nat
-----------------------------------------------------------------------------
(* load *)

Get(m, key, fallback) == IF key \in DOMAIN m THEN m[key] ELSE fallback

Arch(m) ==
    LET hidden == Get(m, "embedding_length", 0)
        heads  == Get(m, "head_count", 0)
    IN [hidden |-> hidden, heads |-> heads,
        layers |-> Get(m, "block_count", 0),
        kv |-> Get(m, "head_count_kv", heads),
        ffn |-> Get(m, "feed_forward_length", 0),
        rope |-> Get(m, "rope_dimension_count",
                     IF heads = 0 THEN hidden ELSE hidden \div heads)]

Divides_AtMost(a) == a.hidden % a.heads = 0 /\ a.kv <= a.heads
Divides(a) == a.hidden % a.heads = 0 /\ a.heads % a.kv = 0

HeadDim(a) == a.hidden \div a.heads
Stride(a) == a.kv * HeadDim(a)

Accepted(a) == /\ a.hidden # 0 /\ a.layers # 0 /\ a.heads # 0
               /\ a.kv # 0 /\ a.ffn # 0 /\ Divides(a)
               /\ a.rope # 0 /\ a.rope <= HeadDim(a) /\ a.rope % 2 = 0

Zeros(len) == [e \in 0 .. len - 1 |-> 0]

AttnInit == /\ phase = "new" /\ arch = <<>> /\ head = 0
            /\ qvec = Zeros(0) /\ kvec = Zeros(0)
            /\ attended = {} /\ attn = Zeros(0) /\ seen = {}

LoadArch(m) == /\ phase = "new" /\ Accepted(Arch(m))
               /\ phase' = "q" /\ arch' = Arch(m)
               /\ qvec' = Zeros(Arch(m).hidden)
               /\ kvec' = Zeros(Stride(Arch(m)))
               /\ attn' = Zeros(Arch(m).hidden)
               /\ UNCHANGED <<head, attended, seen>>

RefuseArch(m) == /\ phase = "new" /\ ~Accepted(Arch(m))
                 /\ phase' = "refused"
                 /\ UNCHANGED <<arch, head, qvec, kvec, attended, attn, seen>>
-----------------------------------------------------------------------------
(* rope *)

\* The vector after the elements of S were changed once more.
Changed(vec, S) == [e \in DOMAIN vec \cup S |->
                       (IF e \in DOMAIN vec THEN vec[e] ELSE 0)
                       + (IF e \in S THEN 1 ELSE 0)]

\* The pairs of head h, two by two up to rope_dim.
Turned(h) == LET b == h * HeadDim(arch)
             IN UNION {{b + e, b + e + 1} :
                       e \in {x \in 0 .. arch.rope - 1 : x % 2 = 0}}

RopeQ == /\ phase = "q"
         /\ qvec' = Changed(qvec, Turned(head))
         /\ head' = (IF head + 1 = arch.heads THEN 0 ELSE head + 1)
         /\ phase' = (IF head + 1 = arch.heads THEN "k" ELSE "q")
         /\ UNCHANGED <<arch, kvec, attended, attn, seen>>

RopeK == /\ phase = "k"
         /\ kvec' = Changed(kvec, Turned(head))
         /\ head' = (IF head + 1 = arch.kv THEN 0 ELSE head + 1)
         /\ phase' = (IF head + 1 = arch.kv THEN "attend" ELSE "k")
         /\ UNCHANGED <<arch, qvec, attended, attn, seen>>
-----------------------------------------------------------------------------
(* The attention of step: one job per head, in any order *)

\* The keys and values that head h shares with the others of its group.
KvHead(h) == h \div (arch.heads \div arch.kv)

Part(h) == {h * HeadDim(arch) + d : d \in 0 .. HeadDim(arch) - 1}

Attend(h) == /\ phase = "attend" /\ h \notin attended
             /\ attended' = attended \cup {h}
             /\ attn' = Changed(attn, Part(h))
             /\ seen' = seen \cup Part(KvHead(h))
             /\ UNCHANGED <<phase, arch, head, qvec, kvec>>

AttnNext == \/ \E m \in Metas : LoadArch(m) \/ RefuseArch(m)
            \/ RopeQ \/ RopeK
            \/ \E h \in (IF phase = "attend" THEN 0 .. arch.heads - 1 ELSE {}) :
                  Attend(h)

AttnSpec == AttnInit /\ [][AttnNext]_attnVars
-----------------------------------------------------------------------------
\* With every shape that load accepts, no loop leaves its vector and no element
\* is turned or written twice: the jobs of the heads share none, and once all
\* of them are done every element of attn is written and every key was read.
HeadsPartition == phase \notin {"new", "refused"} =>
    /\ DOMAIN qvec = 0 .. arch.hidden - 1 /\ DOMAIN attn = 0 .. arch.hidden - 1
    /\ DOMAIN kvec = 0 .. Stride(arch) - 1 /\ seen \subseteq DOMAIN kvec
    /\ \A e \in DOMAIN qvec : qvec[e] <= 1 /\ attn[e] <= 1
    /\ \A e \in DOMAIN kvec : kvec[e] <= 1
    /\ attended = 0 .. arch.heads - 1 =>
          seen = DOMAIN kvec /\ \A e \in DOMAIN attn : attn[e] = 1
=============================================================================
