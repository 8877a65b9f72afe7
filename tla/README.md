# A TLA+ model of LAICompute

LAICompute runs Llama-architecture language models on the CPU: it loads a GGUF
file, multiplies matrices with a cache-aware kernel and a thread pool, and
serves chats over a small HTTP API. This directory models the parts of it where
threads, partial failures, or index arithmetic decide whether it is correct.
TLC checks the models on small instances and TLAPS proves the central
invariants for every value of their constants.

    tlc -config MCWorkerPool.cfg MCWorkerPool      # a run
    tlapm WorkerPoolProofs.tla                     # a proof

`PROJECT.json` lists the components, the runs, the line range behind every
definition, the hazards and the theorems.

## 1. Inventory

Paths are relative to `src/` of the repository; `src/x.cpp` below is
`src/src/x.cpp` in `PROJECT.json`. Several sources put a whole class on one line,
so a mapped line often holds many statements.

### Runtime

**Worker pool** (class `WorkerPool`, `src/inference_v2.cpp:18`).
State: `jobs_`, `active_`, `generation_`, `fn_`, `stop_` under `mu_`; the atomic
`next_`; condition variables `cv_` and `done_`; the threads.
Operations: `run(n, f)`, the loop of a worker, the destructor.
Every parallel loop of the network goes through it, with closures that refer to
the caller's stack.
Hard: two condition variables, a notification after the unlock, an index counter
that is reset while a late worker may still claim from it.
Correct if: each index is executed once between call and return; no job outlives
the call; nobody sleeps through a generation; the destructor ends.

**Llama runtime** (`LlamaRuntime`, `src/inference_v2.cpp:24-36`).
State: `stop_requested_`, `pos_`, one key/value cache per layer, the sampling
parameters, the model and tokenizer that `load` read.
Operations: `load`, `generate_ids` (and `generate` on top of it), `step`,
`request_stop` from any thread.
Hard: a stop is looked at between and inside the parallel stages, where it
leaves rows uncomputed; exceptions leave caches of different lengths; the
context fills up.
Correct if: nothing uncomputed or left over reaches a cache or the sampler;
attention stays inside the caches and the heads apart, for every shape that
`load` accepts; the token stream ends and a stop cuts it soon.

**Sampler** (`sample`, `src/inference_v2.cpp:32`): penalties, top-k, top-p, a
random choice or the arg-max. A function of the logits, of recent tokens and of a
seed. Hard: ties, the token that reaches `top_p` exactly, negative logits.
Correct if: a token is drawn only from the likeliest `top_k` and the smallest
part of them that has `top_p`.

**Tokenizer** (`src/tokenizer.cpp`): byte-level BPE over the GGUF vocabulary,
special tokens, decoding. No shared state. Hard: `encode` joins one pair at a
time and erases from the sequence it walks; pieces end at special tokens.
Correct if: the ids are those of joining by rank, and decode to the text.

**GGUF loader** (`src/gguf.cpp`): header, metadata, tensor table, and the
decoding of elements. Correct if every read stays inside the data that was
loaded and two readers of a format agree.

**Quantized formats, half precision, dot products** (`src/quant_v2.cpp`,
`src/half.cpp`, `src/compute_dot.cpp`). Pure functions, written twice in two
places: `quant_v2::value` and `GgufTensor::value`, `Half` and the decoder in
`dot_f16`. Hard: bit positions, rounding that carries, subnormals.
Correct if: blocks are taken apart without overlap or gap, the copies agree, and
conversions round-trip and round to nearest.

**Matrix multiplication** (`src/matmul.cpp`), with **prefetching**
(`src/prefetch.cpp`, `src/pipeline.cpp`); **tensors** and **engine** are
containers and a facade. State during a call: the threads, their bands of rows,
C. Correct if: bands partition the rows, tiles stay inside the matrices, and
neither tiles nor threads change the order in which a cell adds its products.

**Cache plan** (`src/cache.cpp`) and **CPU detection** (`src/cpu.cpp`): two
detectors, written separately, of the same machine. The first tunes the kernels,
the second is shown by status and the benchmark. Hard: each source (CPUID leaf 4,
Linux's cache directory, `/proc/cpuinfo`) may be silent or incomplete, and the
detectors read and scale it in code of their own. Correct if: they agree, and
with what the machine has.

### Server

**API server** (`ApiServer::Impl`, `src/server_runtime.cpp:24-41`). One detached
thread per connection; each handles one request and closes.
State: `rt` (the loaded runtime) and `loaded` (its file name) under `mu`; the
atomics `generating`, `tokens`, `running`, and the counters shown by status.
Operations: chat, chat/stream, stop, load, unload, models, upload, status, the
page; `run` (the accept loop), `stop`, the destructor.
Interaction: a chat takes a raw pointer to the runtime and calls `generate_ids`
without `mu`; `generating` is what protects the pointer; stop raises the flag of
the runtime from another thread; load replaces the runtime.
Hard: all of it is concurrent; replies are written while `mu` is held; streams
are written from inside the generation; flags outlive requests.
State of the other handlers: the files of the model directory, which upload
rewrites and load reads without a lock; the sample of `/proc/stat` under `cpu_mu`.
Hard: a body arrives in pieces; two uploads, or an upload and a load, share a
file; the disk may be full; status requests may overtake one another.
Correct if: one request generates at a time, its runtime is the loaded one and
alive, no runtime leaks or is destroyed twice, a stop takes effect and is
reported truthfully, every request whose client reads is answered, and a load
installs only a model that is as long as its header announces, and one client's
unless uploads interfered.

**JSON and HTTP text** (`src/server_runtime.cpp:8-23,30`): scanning and
formatting. **Web page** (`web/index_v2.html`): a client of the API.
**Command line, benchmark** (`tools/`, `bench/`): sequential drivers.
`src/inference.cpp` and `src/server.cpp` are not in `CMakeLists.txt` any more.

## 2. Modules

    ParallelFor <--refined by-- WorkerPool    WorkerPoolProofs    MCWorkerPool
    ModelSession <-refined by-- ApiServer     ApiServerProofs     MCApiServer, MCApiServerLive
    Generation <---refined by-- LlamaRuntime  LlamaRuntimeProofs  MCLlamaRuntime
                                ModelStore    ModelStoreProofs    MCModelStore
    Matmul, CacheDetect <-composed by-- TunedMatmul
                                MatmulProofs        MCMatmul
    Dequant, Half, DotKernels   RowProofs           MCFormats
    Tokenizer, Sampler          TokenProofs         MCFormats
    Attention                   AttentionProofs     MCFormats

The pieces rest on each other. `LlamaRuntime` treats a parallel stage as one
action because `WorkerPool` implements `ParallelFor`. `WorkerPool` has one caller
at a time because the server lets one request generate at a time
(`ExclusiveGeneration`). `LlamaRuntime` implements `Generation`, and so does the
call of every connection of `ApiServer`, whose handlers hold the phases of
`generate_ids` (`EachImplementsGeneration`): what the server assumes of a call is
what the runtime delivers. Its stages are taken apart in `Attention` (the heads),
`DotKernels` (the rows), `Dequant` and `Half` (the elements). `TunedMatmul` feeds
what `CacheDetect` finds to `Matmul`.

### WorkerPool

One action per critical section of `mu_`, per `fetch_add`, per call of a job, and
for the `notify_all` that `run` makes after it has unlocked. A critical section
blocks only in a wait, which releases `mu_`, so `mu_` is no variable. `wpc` and
`cpc` are the program counters of the workers and of the caller; `"top"` is a
worker about to test the predicate, `"wait"` one blocked in `cv_.wait`. Both
condition variables may wake spuriously. `ran` counts the executions of each job
of the latest run. The inline path (no job, fewer than two per worker) is
included, and so is destruction. `MaxCalls` bounds the calls of `run`.

`ParallelFor` is what a caller of `run` sees: `running` and `ran`. The refinement
maps `running` to the caller being between call and return.

### ApiServer

`Conns` are connections with a request each; `Runtimes` are the identities of
runtime objects, whose life is in `life`. A critical section without I/O is one
action. load, unload and a refused chat write to their client while they hold
`mu`, so there `mu` is held over several actions. `generating` and the stop flags
(`flagged`) are read and written without the lock, one action each.

| request | actions |
|---|---|
| chat, chat/stream | BeginGeneration or RefuseGeneration, ExplainRefusal; SendHeader; ResetStop; Compute, Abort, Fail (a network step); Complete, Break, Sample; Callback, Emitted; ReadStopped, FinishGeneration, Answer, Reply |
| load | LoadRuntime or LoadFails; InstallRefused, or Install, Name; Reply |
| unload | UnloadRefused, or Unload, Name; Reply |
| stop | FindRuntime; RequestStop or RequestStopDangling; Reply |

`RequestStopDangling` is a stop whose runtime was destroyed between the read of
the pointer and its use: it writes to nothing that matters, or to whatever
runtime lives at that address by now. `before` and `late` are history: the stops
that had signalled a runtime when the last generation began; the tokens delivered
while the flag was up. `MaxTokens` bounds a generation, as the code's
`min(max_tokens, 2048)` does.

What a stop is good for is decided when it stores the flag, not when the request
arrives. A flag that is up when a generation begins is cleared and not reported
(`NoSpuriousStop`). A stop that has read its pointer in an earlier generation, or
while none ran, and stores after the reset of the next one, ends that one and is
reported as its stop: the code does not tell such a stop from one that was meant,
and neither does the property.

`ModelSession` is the abstract session: a model is installed and removed only
while nobody uses it; one user at a time. For each connection there is also a
mapping to `Generation`: its phase, its tokens, and `stop` once the flag of the
runtime it uses is up.

### LlamaRuntime

A cache entry is the token it was computed from; logits are the token sequence
they depend on; `Torn` is what comes out of a stage whose jobs saw the stop flag
and skipped their rows. Per layer there are the projection stage, the append to
the cache, and the remainder; then the output head. Each stage is followed by the
code's check of the flag. A stop may be raised between any two actions, and a
stage may or may not have been torn by it. A missing tensor, a full context and
an empty prompt end a call with an error and leave the caches as they are.

`Generation` is the contract with the server: at most `max` tokens, an end, and
after a stop at most the token in the callback.

### Attention, Sampler

`Attention` has the metadata checks of `load` and, for the shape they accept,
which elements of which vector rope and the parallel heads touch: a vector counts
how often each of its elements was changed. The heads are jobs of the worker pool
and run in any order. All cached positions are read alike; one stands for them.

`Sampler` is `sample` on integer logits in a unit that penalties divide. The
exponential, `Exp`, is a table over the distance from the highest logit (`top`)
that never rises and underflows below `Depth` (`ExpAssumption`); `top_p` is in
percent. What `std::nth_element` and `std::sort` do with equals is open, and so is
the draw. A temperature other than zero scales all logits and is left out.

### ModelStore

Requests about one file, each with its own `pc`: `Arrive`, `Recv` (the loop that
waits for the announced body), `HangUp`; upload's `Refuse`, `Accept`, `Open`,
`Write` and `Created`, with `DiskFull`; load's `Find`, `NotFound`, `Read`,
`LoadRefused` and `Install`; status's `Sample` and `Record`. A file is a sequence
of parts `<<client, k>>`, so that a mix of two uploads is visible; a part nobody
wrote is a `Hole`. `owner`, `mixed`, `cut`, `disturbed` and `overtaken` are
history. Samples of `/proc/stat` are numbered, their counters wrap at the
constant `Width` (`WidthAssumption`: wider than what all requests together see
pass), and every interval has the same load, `Share`: what status shows is then
one number or wrong.

### Matmul

A cell of C is the sequence of the indices k whose products it has added, in
order, since floating-point sums depend on it. A tile is read in one action and
written in another, so that threads sharing a cell would lose updates.
The bands, the clipped tiles, the order of the three loops, the tuning of
`auto_cfg`, and spawn and join follow the code; the scalar, AVX and half kernels
have the same loops. Prefetching is left out.

### CacheDetect, TunedMatmul

`CacheDetect` has both detectors over a machine given by its sources: the
subleaves of CPUID leaf 4 (every field stored minus one), the cache directory
(capacities in K or M, entries that may be missing), `/proc/cpuinfo`, the feature
bits and `hardware_concurrency`. What the machine really has is `reported`, which
the sources were written from (`TruthAssumption`). `TunedMatmul` is the
benchmark: detect, then multiply with tiles and threads from the `CachePlan`.

### Half, Dequant, DotKernels

`Half` has both decoders and the encoder, on magnitudes (both handle the sign bit
separately); `weight` walks over all of them. `Dequant` gives for each format and
position the bits that a decoder reads, and walks the rows as `quant_dot` does.
A tensor has a shape of two dimensions, since `embedding` and `matvec` refuse
others; `Elements` and `Bytes` compute its size as the loader does, in a size_t
up to `SizeMax`, with the overflow test of each dimension and with wrapping sums
and products. The walk goes by shape, without a look at `Elements`.
Arithmetic on the fields is the same in both decoders and is left out, apart from
the bias. `DotKernels` are the sums over a row: `dot_cached` with its tiles, the
loops with 16, 8, 4 lanes and one, their remainders and the stop flag between
tiles. `used` counts how often each element was used.

### Tokenizer

A text is a sequence of bytes, a symbol a sequence of code points (`cp` and
`utf8_symbols` only write and cut UTF-8). `TakeSpecial`, `BeginPiece`, one
`JoinPair` per turn of the merge loop, and `EndPiece` are `encode`. `Reference` is
BPE as it is usually defined: rounds that each join all the occurrences, from the
left, of the pair with the least rank. The code joins one occurrence at a time,
so a symbol it has just made may take part in a better pair before the other
occurrences are joined. The two agree for merges that are `InOrder`, as trained
merges are: every merge that makes a symbol comes before every merge that uses
it. With less they differ: under (b,b), (a,b), (ab,ab), (a,abab), (ab,b), (abb,a),
(a,bb), where `abb` is used by the sixth merge and made by the fifth and also by
the seventh, `abbabb` becomes `abba bb` one at a time and `abb abb` by rounds.

## 3. Runs

| run | instance | distinct states | shows |
|---|---|---|---|
| worker_pool | 3 workers, n in {0, 2, 6, 7}, 2 calls | 149,002 | each job runs once inside the call, no missed generation, refinement of ParallelFor with liveness, the destructor ends |
| api_server | 4 connections, 2 runtimes, 2 tokens, symmetric | 227,675 | ownership, exclusion, no leak, honest replies, each call a Generation |
| api_server_live | 3 connections, one slow client | 84,441 | refinement of ModelSession, every request answered |
| llama_runtime | 3 layers, context 4, 5 prompts, 2 calls | 8,972 | caches and logits hold this generation's tokens only, bounds, refinement of Generation with liveness |
| matmul | 6 shapes, 5 configurations, 6 machines | 27,558 | what is detected is what the machine has; bands, tiles, order of sums, complete product, termination |
| formats | 10 formats, 6 shapes; 2^15 halves; rows, texts, shapes, draws | 152,664 | reads in bounds, no overlap, no gap, agreement, rounding; sums use each element once; BPE and its round trip; heads apart; draws from the nucleus |
| model_store | 3 requests, models of 2 or 3 parts, symmetric | 515,681 | an installed model is as long as announced and, undisturbed, one client's; an upload stored as sent, the load of the processor |
| stop_lost | 3 connections, 1 token | violation | finding 1 |
| stop_dangling | 3 connections, 1 token | violation | finding 2 |
| q4_value | as formats | violation | finding 3 |
| quant_rejected | as formats | violation | finding 4 |
| cores_counted | 1 machine, siblings apart | violation | finding 5 |

Why the bounds are enough:

- *worker_pool.* With three workers `run` goes inline below six jobs: the counts
  are none, inline, exactly two per worker, and one more. Two calls let a late
  worker of the first meet the second. The theorems lift the safety part to any
  number of workers, jobs and calls.
- *api_server.* A generation, its rival, a stop and a reload are four requests
  in flight; two runtime objects allow a replacement and a stale pointer. The
  interactions are pairwise or three-way, and the theorems cover any number.
- *api_server_live.* Symmetry is unsound for liveness, so there are three
  connections and no symmetry; one client may stop reading its stream.
- *llama_runtime.* Three layers separate the first, an inner and the last; the
  prompts include an empty one, one that fills the context and one that exceeds
  it; a second call follows one that was aborted at any point.
- *matmul.* The shapes are not multiples of the tiles, include a single row, a
  single column and both kinds of empty matrix; threads are fewer than, as many
  as, and more than rows. The machines have both sources, either, or none, a
  list of subleaves that ends early, gaps in the directory, and a level no slot is
  for. The theorems cover all shapes and machines.
- *formats.* A small block, a block and one element, a super-block, a
  super-block and a part; with a size_t of twelve bits, 640 elements of Q6_K have
  more bytes than it counts, and 64 by 65 are more elements. The conversions are checked for every half. Rows have
  each remainder of each width and more than one tile; texts of up to five
  characters contain overlapping pairs, pairs of pairs, bytes that are mapped and
  special tokens that are prefixes, under merges in order, in order with two ways
  to a symbol, and out of order; metadata combine every number of heads and
  groups up to four, zero and missing keys included; three tokens with logits of
  four values give ties, negative logits and underflow. The parts are independent
  of each other and take turns, so their states add up and are not multiplied.
- *model_store.* Two uploads interleave while a third request loads; two status
  requests overtake one another after a first. The theorems cover any number.

### Fairness

- Threads that can run do run: weak fairness per worker and for the caller, per
  connection, and for matmul's caller and threads (`TunedSpec`). Nothing forces a
  request, a stop, a spurious wake-up, a call of `run` or the destruction of the pool.
- Each connection sends one request, so `mu` is requested finitely often and
  weak fairness of each handler suffices for a lock without queue.
- A short reply fits the socket's send buffer, so `Reply` is fair for everybody.
  A stream's writes are fair only for clients outside `SlowClients`.
- `LlamaRuntime`: the thread that generates goes on.
- `ModelStore` and the modules of the formats run state safety only: a body or a
  stat file may never come, and the sequential parts end by construction.

`CHECK_DEADLOCK FALSE` is in every configuration but the runtime's, where a stop
may always be raised, because the other systems end: the requests are answered,
the pool destroyed, the product returned, the row decoded. Hanging before that
end is excluded by the liveness properties of the first three.

### Findings

1. **A stop can be forgotten** (`StopSticks`). `generate_ids` clears
   `stop_requested_` (`src/inference_v2.cpp:34`) after `begin_generation` has
   made the generation visible. A stop between the two is answered with
   `"stopping":true` and has no effect.
2. **A stop can signal a destroyed runtime** (`StopSignalsLive`). The handler
   copies `rt.get()` under `mu` and uses it after the unlock
   (`src/server_runtime.cpp:37`); an unload or a load between the two destroys the
   object when nothing generates.
3. **Q4_0 values in norm weights are wrong** (`SupportedTypesAgree`).
   `float((o&1)?(z>>4):(z&15)-8)` (`src/gguf.cpp:17`) subtracts the bias from the
   low nibbles only; `quant_v2::value` subtracts it from both.
4. **Formats that the README calls rejected are decoded**
   (`OthersAreRejected`): `quant_dot` hands every type but F32 and F16 to
   `quant_v2::value`.
5. **Cores are counted twice** (`PhysicalCoresCounted`). The count at
   `src/cpu.cpp:49`, which its comment calls physical package/core pairs,
   compares each processor with the one before it only; where siblings are not
   neighbours, as is usual on Linux, every sibling counts.

Noted while modelling, outside the checked properties:

- The decoders of Q4_K, Q5_K and Q6_K in `quant_v2.cpp` read overlapping fields
  (they are not in `Consistent`), and `bytes` counts a block for every 32 elements
  of the K formats too, eight times what they need, which errs on the safe side
  of `ReadsInTensor`.
- A tensor whose shape has more elements than a size_t counts has `elements()` 0
  and `bytes()` 0 (`OverflowIsUnchecked`): the loader accepts it in a file of any
  length (`src/gguf.cpp:15,16,18`). `GgufTensor::value` throws for each element of
  it, but `quant_dot` and `embedding` index by shape, without that bound, and read
  outside the file. The same happens where `bytes()` wraps to less than the
  tensor has. `ReadsInTensor` is about the other tensors; without its conditions
  TLC finds the reads at once.
- `upload` answers 201 when the disk was full (`DiskFull`); the loader refuses
  such a file.
- A status request that is overtaken shows a load from wrapped differences
  (`overtaken`), until the next.
- `status` reads pairs of a key and a number from `/proc/meminfo`, whose lines
  also have a unit: it never reaches `MemAvailable`, and `ram_percent` is 100
  (`src/server_runtime.cpp:28`).
- With a fixed seed `sample` makes a new generator from it for every token.
- `-ffast-math` (`CMakeLists.txt:15`) lets the compiler regroup a sum within a
  kernel; `AscendingSums` is about the order in the source, which tiles and threads
  do not change.

## 4. Proofs

The theorems of the systems are of the form `Spec => []P` or a refinement, for
every value of the constants that satisfies the named assumptions; some, like
`EveryFloatIsRounded`, are about the operators. Every invariant of the passing runs
is proved. Liveness is not in the proofs.

**WorkerPoolProofs** (any finite, non-empty set of workers). `active_` equals the
number of *pending* workers, those that have not joined the latest generation or
have not retired from it: `CountsPending`. It is why `active_ == 0` means that
nobody holds the closure. `ExactlyOnce` alone is not inductive: it needs that
indices below `next_` are claimed by exactly one worker or done (`Claims`), that a
worker retires only when the indices are gone (`RetireWhenTaken`), that engaged
workers work on the latest generation (`EngagedInLatest`), that nobody is pending
between runs (`QuietBetweenRuns`, so the reset of `next_` meets no late
`fetch_add`), and that nobody leaves before the destructor (`StopIsLast`).
Proved: `TypeOK`, `ClosureAlive`, `ExactlyOnce`, `NoMissedGeneration`, and that the
pool implements `ParallelFor!SafeSpec`. Cardinalities come from the library's
theorems on finite sets.

**ApiServerProofs** (any set of connections and runtimes). The invariant has three
parts. *Ownership*: the properties, and that the loaded runtime is live, that a
load is the only one to know the runtime it has made, and that a stop has a
pointer. *Replies*: what a request may have counted and answered by each phase,
that a late token leads out of the loop (`LateEndsLoop`), and that a generation
that was cut finds its flag still raised at the end (`CutKeepsFlag`). *Stops*:
those noted in `before` have signalled, which they stay (`SignalledStays`), and
after the reset a raised flag is the work of another one (`FlagIsOwn`). It is the
exclusion proved in the first part that makes the others work: nobody else resets
the flag. Proved: `TypeOK` (no runtime is
destroyed twice), `GenerationOwnsLiveRuntime`, `ExclusiveGeneration`, `NoLeak`,
`LateTokens`, the honesty of replies and counter, the refinement of
`ModelSession`, and that the call of each connection is a `Generation`
(`CallsAreGenerations`). The last needs two parts: a token after a raised flag
is the last one, and nobody lowers the flag that a generation reads.

**MatmulProofs** (any shapes, configurations and machines). The lemmas on
`m * x / t` show that the bands follow one another without overlap (`BandIsOwn`)
or gap (`RowHasBand`). The invariant says how many products each thread has added
to each cell of its band (`Added`, `Sums`), that what a thread has read is still
current (`HeldIsCurrent`), and that it works in its band (`InBand`). Proved:
`TypeOK`, `BandsAreDisjoint`, `TilesInBounds`, `AscendingSums`, `ProductAtReturn`,
`TunedTilesFit`.

The tuned product is proved for any machine whose sources keep what CPUID and the
kernel promise (`DetectAssumption`). The parsers read the same capacities, the
two ways to say which caches belong to a slot pick the same ones, and so the
largest of them is the same: `DetectorsAgree`. Whichever sources are silent, both
detectors find the caches that some source lists: `TruthIsDetected`. A step of
`TunedMatmul` is a step of `Matmul` with the reported numbers, or leaves it alone
(`Implementation`), so the theorems about `Matmul` apply: `TunedProduct`,
`DetectedTilesFit`.

**LlamaRuntimeProofs** (any number of layers, any context, any prompts). The
layers that the token of the running step has joined have one entry more than the
others (`CacheLengths`), their entries are the history (`CacheEntries`), and so is
what the logits depend on (`LogitsEntries`). Nothing torn gets further than the
check behind its stage, because rows are skipped only after a stop, and a stop
stays until the next call (`TornMeansStop`). Proved: `TypeOK`,
`CacheIsPrefix`, `AttentionInBounds`, `LogitsOfHistory`, the refinement of
`Generation`'s safety.

**AttentionProofs** (any metadata). The accepted shape is regular: `heads *
head_dim = hidden`, `group * kv_heads = heads`, and `rope_dim` is even and at most
`head_dim` (`Regular`). Then the spans of two heads are disjoint, rope has
turned nothing at or beyond the next head and nothing twice (`Turning`), and
exactly the spans of the heads that are done are written (`Attending`):
`HeadsPartition`. With the check of `heads_ % kv_heads_` dropped the
theorem is false: a head would read past the keys.

**RowProofs** (any shapes and any width of size_t, any row, any tile budget; every
half and every float).
*Blocks.* A field read as a set of bits is an interval (`FieldSpans`), so the
bits of an element are intervals too, and `Owner` says for each bit of the quants
of each format in `Consistent` whose it is. The invariant (`BlockInvariant`) is
that the bits used so far are exactly those owned by the positions passed.
Proved: `ReadsInTensor`, `BlockPartitioned`, `DecodersAgreeElsewhere`. For the
first, the test of a dimension against `SIZE_MAX / n` is exact (`TimesExact`), so
`elements()` is the product or 0, and without wrapping `bytes()` is a number of
whole blocks that holds the elements (`BytesAreBlocks`, `BlockInFile`).
*Sums.* `used` is one below the place in the row and zero above it:
`ProductsOnce`.
*Halves.* A subnormal half `w` with leading bit `p` is the same float,
`(p + 102) * 2^23 + w * 2^(23-p)`, for both decoders (`SubnormalFloat`): two
numbers of shifts that bring the leading bit to the same place are equal. From there to the next half
the encoder divides by `2^(23-p)` and rounds (`SubnormalRounds`); the same for
the others, where a mantissa that rounds up to `2^10` is the next exponent with
mantissa zero (`NormalRounds`). Together: `EveryFloatIsRounded`, for all `2^31`
magnitudes, of which `HalvesAgree` and `NearestHalf` are instances. TLC could
check those at the halves and at the midpoints only.

**TokenProofs** (any vocabulary and text, any logits and parameters). *Round
trip.* Symbols, specials and the rest of the text, decoded and put together, are
the text (`TokIInv`); `EncodesText` follows. Special tokens must be ASCII, as the
ones of GGUF files are (`TokAssumption`): the attempt without it failed at a
product of merges that looks special and holds a mapped code point, which
`decode` would drop.
*Reference.* The invariant `ReferenceIInv` says that the symbols at hand have the
same `Reference` as the piece had at its beginning. In the middle of a round they
are a round half done, so a step lemma follows `Round` from left to right
(`RoundGoesOn`, `RoundIsLeast`): while the least pair is joined one occurrence at
a time, `InOrder` says that no pair that the new symbols make is better or joins
across. A recursive function over lengths takes the place of induction on
sequences (`TwoStepInduction`, from the well-foundedness of the naturals).
*Nucleus.* `SampleIInv`: the candidates are a set of `top_k` likeliest tokens,
what is kept of them is a least set of likeliest ones that has `top_p`, and the
token drawn is one of those with a weight above zero. Weights can tie where
logits do not (`Exp` may be flat in places), so the tokens better than the drawn
one are found by weight in the nucleus (`HeavierInNucleus`) and by logit among
the candidates (`HigherInTop`), and a part weighs no more than a larger one
(`MassBelow`): `DrawnFromNucleus`.

**ModelStoreProofs** (any finite number of connections, any sizes). Every part of
the file is at its own place (`FileSent`): a buffer as long as its header
announces has each of them where it belongs, or a hole or another client's part;
a file whose upload was alone is a beginning of what its client sends, up to
`off` (`FileAlone`); and a load that nobody disturbed has read a beginning of the
file (`ReadsFile`). For the load of the processor, samples are numbered as they
are taken and no recorded one is ahead of them (`Samples`), so the difference of
wrapped counters is the true one unless a request was overtaken (`CpuIInv`).
Proved: `WholeModel`, `UploadIsStored`, `CpuIsShare`.

Assumed of the constants: finite sets and positive sizes; that CPUID and the
kernel describe one machine (`DetectAssumption`, `TruthAssumption`); a table `Exp`
that does not rise (`ExpAssumption`) and requests to the sampler of its types
(`DrawAssumption`); ASCII special tokens (`TokAssumption`); counters of
`/proc/stat` that are wider than what passes during the requests
(`WidthAssumption`). TLC evaluates each of them in the run of its
module.

Only model-checked: liveness, which is out of the prover's reach, as is
`ENABLED`: `DestroyTerminates`, `Answered`, `Returns`, and the liveness parts of
`ImplementsParallelFor` and `ImplementsGeneration`, whose safety parts are the
theorems `Refinement` of `WorkerPoolProofs` and `LlamaRuntimeProofs`. The type
invariants of `WorkerPool`, `LlamaRuntime` and `Matmul` are proved and therefore
not in the runs.

## 5. Not modelled

- The values of the floats: norms, rotary embedding, softmax, SwiGLU, and the
  numbers that sums come to. Which elements they use, in which order, is
  modelled.
- The reader of GGUF metadata and its tensor table (`gguf.cpp:13-18`): parsing of
  a buffer with bounds checks, sequential. `ModelStore` has its effect on a file
  that is too short, `Dequant` the size that it computes of a tensor.
- `models`, the page and the counters of `status`: text of a reply, no state. The
  string `loaded`, which they read without `mu`, is a data race whose outcomes are
  those of a torn `std::string`. In the reply of a stream, `tokens` and `tps` are
  read after `finish_generation` and may be the next generation's.
- The accept loop against `stop`: nothing in the repository calls `stop` but the
  destructor, which runs when `run` has returned.
- Prefetching: no effect on values. Tensors and engine: containers and a facade.
  JSON, HTTP headers, logging, arguments: text. The web page: a client.
- `inference.cpp` and `server.cpp` are not built.

## 6. Plan

Done, in this order: worker pool; server handlers on the loaded model; generation
loop; matrix multiplication; formats; the proofs of the generation loop; the model
file and the request body; detection and its composition with the product; the
sums over rows; the tokenizer; the shape of attention; the sampler; the proofs of
the blocks, the detection, the processor's load, the server's calls, the
tokenizer against its reference, the sampler, and half precision.

Next:

1. `GgufReader`: bounds checks, offsets and alignment of the tensor table over
   small files, with dimensions of zero.
2. The reply of a generation: the count and the rate it reads after
   `finish_generation`, as variables of `ApiServer`.
3. `ServerLife`, once something calls `stop` while requests are handled.
