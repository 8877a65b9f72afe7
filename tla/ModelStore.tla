------------------------------ MODULE ModelStore ------------------------------
(***************************************************************************)
(* What the handlers of src/server_runtime.cpp share besides the loaded    *)
(* runtime: the file of a model in the model directory, which uploads      *)
(* rewrite and loads read, and the sample of /proc/stat, by which status   *)
(* computes the load of the processor.  Each connection has a thread of    *)
(* its own and handles one request; all of them name the same file.        *)
(*                                                                         *)
(* Data.  A model is a sequence of parts <<c, k>>: the k-th part of what   *)
(* the client of connection c has.  Its first part is the header, which    *)
(* begins with the magic number and says how many parts there are.  A part *)
(* of the file that nobody wrote is Hole: the system fills it with zeros.  *)
(*                                                                         *)
(* Granularity.  recv returns what has arrived; write and read move a part *)
(* of the file at a time, each at an offset of its own, without a lock.    *)
(***************************************************************************)
EXTENDS Integers, Sequences, FiniteSets

CONSTANTS Conns,        \* connections
          Sizes,        \* how many parts the models have
          Width,        \* how far the counters of /proc/stat count: 2^64
          Hole, NoFile, NoModel

ASSUME StoreAssumption == /\ Sizes \subseteq Nat \ {0}
                          /\ Hole \notin Conns \X Nat

\* Each request takes one sample: no counter wraps between two of them.
ASSUME WidthAssumption == /\ IsFiniteSet(Conns)
                          /\ Width \in Nat /\ 4 * Cardinality(Conns) < Width

VARIABLES pc,           \* where each handler is
          size,         \* parts of the model that each client uploads
          framed,       \* whether its request says "Content-Length: "
          got,          \* parts of the body that recv has returned
          off,          \* parts that an upload has written
          file,         \* the file of the model
          want,         \* its size when a load opened it
          buf,          \* file_: what the load has read
          model,        \* what the last load that succeeded installed
          stat,         \* the sample each status request has read
          samples,      \* samples taken so far: the clock of /proc/stat
          prev,         \* prev_cpu_total, prev_cpu_idle: the sample recorded
          cpu_percent,
          \* History: what the properties need to know.
          owner,        \* the upload that opened the file last
          mixed,        \* another upload was writing then
          cut,          \* uploads that the file system stopped
          disturbed,    \* loads during which the file was written
          overtaken     \* a sample was recorded after a later one

net == <<size, framed, got>>
disk == <<off, file, owner, mixed, cut>>
load == <<want, buf, disturbed>>
cpu == <<stat, samples, prev, cpu_percent, overtaken>>
storeVars == <<pc, net, disk, load, model, cpu>>

Goto(c, label) == pc' = [pc EXCEPT ![c] = label]

Writers == {c \in Conns : pc[c] = "write"}
Readers == {c \in Conns : pc[c] = "read"}

StoreInit == /\ pc = [c \in Conns |-> "idle"]
             /\ size = [c \in Conns |-> 0] /\ got = [c \in Conns |-> 0]
             /\ framed = [c \in Conns |-> FALSE]
             /\ off = [c \in Conns |-> 0] /\ file = NoFile
             /\ owner = {} /\ mixed = FALSE /\ cut = {}
             /\ want = [c \in Conns |-> 0] /\ buf = [c \in Conns |-> <<>>]
             /\ disturbed = {} /\ model = NoModel
             /\ stat = [c \in Conns |-> 0] /\ samples = 0 /\ prev = 0
             /\ cpu_percent = 0 /\ overtaken = FALSE
-----------------------------------------------------------------------------
(* The body of a request: the recv loop of handle *)

\* The body is awaited only if the request says how long it is.
Awaited_Never(c, n) == FALSE
Awaited(c, n) == framed[c] /\ n < size[c]

Arrive(c) == /\ pc[c] = "idle"
             /\ \E n \in Sizes, f \in BOOLEAN :
                   /\ size' = [size EXCEPT ![c] = n]
                   /\ framed' = [framed EXCEPT ![c] = f]
             /\ Goto(c, "header")
             /\ UNCHANGED <<got, disk, load, model, cpu>>

\* The end of the header arrives, and with it any part of the body.
Recv(c) == /\ \/ pc[c] = "header" /\ \E n \in 0 .. size[c] :
                                        got' = [got EXCEPT ![c] = n]
              \/ pc[c] = "body"   /\ \E n \in got[c] + 1 .. size[c] :
                                        got' = [got EXCEPT ![c] = n]
           /\ Goto(c, IF Awaited(c, got'[c]) THEN "body" ELSE "check")
           /\ UNCHANGED <<size, framed, disk, load, model, cpu>>

HangUp(c) == /\ pc[c] \in {"header", "body"}
             /\ Goto(c, "closed")
             /\ UNCHANGED <<net, disk, load, model, cpu>>
-----------------------------------------------------------------------------
(* POST /api/models/upload *)

\* The body has to begin with GGUF; the file must be writable.
Refuse(c) == /\ \/ pc[c] = "check" /\ got[c] = 0
                \/ pc[c] = "open"
             /\ Goto(c, "closed")
             /\ UNCHANGED <<net, disk, load, model, cpu>>

Accept(c) == /\ pc[c] = "check" /\ got[c] > 0
             /\ Goto(c, "open")
             /\ UNCHANGED <<net, disk, load, model, cpu>>

Open(c) == /\ pc[c] = "open"
           /\ file' = <<>>
           /\ owner' = {c} /\ mixed' = (Writers # {})
           /\ disturbed' = disturbed \cup Readers
           /\ Goto(c, "write")
           /\ UNCHANGED <<net, off, cut, want, buf, model, cpu>>

Larger(a, b) == IF a >= b THEN a ELSE b
Put(f, k, part) == [j \in 1 .. Larger(Len(f), k) |->
                       IF j = k THEN part
                       ELSE IF j <= Len(f) THEN f[j] ELSE Hole]

Write(c) == /\ pc[c] = "write" /\ off[c] < got[c]
            /\ off' = [off EXCEPT ![c] = @ + 1]
            /\ file' = Put(file, off[c] + 1, <<c, off[c] + 1>>)
            /\ disturbed' = disturbed \cup Readers
            /\ UNCHANGED <<pc, net, owner, mixed, cut, want, buf, model, cpu>>

\* A full disk sets the stream's badbit, at which nobody looks.
DiskFull(c) == /\ pc[c] = "write" /\ off[c] < got[c]
               /\ cut' = cut \cup {c}
               /\ Goto(c, "created")
               /\ UNCHANGED <<net, off, file, owner, mixed, load, model, cpu>>

Created(c) == /\ pc[c] = "write" /\ off[c] = got[c]
              /\ Goto(c, "created")
              /\ UNCHANGED <<net, disk, load, model, cpu>>

Upload(c) == \/ Arrive(c) \/ Recv(c) \/ HangUp(c) \/ Refuse(c) \/ Accept(c)
             \/ Open(c) \/ Write(c) \/ DiskFull(c) \/ Created(c)
-----------------------------------------------------------------------------
(* POST /api/models/load, with GgufModel::load *)

Find(c) == /\ pc[c] = "idle" /\ file # NoFile
           /\ want' = [want EXCEPT ![c] = Len(file)]
           /\ disturbed' = IF Writers # {} \/ mixed THEN disturbed \cup {c}
                           ELSE disturbed
           /\ Goto(c, "read")
           /\ UNCHANGED <<net, disk, buf, model, cpu>>

NotFound(c) == /\ pc[c] = "idle" /\ file = NoFile
               /\ Goto(c, "closed")
               /\ UNCHANGED <<net, disk, load, model, cpu>>

Read(c) == /\ pc[c] = "read"
           /\ Len(buf[c]) < want[c] /\ Len(buf[c]) < Len(file)
           /\ buf' = [buf EXCEPT ![c] = Append(@, file[Len(@) + 1])]
           /\ UNCHANGED <<pc, net, disk, want, disturbed, model, cpu>>

\* The reader stops at the end of the buffer: the magic number, and as many
\* parts as the header says.
Announced(b) == IF b = <<>> THEN 0 ELSE IF b[1] = Hole THEN 0 ELSE size[b[1][1]]
Parses_AnyLength(b) == Announced(b) > 0
Parses(b) == Announced(b) > 0 /\ Len(b) >= Announced(b)

\* "cannot read GGUF", "bad GGUF magic", "tensor data out of range",
\* "generation in progress".
LoadRefused(c) ==
    /\ pc[c] = "read"
    /\ \/ Len(buf[c]) < want[c] /\ Len(buf[c]) >= Len(file)
       \/ Len(buf[c]) = want[c]
    /\ Goto(c, "closed")
    /\ UNCHANGED <<net, disk, load, model, cpu>>

Install(c) == /\ pc[c] = "read" /\ Len(buf[c]) = want[c] /\ Parses(buf[c])
              /\ model' = [parts |-> buf[c], quiet |-> c \notin disturbed]
              /\ Goto(c, "loaded")
              /\ UNCHANGED <<net, disk, load, cpu>>

Load(c) == Find(c) \/ NotFound(c) \/ Read(c) \/ LoadRefused(c) \/ Install(c)
-----------------------------------------------------------------------------
(* GET /api/status: cpu_usage *)

\* Of the four ticks between two samples one is idle, before the first half
\* were.
Total(s) == 1000 + 4 * s
Idle(s) == 500 + s
Share == 75

\* The file is read before cpu_mu is taken.
Sample(c) == /\ pc[c] = "idle"
             /\ samples' = samples + 1
             /\ stat' = [stat EXCEPT ![c] = samples + 1]
             /\ Goto(c, "status")
             /\ UNCHANGED <<net, disk, load, model, prev, cpu_percent,
                            overtaken>>

MayMeasure_Always == TRUE
MayMeasure == prev # 0

PrevTotal == IF prev = 0 THEN 0 ELSE Total(prev)
PrevIdle == IF prev = 0 THEN 0 ELSE Idle(prev)

Record(c) ==
    LET dt == (Total(stat[c]) - PrevTotal) % Width
        di == (Idle(stat[c]) - PrevIdle) % Width
    IN /\ pc[c] = "status"
       /\ cpu_percent' = IF MayMeasure /\ dt # 0
                         THEN (100 * ((dt - di) % Width)) \div dt
                         ELSE cpu_percent
       /\ prev' = stat[c]
       /\ overtaken' = (overtaken \/ stat[c] < prev)
       /\ Goto(c, "answered")
       /\ UNCHANGED <<net, disk, load, model, stat, samples>>

Status(c) == Sample(c) \/ Record(c)

StoreNext == \E c \in Conns : Upload(c) \/ Load(c) \/ Status(c)

StoreSpec == StoreInit /\ [][StoreNext]_storeVars
-----------------------------------------------------------------------------
(* Properties *)

Whole(c) == [k \in 1 .. size[c] |-> <<c, k>>]

\* Whatever arrives, is cut or is written meanwhile, the model in memory is as
\* long as its header announces (other uploads may have left parts or holes in
\* it); and if no upload wrote to the file
\* during the load, and no two at a time before, it is what one client sent.
WholeModel == model # NoModel =>
    /\ Len(model.parts) >= Announced(model.parts) /\ model.parts[1] # Hole
    /\ model.quiet => model.parts = Whole(model.parts[1][1])

\* "201 Created" to a request with a length: unless the disk was full or
\* another upload interfered, the file is what the client sent.
UploadIsStored == \A c \in Conns :
    pc[c] = "created" /\ owner = {c} /\ ~mixed /\ framed[c] /\ c \notin cut =>
        file = Whole(c)

\* The load of the processor is that between two samples, unless two status
\* requests recorded theirs in the wrong order.
CpuIsShare == ~overtaken => cpu_percent \in {0, Share}
=============================================================================
