--------------------------- MODULE ModelStoreProofs ---------------------------
(***************************************************************************)
(* Proofs about the file that uploads rewrite and loads read, and about    *)
(* the load of the processor that status computes, for any number of       *)
(* requests and models of any size.                                        *)
(***************************************************************************)
EXTENDS ModelStore, SequenceTheorems, FiniteSetTheorems, TLAPS

Labels == {"idle", "header", "body", "check", "open", "write", "created",
           "read", "loaded", "status", "answered", "closed"}
Part == {Hole} \cup (Conns \X Nat)

Types == /\ pc \in [Conns -> Labels]
         /\ size \in [Conns -> Nat] /\ framed \in [Conns -> BOOLEAN]
         /\ got \in [Conns -> Nat] /\ off \in [Conns -> Nat]
         /\ want \in [Conns -> Nat] /\ buf \in [Conns -> Seq(Part)]

\* What an upload has written it has received, and what it has received was
\* sent; one whose body was awaited has all of it.
Counts == \A c \in Conns :
    /\ off[c] <= got[c] /\ got[c] <= size[c]
    /\ pc[c] \in {"idle", "header"} => got[c] = 0
    /\ pc[c] \in {"idle", "header", "body", "check", "open"} => off[c] = 0
    /\ pc[c] \in {"check", "open", "write", "created"} /\ framed[c] =>
          got[c] = size[c]
    /\ pc[c] = "created" /\ c \notin cut => off[c] = got[c]

\* Every part of f is at its place, and of those that uploads have written if
\* they are at the offsets o.
Sent(f, o) == /\ f \in Seq(Part)
              /\ \A j \in DOMAIN f : f[j] # Hole =>
                    \E d \in Conns : f[j] = <<d, j>> /\ j <= o[d]

\* There is a file if an upload has opened it.
FileSent == /\ owner = {} => file = NoFile /\ Writers = {}
            /\ owner # {} => Sent(file, off) /\ \E o \in Conns : owner = {o}

\* If nobody else was writing when it was opened, the file is a beginning of
\* what the last upload sends.
FileAlone == \A o \in Conns : owner = {o} /\ ~mixed =>
    /\ Writers \subseteq {o}
    /\ file = [k \in 1 .. off[o] |-> <<o, k>>]

\* A load has read a beginning of the file, unless it was disturbed.
ReadsFile == \A c \in Conns :
    /\ Sent(buf[c], off)
    /\ pc[c] = "idle" => buf[c] = <<>>
    /\ pc[c] = "read" => owner # {}
    /\ pc[c] = "read" /\ c \notin disturbed =>
          /\ ~mixed
          /\ Len(buf[c]) <= Len(file)
          /\ \A j \in 1 .. Len(buf[c]) : buf[c][j] = file[j]

Installed == model # NoModel =>
    /\ Sent(model.parts, off)
    /\ Parses(model.parts)
    /\ model.quiet => \E o \in Conns :
          \A j \in DOMAIN model.parts : model.parts[j] = <<o, j>>

\* The inductive invariant.
IInv == Types /\ Counts /\ FileSent /\ FileAlone /\ ReadsFile /\ Installed
-----------------------------------------------------------------------------
\* It holds when the server starts.
LEMMA InitInv == StoreInit => IInv
<1> SUFFICES ASSUME StoreInit PROVE IInv
  OBVIOUS
<1> USE DEF StoreInit
<1>1. Types
  BY DEF Types, Labels
<1>2. Counts
  BY DEF Counts
<1>3. FileSent /\ FileAlone
  BY DEF FileSent, FileAlone, Writers
<1>4. ReadsFile
  BY DEF ReadsFile, Sent
<1>5. Installed
  BY DEF Installed
<1> QED BY <1>1, <1>2, <1>3, <1>4, <1>5 DEF IInv

\* A step by one handler keeps the types and the counts.
LEMMA TypesStep ==
    ASSUME IInv, NEW c \in Conns, Upload(c) \/ Load(c) \/ Status(c)
    PROVE  Types' /\ Counts'
<1> USE StoreAssumption DEF IInv, Types, Counts, Goto, Labels
<1>1. CASE Arrive(c)
  BY <1>1 DEF Arrive, disk, load
<1>2. CASE Recv(c)
  <2>1. /\ got' \in [Conns -> Nat] /\ got'[c] >= got[c] /\ got'[c] <= size[c]
        /\ \A d \in Conns : d # c => got'[d] = got[d]
    <3>1. PICK n \in Nat : got' = [got EXCEPT ![c] = n] /\ n >= got[c]
                          /\ n <= size[c]
      BY <1>2 DEF Recv
    <3> QED BY <3>1
  <2>2. off[c] = 0
    BY <1>2 DEF Recv
  <2>3. pc' = [pc EXCEPT ![c] = IF Awaited(c, got'[c]) THEN "body" ELSE "check"]
    BY <1>2 DEF Recv
  <2>4. UNCHANGED <<size, framed, off, cut, want, buf>>
    BY <1>2 DEF Recv, disk, load
  <2>5. Types'
    BY <2>1, <2>3, <2>4
  <2> QED BY <2>1, <2>2, <2>3, <2>4, <2>5 DEF Awaited
<1>3. CASE HangUp(c) \/ Refuse(c) \/ Accept(c)
  BY <1>3 DEF HangUp, Refuse, Accept, net, disk, load
<1>4. CASE Open(c)
  BY <1>4 DEF Open, net
<1>5. CASE Write(c)
  BY <1>5 DEF Write, net
<1>6. CASE DiskFull(c) \/ Created(c)
  BY <1>6 DEF DiskFull, Created, net, disk, load
<1>7. CASE Find(c)
  <2>1. file # NoFile /\ Len(file) \in Nat
    BY <1>7 DEF Find, FileSent, Sent
  <2> QED BY <1>7, <2>1 DEF Find, net, disk
<1>8. CASE NotFound(c) \/ LoadRefused(c) \/ Install(c)
  BY <1>8 DEF NotFound, LoadRefused, Install, net, disk, load
<1>9. CASE Read(c)
  <2>1. Sent(file, off) /\ Len(buf[c]) + 1 \in DOMAIN file
    BY <1>9 DEF Read, ReadsFile, FileSent, Sent
  <2>2. file[Len(buf[c]) + 1] \in Part
    BY <2>1 DEF Sent
  <2> QED BY <1>9, <2>2 DEF Read, net, disk
<1>10. CASE Sample(c) \/ Record(c)
  BY <1>10 DEF Sample, Record, net, disk, load
<1> QED BY <1>1, <1>2, <1>3, <1>4, <1>5, <1>6, <1>7, <1>8, <1>9, <1>10
        DEF Upload, Load, Status


\* Offsets only grow, and the size of what is being written does not change.
LEMMA Growth ==
    ASSUME IInv, NEW c \in Conns, Upload(c) \/ Load(c) \/ Status(c)
    PROVE  \A d \in Conns : /\ off'[d] >= off[d]
                            /\ off[d] > 0 => size'[d] = size[d]
<1> USE DEF IInv, Types, Counts
<1>1. CASE Arrive(c)
  BY <1>1 DEF Arrive, disk
<1>2. CASE Write(c)
  BY <1>2 DEF Write, net
<1>3. CASE Recv(c) \/ HangUp(c) \/ Refuse(c) \/ Accept(c)
  BY <1>3 DEF Recv, HangUp, Refuse, Accept, net, disk
<1>4. CASE Open(c) \/ DiskFull(c) \/ Created(c)
  BY <1>4 DEF Open, DiskFull, Created, net, disk
<1>5. CASE Load(c)
  BY <1>5 DEF Load, Find, NotFound, Read, LoadRefused, Install, net, disk
<1>6. CASE Status(c)
  BY <1>6 DEF Status, Sample, Record, net, disk
<1> QED BY <1>1, <1>2, <1>3, <1>4, <1>5, <1>6 DEF Upload

\* So what was sent remains so.
LEMMA SentKept ==
    ASSUME IInv, NEW c \in Conns, Upload(c) \/ Load(c) \/ Status(c), NEW f,
           Sent(f, off)
    PROVE  Sent(f, off')
<1>1. off \in [Conns -> Nat] /\ off' \in [Conns -> Nat]
  BY TypesStep DEF IInv, Types
<1>2. \A d \in Conns : off'[d] >= off[d]
  BY Growth
<1>3. \A j \in DOMAIN f : j \in Nat
  BY DEF Sent
<1>4. ASSUME NEW j \in DOMAIN f, f[j] # Hole
      PROVE  \E d \in Conns : f[j] = <<d, j>> /\ j <= off'[d]
  <2>1. PICK d \in Conns : f[j] = <<d, j>> /\ j <= off[d]
    BY <1>4 DEF Sent
  <2>2. j <= off'[d]
    BY <1>1, <1>2, <1>3, <2>1
  <2> QED BY <2>1, <2>2
<1> QED BY <1>4 DEF Sent

\* Every step is an Open, a Write, or leaves the file alone.
LEMMA Kinds3 ==
    ASSUME IInv, NEW c \in Conns, Upload(c) \/ Load(c) \/ Status(c)
    PROVE  \/ Open(c)
           \/ Write(c)
           \/ /\ UNCHANGED <<off, file, owner, mixed>>
              /\ \A d \in Conns : pc'[d] = "write" => pc[d] = "write"
              /\ owner = {} /\ file = NoFile => pc'[c] # "read"
<1> USE DEF IInv, Types, Goto
<1>1. CASE Arrive(c) \/ HangUp(c) \/ Refuse(c) \/ Accept(c)
  BY <1>1 DEF Arrive, HangUp, Refuse, Accept, disk
<1>2. CASE Recv(c)
  <2>1. pc'[c] \in {"body", "check"} /\ \A d \in Conns : d # c => pc'[d] = pc[d]
    BY <1>2 DEF Recv
  <2> QED BY <1>2, <2>1 DEF Recv, disk
<1>3. CASE DiskFull(c) \/ Created(c)
  BY <1>3 DEF DiskFull, Created, disk
<1>4. CASE Find(c) \/ NotFound(c)
  BY <1>4 DEF Find, NotFound, disk
<1>5. CASE Read(c) \/ LoadRefused(c) \/ Install(c)
  BY <1>5 DEF Read, LoadRefused, Install, disk, ReadsFile
<1>6. CASE Status(c)
  BY <1>6 DEF Status, Sample, Record, disk
<1> QED BY <1>1, <1>2, <1>3, <1>4, <1>5, <1>6 DEF Upload, Load

\* The next part of an upload goes to its place, behind the others.
LEMMA PutSent ==
    ASSUME IInv, NEW c \in Conns, Write(c)
    PROVE  /\ owner # {} /\ c \in Writers
           /\ off' = [off EXCEPT ![c] = off[c] + 1]
           /\ Sent(file', off')
<1> USE DEF IInv, Types
<1>1. c \in Writers /\ owner # {}
  BY DEF Write, Writers, FileSent
<1>2. Sent(file, off)
  BY <1>1 DEF FileSent
<1>3. off' = [off EXCEPT ![c] = off[c] + 1]
  BY DEF Write
<1> DEFINE k == off[c] + 1
           n == Larger(Len(file), k)
           put == [j \in 1 .. n |-> IF j = k THEN <<c, k>>
                                    ELSE IF j <= Len(file) THEN file[j] ELSE Hole]
<1>4. k \in Nat /\ Len(file) \in Nat /\ n \in Nat /\ file \in Seq(Part)
  BY <1>2 DEF Sent, Larger
<1>5. file' = put
  BY DEF Write, Put
<1>6. \A j \in 1 .. n : put[j] \in Part
  <2> SUFFICES ASSUME NEW j \in 1 .. n PROVE put[j] \in Part
    OBVIOUS
  <2>1. CASE j = k
    BY <2>1, <1>4 DEF Part
  <2>2. CASE j # k /\ j <= Len(file)
    BY <2>2, <1>4
  <2>3. CASE j # k /\ ~(j <= Len(file))
    BY <2>3 DEF Part
  <2> QED BY <2>1, <2>2, <2>3
<1>7. put \in Seq(Part) /\ DOMAIN put = 1 .. n
  <2>1. put \in [1 .. n -> Part]
    BY <1>6
  <2> HIDE DEF put, n, k
  <2> QED BY <2>1, <1>4
<1>8. ASSUME NEW j \in 1 .. n, put[j] # Hole
      PROVE  \E d \in Conns : put[j] = <<d, j>> /\ j <= off'[d]
  <2>1. CASE j = k
    BY <2>1, <1>3
  <2>2. CASE j # k /\ j <= Len(file)
    <3>1. put[j] = file[j] /\ j \in DOMAIN file
      BY <2>2, <1>4
    <3>2. PICK d \in Conns : file[j] = <<d, j>> /\ j <= off[d]
      BY <1>2, <1>8, <3>1 DEF Sent
    <3>3. off[d] \in Nat /\ off'[d] \in Nat /\ off'[d] >= off[d]
      BY <1>3
    <3> QED BY <3>1, <3>2, <3>3
  <2>3. CASE j # k /\ ~(j <= Len(file))
    BY <2>3, <1>8
  <2> QED BY <2>1, <2>2, <2>3
<1> HIDE DEF put
<1>9. Sent(put, off')
  BY <1>7, <1>8 DEF Sent
<1> QED BY <1>1, <1>3, <1>5, <1>9

\* The file consists of parts that were sent.
LEMMA FileSentStep ==
    ASSUME IInv, NEW c \in Conns, Upload(c) \/ Load(c) \/ Status(c)
    PROVE  FileSent'
<1>1. CASE Open(c)
  BY <1>1 DEF Open, FileSent, Sent
<1>2. CASE Write(c)
  <2>1. owner' = owner
    BY <1>2 DEF Write
  <2> QED BY <1>2, <2>1, PutSent DEF FileSent, IInv
<1>3. CASE /\ UNCHANGED <<off, file, owner, mixed>>
           /\ \A d \in Conns : pc'[d] = "write" => pc[d] = "write"
  BY <1>3 DEF FileSent, IInv, Writers
<1> QED BY <1>1, <1>2, <1>3, Kinds3

\* A single upload writes what its client sends, in order.
LEMMA FileAloneStep ==
    ASSUME IInv, NEW c \in Conns, Upload(c) \/ Load(c) \/ Status(c)
    PROVE  FileAlone'
<1> USE DEF IInv, Types
<1>1. CASE Open(c)
  <2>1. /\ owner' = {c} /\ file' = <<>> /\ off' = off /\ off[c] = 0
        /\ mixed' = (Writers # {}) /\ pc' = [pc EXCEPT ![c] = "write"]
    BY <1>1 DEF Open, Goto, Counts
  <2>2. ~mixed' => Writers' = {c}
    BY <2>1 DEF Writers
  <2>3. [k \in 1 .. off'[c] |-> <<c, k>>] = <<>>
    BY <2>1
  <2>4. \A o \in Conns : owner' = {o} => o = c
    BY <2>1
  <2> QED BY <2>1, <2>2, <2>3, <2>4 DEF FileAlone
<1>2. CASE Write(c)
  <2>1. c \in Writers /\ off' = [off EXCEPT ![c] = off[c] + 1]
    BY <1>2, PutSent
  <2>2. UNCHANGED <<pc, owner, mixed>>
        /\ file' = Put(file, off[c] + 1, <<c, off[c] + 1>>)
    BY <1>2 DEF Write
  <2>3. ASSUME NEW o \in Conns, owner = {o}, ~mixed
        PROVE  /\ Writers' \subseteq {o}
               /\ file' = [k \in 1 .. off'[o] |-> <<o, k>>]
    <3>1. /\ Writers \subseteq {o} /\ o = c
          /\ file = [k \in 1 .. off[c] |-> <<c, k>>]
      BY <2>1, <2>3 DEF FileAlone
    <3>2. off[c] \in Nat /\ Len(file) = off[c]
      BY <3>1
    <3>3. Larger(Len(file), off[c] + 1) = off[c] + 1
      BY <3>2 DEF Larger
    <3>4. file' = [k \in 1 .. off[c] + 1 |-> <<c, k>>]
      BY <2>2, <3>1, <3>2, <3>3 DEF Put
    <3> QED BY <2>1, <2>2, <3>1, <3>4 DEF Writers
  <2> QED BY <2>2, <2>3 DEF FileAlone
<1>3. CASE /\ UNCHANGED <<off, file, owner, mixed>>
           /\ \A d \in Conns : pc'[d] = "write" => pc[d] = "write"
  BY <1>3 DEF FileAlone, Writers
<1> QED BY <1>1, <1>2, <1>3, Kinds3

\* A load that nobody disturbs reads the beginning of the file.
LEMMA ReadsFileStep ==
    ASSUME IInv, NEW c \in Conns, Upload(c) \/ Load(c) \/ Status(c)
    PROVE  ReadsFile'
<1> USE DEF IInv, Types, Goto
<1>1. Types'
  BY TypesStep
<1>2. CASE Open(c) \/ Write(c)
  <2>1. /\ buf' = buf /\ disturbed' = disturbed \cup Readers /\ owner' # {}
        /\ \A d \in Conns : /\ pc'[d] = "read" => d \in Readers
                            /\ pc'[d] = "idle" => pc[d] = "idle"
    BY <1>2, PutSent DEF Open, Write, Readers
  <2>2. \A d \in Conns : Sent(buf'[d], off')
    BY <2>1, SentKept DEF ReadsFile
  <2> QED BY <2>1, <2>2 DEF ReadsFile
<1>3. CASE Find(c)
  <2>1. /\ UNCHANGED <<file, owner, mixed, buf, off>>
        /\ c \notin disturbed' => ~mixed
        /\ \A d \in Conns : d # c => /\ pc'[d] = pc[d]
                                     /\ d \in disturbed' <=> d \in disturbed
        /\ pc'[c] = "read" /\ pc[c] = "idle" /\ file # NoFile
    BY <1>3 DEF Find, disk
  <2>2. buf[c] = <<>> /\ owner # {} /\ Sent(file, off)
    BY <2>1 DEF ReadsFile, FileSent
  <2>3. Len(buf[c]) = 0 /\ Len(file) >= 0
    BY <2>2 DEF Sent
  <2> QED BY <2>1, <2>2, <2>3 DEF ReadsFile
<1>4. CASE Read(c)
  <2>1. /\ UNCHANGED <<pc, file, owner, mixed, off, disturbed>>
        /\ buf' = [buf EXCEPT ![c] = Append(@, file[Len(@) + 1])]
        /\ pc[c] = "read" /\ Len(buf[c]) < Len(file)
    BY <1>4 DEF Read, disk
  <2>2. Sent(file, off) /\ Sent(buf[c], off)
    BY <2>1 DEF ReadsFile, FileSent
  <2> DEFINE k == Len(buf[c]) + 1
  <2>3. k \in DOMAIN file /\ k \in Nat /\ k <= Len(file) /\ file[k] \in Part
    BY <2>1, <2>2 DEF Sent
  <2>4. /\ Len(buf'[c]) = k /\ buf'[c][k] = file[k] /\ buf'[c] \in Seq(Part)
        /\ \A j \in 1 .. Len(buf[c]) : buf'[c][j] = buf[c][j]
    BY <2>1, <2>2, <2>3 DEF Sent
  <2>5. ASSUME NEW j \in DOMAIN buf'[c], buf'[c][j] # Hole
        PROVE  \E d \in Conns : buf'[c][j] = <<d, j>> /\ j <= off[d]
    <3>1. CASE j = k
      BY <3>1, <2>2, <2>3, <2>4, <2>5 DEF Sent
    <3>2. CASE j # k
      <4>1. j \in 1 .. Len(buf[c]) /\ j \in DOMAIN buf[c]
        BY <3>2, <2>2, <2>4 DEF Sent
      <4> QED BY <4>1, <2>2, <2>4, <2>5 DEF Sent
    <3> QED BY <3>1, <3>2
  <2>6. Sent(buf'[c], off)
    BY <2>4, <2>5 DEF Sent
  <2>7. c \notin disturbed => \A j \in 1 .. k : buf'[c][j] = file[j]
    <3> SUFFICES ASSUME c \notin disturbed, NEW j \in 1 .. k
                 PROVE  buf'[c][j] = file[j]
      OBVIOUS
    <3>1. CASE j = k
      BY <3>1, <2>4
    <3>2. CASE j # k
      <4>1. j \in 1 .. Len(buf[c])
        BY <3>2, <2>3, <2>2 DEF Sent
      <4> QED BY <4>1, <2>1, <2>4 DEF ReadsFile
    <3> QED BY <3>1, <3>2
  <2>8. \A d \in Conns : d # c => buf'[d] = buf[d]
    BY <2>1
  <2> HIDE DEF k
  <2> QED BY <2>1, <2>3, <2>4, <2>6, <2>7, <2>8 DEF ReadsFile
<1>5. CASE /\ ~(Open(c) \/ Write(c)) /\ UNCHANGED <<buf, disturbed>>
           /\ \A d \in Conns : pc'[d] \in {"read", "idle"} => pc'[d] = pc[d]
  BY <1>5, Kinds3 DEF ReadsFile
<1>6. CASE Arrive(c) \/ HangUp(c) \/ Refuse(c) \/ Accept(c) \/ DiskFull(c)
           \/ Created(c)
  BY <1>2, <1>5, <1>6 DEF Arrive, HangUp, Refuse, Accept, DiskFull, Created, load
<1>7. CASE Recv(c)
  <2>1. UNCHANGED <<buf, disturbed>> /\ pc'[c] \in {"body", "check"}
        /\ \A d \in Conns : d # c => pc'[d] = pc[d]
    BY <1>7 DEF Recv, load
  <2> QED BY <1>2, <1>5, <2>1
<1>8. CASE NotFound(c) \/ LoadRefused(c) \/ Install(c)
  BY <1>2, <1>5, <1>8 DEF NotFound, LoadRefused, Install, load
<1>9. CASE Status(c)
  BY <1>2, <1>5, <1>9 DEF Status, Sample, Record, load
<1> QED BY <1>2, <1>3, <1>4, <1>6, <1>7, <1>8, <1>9 DEF Upload, Load

\* What is installed was sent, whole, and by one client if nobody disturbed it.
LEMMA InstalledStep ==
    ASSUME IInv, NEW c \in Conns, Upload(c) \/ Load(c) \/ Status(c)
    PROVE  Installed'
<1> USE DEF IInv, Types
<1>1. CASE Install(c)
  <2>1. /\ model' = [parts |-> buf[c], quiet |-> c \notin disturbed]
        /\ pc[c] = "read" /\ Parses(buf[c]) /\ UNCHANGED <<size, off>>
    BY <1>1 DEF Install, net, disk
  <2>2. Sent(buf[c], off)
    BY DEF ReadsFile
  <2>3. Parses(model.parts)'
    BY <2>1 DEF Parses, Announced
  <2>4. ASSUME c \notin disturbed
        PROVE  \E o \in Conns : \A j \in DOMAIN buf[c] : buf[c][j] = <<o, j>>
    <3>1. ~mixed /\ owner # {}
      BY <2>1, <2>4 DEF ReadsFile
    <3>2. PICK o \in Conns : owner = {o}
      BY <3>1 DEF FileSent
    <3>3. file = [k \in 1 .. off[o] |-> <<o, k>>] /\ off[o] \in Nat
      BY <3>1, <3>2 DEF FileAlone
    <3>4. Len(buf[c]) <= off[o] /\ DOMAIN buf[c] = 1 .. Len(buf[c])
          /\ Len(buf[c]) \in Nat
      BY <2>1, <2>2, <2>4, <3>3 DEF ReadsFile, Sent
    <3>5. \A j \in 1 .. Len(buf[c]) : buf[c][j] = file[j]
      BY <2>1, <2>4 DEF ReadsFile
    <3>6. ASSUME NEW j \in DOMAIN buf[c] PROVE buf[c][j] = <<o, j>>
      <4>1. j \in 1 .. Len(buf[c]) /\ j \in 1 .. off[o]
        BY <3>3, <3>4
      <4>2. file[j] = <<o, j>>
        BY <3>3, <4>1
      <4> QED BY <3>5, <4>1, <4>2
    <3> QED BY <3>6
  <2>5. /\ model'.parts = buf[c] /\ off' = off
        /\ model'.quiet => c \notin disturbed
    BY <2>1
  <2> QED BY <2>2, <2>3, <2>4, <2>5 DEF Installed
<1>2. CASE model' = model
  <2> SUFFICES ASSUME model # NoModel
               PROVE  Sent(model.parts, off') /\ Parses(model.parts)'
    BY <1>2 DEF Installed
  <2>1. Sent(model.parts, off) /\ Parses(model.parts)
    BY DEF Installed
  <2>2. Sent(model.parts, off')
    BY <2>1, SentKept
  <2> DEFINE f == model.parts
  <2>3. Len(f) \in Nat /\ f # <<>> /\ f[1] # Hole /\ 1 \in DOMAIN f
    BY <2>1 DEF Parses, Announced, Sent
  <2>4. PICK d \in Conns : f[1] = <<d, 1>> /\ 1 <= off[d]
    BY <2>1, <2>3 DEF Sent
  <2>5. size'[d] = size[d]
    BY <2>4, Growth
  <2> QED BY <1>2, <2>1, <2>2, <2>3, <2>4, <2>5 DEF Parses, Announced
<1>3. Install(c) \/ model' = model
  BY DEF Upload, Load, Status, Arrive, Recv, HangUp, Refuse, Accept, Open, Write,
         DiskFull, Created, Find, NotFound, Read, LoadRefused, Sample, Record
<1> QED BY <1>1, <1>2, <1>3

\* Every step keeps the invariant.
LEMMA NextInv == IInv /\ [StoreNext]_storeVars => IInv'
<1>1. ASSUME IInv, StoreNext PROVE IInv'
  <2>1. PICK c \in Conns : Upload(c) \/ Load(c) \/ Status(c)
    BY <1>1 DEF StoreNext
  <2>2. IInv
    BY <1>1
  <2> QED BY <2>1, <2>2, TypesStep, FileSentStep, FileAloneStep, ReadsFileStep,
             InstalledStep DEF IInv
<1>2. ASSUME IInv, UNCHANGED storeVars PROVE IInv'
  BY <1>2 DEF IInv, Types, Counts, FileSent, FileAlone, ReadsFile, Installed,
              storeVars, net, disk, load, Writers, Parses, Announced
<1> QED BY <1>1, <1>2

\* It holds in every state of the server.
LEMMA Invariance == StoreSpec => []IInv
BY InitInv, NextInv, PTL DEF StoreSpec
-----------------------------------------------------------------------------
\* What one client has sent is no longer than what it has written.
LEMMA OneSender ==
    ASSUME NEW f, NEW u, NEW o \in Conns, Sent(f, u), f # <<>>,
           \A j \in DOMAIN f : f[j] = <<o, j>>
    PROVE  Len(f) <= u[o] /\ f = [j \in 1 .. Len(f) |-> <<o, j>>]
<1>1. f \in Seq(Part) /\ Len(f) \in Nat /\ DOMAIN f = 1 .. Len(f)
  BY DEF Sent
<1>2. Len(f) \in DOMAIN f
  BY <1>1
<1>3. f[Len(f)] = <<o, Len(f)>>
  BY <1>2
<1>4. <<o, Len(f)>> # Hole
  BY <1>1, StoreAssumption
<1>5. PICK d \in Conns : f[Len(f)] = <<d, Len(f)>> /\ Len(f) <= u[d]
  BY <1>2, <1>3, <1>4 DEF Sent
<1>6. d = o
  BY <1>3, <1>5
<1>7. f = [j \in DOMAIN f |-> f[j]]
  BY <1>1
<1> QED BY <1>1, <1>5, <1>6, <1>7

\* A model in memory has all the parts its header announces, whatever was cut
\* short or written meanwhile; one that was read in peace is a client's.
THEOREM LoadsWholeModels == StoreSpec => []WholeModel
<1>1. IInv => WholeModel
  <2> SUFFICES ASSUME IInv, model # NoModel
               PROVE  /\ Len(model.parts) >= Announced(model.parts)
                      /\ model.parts[1] # Hole
                      /\ model.quiet => model.parts = Whole(model.parts[1][1])
    BY DEF WholeModel
  <2> DEFINE f == model.parts
  <2>1. Sent(f, off) /\ Parses(f)
    BY DEF IInv, Installed
  <2>2. /\ Len(f) \in Nat /\ DOMAIN f = 1 .. Len(f) /\ f # <<>>
        /\ f[1] # Hole /\ Len(f) >= Announced(f) /\ Announced(f) = size[f[1][1]]
    BY <2>1 DEF Parses, Announced, Sent
  <2>3. ASSUME model.quiet PROVE f = Whole(f[1][1])
    <3>1. PICK o \in Conns : \A j \in DOMAIN f : f[j] = <<o, j>>
      BY <2>3 DEF IInv, Installed
    <3>2. Len(f) >= 1 /\ f[1][1] = o
      BY <2>2, <3>1
    <3>3. size[o] \in Nat /\ off[o] \in Nat /\ off[o] <= size[o]
      BY DEF IInv, Types, Counts
    <3>4. Len(f) <= off[o] /\ f = [j \in 1 .. Len(f) |-> <<o, j>>]
      BY <2>1, <2>2, <3>1, OneSender
    <3>5. Len(f) = size[o]
      BY <2>2, <3>2, <3>3, <3>4
    <3>6. f = [j \in 1 .. size[o] |-> <<o, j>>]
      BY <3>4, <3>5
    <3> QED BY <3>2, <3>6 DEF Whole
  <2> QED BY <2>2, <2>3
<1> QED BY <1>1, Invariance, PTL

\* An upload with a length that nothing disturbed has stored what was sent.
THEOREM StoresUploads == StoreSpec => []UploadIsStored
<1>1. IInv => UploadIsStored
  BY DEF IInv, Types, Counts, FileAlone, UploadIsStored, Whole
<1> QED BY <1>1, Invariance, PTL
-----------------------------------------------------------------------------
(* The load of the processor *)

\* The requests that have taken a sample.
Sampled == {c \in Conns : pc[c] \in {"status", "answered"}}

\* Every sample was taken by a request, and none is recorded before.
Samples == /\ pc \in [Conns -> Labels] /\ stat \in [Conns -> Nat]
           /\ samples = Cardinality(Sampled)
           /\ prev \in 0 .. samples
           /\ \A c \in Conns : stat[c] <= samples

\* The inductive invariant.
CpuIInv == Samples /\ CpuIsShare

LEMMA SampledFinite ==
    IsFiniteSet(Sampled) /\ Cardinality(Sampled) \in Nat
    /\ Cardinality(Sampled) <= Cardinality(Conns)
<1>1. IsFiniteSet(Conns) /\ Sampled \subseteq Conns
  BY WidthAssumption DEF Sampled
<1> QED BY <1>1, FS_Subset, FS_CardinalityType

LEMMA InitCpu == StoreInit => CpuIInv
<1> SUFFICES ASSUME StoreInit PROVE CpuIInv
  OBVIOUS
<1>1. Sampled = {}
  BY DEF StoreInit, Sampled
<1>2. Cardinality(Sampled) = 0
  BY <1>1, FS_EmptySet
<1> QED BY <1>2 DEF StoreInit, CpuIInv, Samples, CpuIsShare, Labels

\* A handler that is no status request takes no sample.
LEMMA OthersSampleNothing ==
    ASSUME Samples, NEW c \in Conns, Upload(c) \/ Load(c)
    PROVE  /\ pc' \in [Conns -> Labels] /\ Sampled' = Sampled
           /\ UNCHANGED cpu
<1>1. \E l \in Labels \ {"status", "answered"} : Goto(c, l) \/ pc' = pc
  BY DEF Upload, Load, Arrive, Recv, HangUp, Refuse, Accept, Open, Write,
         DiskFull, Created, Find, NotFound, Read, LoadRefused, Install, Labels
<1>2. pc[c] \notin {"status", "answered"}
  BY DEF Upload, Load, Arrive, Recv, HangUp, Refuse, Accept, Open, Write,
         DiskFull, Created, Find, NotFound, Read, LoadRefused, Install
<1>3. UNCHANGED cpu
  BY DEF Upload, Load, Arrive, Recv, HangUp, Refuse, Accept, Open, Write, cpu,
         DiskFull, Created, Find, NotFound, Read, LoadRefused, Install
<1>4. pc' \in [Conns -> Labels]
  BY <1>1 DEF Samples, Goto
<1>5. \A d \in Conns : pc'[d] \in {"status", "answered"}
                         <=> pc[d] \in {"status", "answered"}
  BY <1>1, <1>2 DEF Samples, Goto
<1> QED BY <1>3, <1>4, <1>5 DEF Sampled

\* The clock counts the request that reads it.
LEMMA SampleStep ==
    ASSUME CpuIInv, NEW c \in Conns, Sample(c)
    PROVE  CpuIInv'
<1>1. /\ pc[c] = "idle" /\ pc' = [pc EXCEPT ![c] = "status"]
      /\ samples' = samples + 1 /\ stat' = [stat EXCEPT ![c] = samples + 1]
      /\ UNCHANGED <<prev, cpu_percent, overtaken>>
  BY DEF Sample, Goto
<1>2. Samples /\ samples \in Nat
  BY SampledFinite DEF CpuIInv, Samples
<1>3. Sampled' = Sampled \cup {c} /\ c \notin Sampled
  BY <1>1, <1>2 DEF Sampled, Samples
<1>4. Cardinality(Sampled') = Cardinality(Sampled) + 1
  BY <1>3, SampledFinite, FS_AddElement
<1>5. /\ pc' \in [Conns -> Labels] /\ stat' \in [Conns -> Nat]
      /\ \A d \in Conns : stat'[d] <= samples'
  BY <1>1, <1>2 DEF Samples, Labels
<1>6. samples' = Cardinality(Sampled') /\ prev' \in 0 .. samples'
  BY <1>1, <1>2, <1>4 DEF Samples
<1> QED BY <1>1, <1>5, <1>6 DEF CpuIInv, Samples, CpuIsShare

\* Between two samples in their order no counter wraps, so that the unsigned
\* differences are the true ones.
LEMMA Difference ==
    ASSUME NEW d \in Nat, d > 0, 4 * d < Width
    PROVE  /\ (4 * d) % Width = 4 * d /\ d % Width = d
           /\ (3 * d) % Width = 3 * d
           /\ (100 * (3 * d)) \div (4 * d) = 75
<1>1. \A x \in Nat, w \in Nat : x < w => x % w = x
  OBVIOUS
<1> QED BY <1>1, WidthAssumption

LEMMA RecordStep ==
    ASSUME CpuIInv, NEW c \in Conns, Record(c)
    PROVE  CpuIInv'
<1> DEFINE dt == (Total(stat[c]) - PrevTotal) % Width
           di == (Idle(stat[c]) - PrevIdle) % Width
           wide == (dt - di) % Width
<1>1. /\ pc[c] = "status" /\ pc' = [pc EXCEPT ![c] = "answered"]
      /\ prev' = stat[c] /\ overtaken' = (overtaken \/ stat[c] < prev)
      /\ UNCHANGED <<stat, samples>>
  BY DEF Record, Goto
<1>2. cpu_percent' = IF MayMeasure /\ dt # 0
                     THEN (100 * wide) \div dt ELSE cpu_percent
  BY DEF Record
<1>3. /\ samples \in Nat /\ stat[c] \in Nat /\ prev \in Nat
      /\ stat[c] <= samples /\ prev <= samples
      /\ 4 * samples < Width /\ Width \in Nat
  <2>1. samples \in Nat /\ samples <= Cardinality(Conns)
    BY SampledFinite DEF CpuIInv, Samples
  <2>2. Cardinality(Conns) \in Nat
    BY WidthAssumption, FS_CardinalityType
  <2> QED BY <2>1, <2>2, WidthAssumption DEF CpuIInv, Samples
<1>4. Sampled' = Sampled
  BY <1>1 DEF Sampled, CpuIInv, Samples
<1>5. Samples'
  BY <1>1, <1>3, <1>4 DEF CpuIInv, Samples, Labels
<1>6. CpuIsShare'
  <2> SUFFICES ASSUME ~overtaken', cpu_percent' # cpu_percent
               PROVE  cpu_percent' = 75
    BY <1>1 DEF CpuIInv, CpuIsShare, Share
  <2>1. prev # 0 /\ dt # 0 /\ cpu_percent' = (100 * wide) \div dt
    BY <1>2 DEF MayMeasure
  <2>2. stat[c] - prev \in Nat
    <3>1. ~(stat[c] < prev)
      BY <1>1, Zenon
    <3> QED BY <1>3, <3>1
  <2> DEFINE d == stat[c] - prev
  <2>3. Total(stat[c]) - PrevTotal = 4 * d /\ Idle(stat[c]) - PrevIdle = d
    BY <1>3, <2>1 DEF Total, Idle, PrevTotal, PrevIdle
  <2>4. dt = (4 * d) % Width /\ di = d % Width
    BY <2>3
  <2>5. d \in Nat /\ 4 * d < Width
    BY <1>3, <2>2
  <2> HIDE DEF d, dt, di
  <2>6. d > 0
    <3>1. d = 0 => dt = 0
      BY <1>3, <2>4
    <3> QED BY <2>1, <2>5, <3>1
  <2>7. dt = 4 * d /\ di = d
    BY <2>4, <2>5, <2>6, Difference
  <2>8. wide = 3 * d
    <3>1. dt - di = 3 * d
      BY <2>5, <2>7
    <3> QED BY <2>5, <2>6, <3>1, Difference
  <2> HIDE DEF wide
  <2> QED BY <2>1, <2>5, <2>6, <2>7, <2>8, Difference
<1> QED BY <1>5, <1>6 DEF CpuIInv

\* What status reports is the load between two samples, for any number of
\* requests, whenever they were recorded in the order they were taken.
THEOREM CpuIsMeasured == StoreSpec => []CpuIsShare
<1>1. ASSUME CpuIInv, StoreNext PROVE CpuIInv'
  <2>1. PICK c \in Conns : Upload(c) \/ Load(c) \/ Status(c)
    BY <1>1 DEF StoreNext
  <2>2. CASE Upload(c) \/ Load(c)
    <3>1. /\ pc' \in [Conns -> Labels] /\ Sampled' = Sampled /\ UNCHANGED cpu
      BY <1>1, <2>2, OthersSampleNothing DEF CpuIInv
    <3> QED BY <1>1, <3>1 DEF CpuIInv, Samples, CpuIsShare, cpu
  <2>3. CASE Status(c)
    BY <1>1, <2>3, SampleStep, RecordStep DEF Status
  <2> QED BY <2>1, <2>2, <2>3
<1>2. ASSUME CpuIInv, UNCHANGED storeVars PROVE CpuIInv'
  <2>1. pc' = pc /\ UNCHANGED cpu
    BY <1>2 DEF storeVars
  <2>2. Sampled' = Sampled
    BY <2>1 DEF Sampled
  <2> QED BY <1>2, <2>1, <2>2 DEF CpuIInv, Samples, CpuIsShare, cpu
<1>3. CpuIInv => CpuIsShare
  BY DEF CpuIInv
<1> QED BY <1>1, <1>2, <1>3, InitCpu, PTL DEF StoreSpec
=============================================================================
