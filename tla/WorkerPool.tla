------------------------------ MODULE WorkerPool ------------------------------
(***************************************************************************)
(* The thread pool behind every parallel loop of the inference runtime     *)
(* (class WorkerPool, src/inference_v2.cpp:18).  run(n, f) publishes one   *)
(* "generation" of n jobs; every worker joins every generation, claims     *)
(* indices from the atomic counter next_ until they run out, and the last  *)
(* worker to retire wakes the caller.                                      *)
(*                                                                         *)
(* Granularity.  A critical section of mu_ never blocks except in the two  *)
(* condition-variable waits, which release mu_; it is therefore one action *)
(* and mu_ itself is not a variable.  next_.fetch_add and each call f(i)   *)
(* happen outside the lock and are actions of their own, as is notify_all, *)
(* which run makes after it has released mu_.                              *)
(*                                                                         *)
(* There is one caller at a time: the thread that generates.  That is an   *)
(* obligation of the server and is proved there (ExclusiveGeneration in    *)
(* module ApiServer).                                                      *)
(***************************************************************************)
EXTENDS Integers, FiniteSets

CONSTANTS Workers,      \* the threads of workers_
          JobCounts,    \* the values of n passed to run
          MaxCalls      \* bound: how many times run is called

ASSUME PoolAssumption == /\ IsFiniteSet(Workers)
                         /\ Workers # {}
                         /\ JobCounts \subseteq Nat
                         /\ MaxCalls \in Nat

VARIABLES jobs,         \* jobs_
          active,       \* active_: workers that have not retired yet
          generation,   \* generation_; also the identity of the closure fn_
          next,         \* next_: the first index nobody claimed
          stop,         \* stop_
          wpc,          \* where each worker is in worker()
          seen,         \* worker-local: the generation it last joined
          limit,        \* worker-local copy n of jobs_
          idx,          \* worker-local: the index it last claimed
          cpc,          \* where the caller is in run() or ~WorkerPool()
          calls,        \* calls of run so far
          ran           \* history: how often f(i) was called by the latest run

shared == <<jobs, active, generation, next, stop>>
worker == <<wpc, seen, limit, idx>>
caller == <<cpc, calls>>
vars   == <<jobs, active, generation, next, stop, wpc, seen, limit, idx,
            cpc, calls, ran>>

WorkerPCs == {"top", "wait", "claim", "exec", "retire", "exited"}
CallerPCs == {"idle", "inline", "publish", "notify", "await", "sleep",
              "join", "gone"}

Init == /\ jobs = 0 /\ active = 0 /\ generation = 0 /\ next = 0
        /\ stop = FALSE
        /\ wpc = [w \in Workers |-> "top"]
        /\ seen = [w \in Workers |-> 0]
        /\ limit = [w \in Workers |-> 0]
        /\ idx = [w \in Workers |-> 0]
        /\ cpc = "idle"
        /\ calls = 0
        /\ ran = [i \in 0 .. -1 |-> 0]
-----------------------------------------------------------------------------
(* worker() *)

\* A worker blocked in cv_.wait goes back to testing the predicate.
WakeAll_One == IF \E w \in Workers : wpc[w] = "wait"
               THEN [wpc EXCEPT ![CHOOSE w \in Workers : wpc[w] = "wait"] = "top"]
               ELSE wpc
WakeAll == [w \in Workers |-> IF wpc[w] = "wait" THEN "top" ELSE wpc[w]]

\* One pass through the locked part at the top of worker()'s loop: the wait
\* predicate, the test of stop_, and the copies of generation_, fn_ and jobs_.
Block(w) == /\ wpc[w] = "top"
            /\ ~stop /\ generation = seen[w]
            /\ wpc' = [wpc EXCEPT ![w] = "wait"]
            /\ UNCHANGED <<shared, seen, limit, idx, caller, ran>>

Leave(w) == /\ wpc[w] = "top"
            /\ stop
            /\ wpc' = [wpc EXCEPT ![w] = "exited"]
            /\ UNCHANGED <<shared, seen, limit, idx, caller, ran>>

Join(w) == /\ wpc[w] = "top"
           /\ ~stop /\ generation # seen[w]
           /\ seen' = [seen EXCEPT ![w] = generation]
           /\ limit' = [limit EXCEPT ![w] = jobs]
           /\ wpc' = [wpc EXCEPT ![w] = "claim"]
           /\ UNCHANGED <<shared, idx, caller, ran>>

\* A condition variable may wake without a notification.
SpuriousWake(w) == /\ wpc[w] = "wait"
                   /\ wpc' = [wpc EXCEPT ![w] = "top"]
                   /\ UNCHANGED <<shared, seen, limit, idx, caller, ran>>

Exhausted_OffByOne(i, n) == i > n
Exhausted(i, n) == i >= n

Claim(w) == /\ wpc[w] = "claim"
            /\ idx' = [idx EXCEPT ![w] = next]
            /\ next' = next + 1
            /\ wpc' = [wpc EXCEPT ![w] = IF Exhausted(next, limit[w])
                                         THEN "retire" ELSE "exec"]
            /\ UNCHANGED <<jobs, active, generation, stop, seen, limit,
                           caller, ran>>

Exec(w) == /\ wpc[w] = "exec"
           /\ ran' = [ran EXCEPT ![idx[w]] = @ + 1]
           /\ wpc' = [wpc EXCEPT ![w] = "claim"]
           /\ UNCHANGED <<shared, seen, limit, idx, caller>>

\* done_.notify_one: the only thread that ever waits on done_ is the caller.
NotifyDone_Never(a) == cpc
NotifyDone(a) == IF a = 0 /\ cpc = "sleep" THEN "await" ELSE cpc

Retire(w) == /\ wpc[w] = "retire"
             /\ active' = active - 1
             /\ cpc' = NotifyDone(active - 1)
             /\ wpc' = [wpc EXCEPT ![w] = "top"]
             /\ UNCHANGED <<jobs, generation, next, stop, seen, limit, idx,
                            calls, ran>>

Work(w) == \/ Block(w) \/ Leave(w) \/ Join(w)
           \/ Claim(w) \/ Exec(w) \/ Retire(w)
-----------------------------------------------------------------------------
(* run() and ~WorkerPool() *)

\* run tests n first: no job, fewer than two jobs per worker, or a generation.
RunsInline(n) == n < 2 * Cardinality(Workers)

Call(n) == /\ cpc = "idle"
           /\ calls < MaxCalls
           /\ calls' = calls + 1
           /\ IF n = 0
              THEN UNCHANGED <<cpc, ran>>
              ELSE /\ cpc' = IF RunsInline(n) THEN "inline" ELSE "publish"
                   /\ ran' = [i \in 0 .. n-1 |-> 0]
           /\ UNCHANGED <<shared, worker>>

\* for (i = 0; i < n; i++) f(i): the least index not yet run.
InlineJob(i) == /\ cpc = "inline"
                /\ ran[i] = 0
                /\ \A j \in DOMAIN ran : j < i => ran[j] = 1
                /\ ran' = [ran EXCEPT ![i] = 1]
                /\ UNCHANGED <<shared, worker, caller>>

InlineDone == /\ cpc = "inline"
              /\ \A i \in DOMAIN ran : ran[i] = 1
              /\ cpc' = "idle"
              /\ UNCHANGED <<shared, worker, calls, ran>>

CounterAtPublish_Kept == next
CounterAtPublish == 0

\* run's first critical section.
Publish == /\ cpc = "publish"
           /\ jobs' = Cardinality(DOMAIN ran)
           /\ next' = CounterAtPublish
           /\ active' = Cardinality(Workers)
           /\ generation' = generation + 1
           /\ cpc' = "notify"
           /\ UNCHANGED <<stop, worker, calls, ran>>

NotifyAll == /\ cpc = "notify"
             /\ wpc' = WakeAll
             /\ cpc' = "await"
             /\ UNCHANGED <<shared, seen, limit, idx, calls, ran>>

Finished_ClaimsTaken == next >= jobs
Finished == active = 0

\* done_.wait(l, active_ == 0): return, or sleep until notified.
Return == /\ cpc = "await"
          /\ Finished
          /\ cpc' = "idle"
          /\ UNCHANGED <<shared, worker, calls, ran>>

Sleep == /\ cpc = "await"
         /\ ~Finished
         /\ cpc' = "sleep"
         /\ UNCHANGED <<shared, worker, calls, ran>>

SpuriousDone == /\ cpc = "sleep"
                /\ cpc' = "await"
                /\ UNCHANGED <<shared, worker, calls, ran>>

WokenByDestroy_NoOne == wpc
WokenByDestroy == WakeAll

\* The static pool is destroyed by the thread that used it, after its last run.
Destroy == /\ cpc = "idle"
           /\ stop' = TRUE
           /\ wpc' = WokenByDestroy
           /\ cpc' = "join"
           /\ UNCHANGED <<jobs, active, generation, next, seen, limit, idx,
                          calls, ran>>

Joined == /\ cpc = "join"
          /\ \A w \in Workers : wpc[w] = "exited"
          /\ cpc' = "gone"
          /\ UNCHANGED <<shared, worker, calls, ran>>

RunStep == \/ \E i \in DOMAIN ran : InlineJob(i)
           \/ InlineDone \/ Publish \/ NotifyAll \/ Return \/ Sleep \/ Joined

Next == \/ \E w \in Workers : Work(w) \/ SpuriousWake(w)
        \/ \E n \in JobCounts : Call(n)
        \/ RunStep \/ SpuriousDone \/ Destroy

\* The scheduler runs every thread that can run.  Nothing makes a caller call,
\* a spurious wake-up happen, or the process exit.
Fairness == /\ \A w \in Workers : WF_vars(Work(w))
            /\ WF_vars(RunStep)

SafeSpec == Init /\ [][Next]_vars
Spec == SafeSpec /\ Fairness
-----------------------------------------------------------------------------
(* Properties *)

\* The variables have the values the C++ types and the protocol allow.
Counters == /\ jobs \in Nat /\ generation \in Nat /\ next \in Nat
            /\ active \in 0 .. Cardinality(Workers)
            /\ stop \in BOOLEAN
            /\ wpc \in [Workers -> WorkerPCs]
            /\ seen \in [Workers -> Nat]
            /\ limit \in [Workers -> Nat]
            /\ idx \in [Workers -> Nat]
            /\ cpc \in CallerPCs
            /\ calls \in 0 .. MaxCalls

Tallies == \E n \in JobCounts \cup {0} : ran \in [0 .. n-1 -> Nat]

TypeOK == Counters /\ Tallies

\* A job that is running belongs to the latest run, run has not returned, and
\* the index is one of its jobs: the references that f captures from the
\* caller's stack (src/inference_v2.cpp:29) are alive.
ClosureAlive == \A w \in Workers :
    wpc[w] = "exec" => /\ cpc \in {"notify", "await", "sleep"}
                       /\ seen[w] = generation
                       /\ idx[w] \in DOMAIN ran

\* No job is ever run twice, and when run is back with its caller all were run.
ExactlyOnce == /\ \A i \in DOMAIN ran : ran[i] <= 1
               /\ cpc \in {"idle", "join", "gone"} =>
                      \A i \in DOMAIN ran : ran[i] = 1

\* No worker sleeps through a generation: a worker that blocks in cv_.wait
\* while a generation is announced has already joined it.
NoMissedGeneration == \A w \in Workers :
    wpc[w] = "wait" /\ cpc \in {"await", "sleep"} => seen[w] = generation

\* run(n, f) is a parallel for: see module ParallelFor.
PF == INSTANCE ParallelFor WITH
          running <- cpc \in {"inline", "publish", "notify", "await", "sleep"}
ImplementsParallelFor == PF!Spec

\* Destroying the pool terminates: every worker leaves and is joined.
DestroyTerminates == cpc = "join" ~> cpc = "gone"
=============================================================================
