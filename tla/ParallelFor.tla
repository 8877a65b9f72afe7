----------------------------- MODULE ParallelFor -----------------------------
(***************************************************************************)
(* What a caller of WorkerPool::run(n, f) relies on: between the call and  *)
(* the return every index 0 .. n-1 is handed to f exactly once, and run    *)
(* does return.  Nothing is said of threads, queues or wake-ups.           *)
(***************************************************************************)
EXTENDS Integers

CONSTANT JobCounts      \* the values of n that callers pass

VARIABLES running,      \* TRUE between the call and the return of run
          ran           \* ran[i]: how often f(i) was called by the latest run

vars == <<running, ran>>

Init == /\ running = FALSE
        /\ ran = [i \in 0 .. -1 |-> 0]

Start(n) == /\ ~running
            /\ n > 0
            /\ running' = TRUE
            /\ ran' = [i \in 0 .. n-1 |-> 0]

RunJob(i) == /\ running
             /\ ran[i] = 0
             /\ ran' = [ran EXCEPT ![i] = 1]
             /\ UNCHANGED running

Return == /\ running
          /\ \A i \in DOMAIN ran : ran[i] = 1
          /\ running' = FALSE
          /\ UNCHANGED ran

Next == \/ \E n \in JobCounts : Start(n)
        \/ \E i \in DOMAIN ran : RunJob(i)
        \/ Return

Progress == Return \/ \E i \in DOMAIN ran : RunJob(i)

SafeSpec == Init /\ [][Next]_vars

Spec == SafeSpec /\ WF_vars(Progress)
=============================================================================
