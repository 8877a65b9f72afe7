----------------------------- MODULE MCWorkerPool -----------------------------
(* Three workers.  With three workers run goes inline below six jobs: the    *)
(* job counts are none, inline, exactly two per worker, and one more.        *)
EXTENDS WorkerPool

CONSTANTS w1, w2, w3

MCWorkers   == {w1, w2, w3}
MCJobCounts == {0, 2, 6, 7}
=============================================================================
