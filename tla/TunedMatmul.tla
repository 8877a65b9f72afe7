----------------------------- MODULE TunedMatmul -----------------------------
(***************************************************************************)
(* The benchmark (bench/bench.cpp): it detects the machine, shows what it  *)
(* found, and multiplies matrices.  Every product detects the machine once *)
(* more and finds the same (norm, src/matmul.cpp:31): what CacheDetect     *)
(* reports decides the tiles and the threads of Matmul.                    *)
(***************************************************************************)
EXTENDS Matmul, CacheDetect

tunedVars == <<vars, detectVars>>

\* What auto_cfg takes from the CachePlan of machine h.
Reported(h) == LET c == CachePlan(h).cpu
               IN [l1d |-> c.l1_data_bytes, cpus |-> c.logical_cpus]

ASSUME TunedAssumption == \A h \in Hosts : Reported(h) \in Machines

TunedInit == Init /\ Detected

TunedCall(s, c) == Call(s, c, Reported(host)) /\ UNCHANGED detectVars

TunedNext == \/ \E s \in Shapes, c \in Configs : TunedCall(s, c)
             \/ Proceed /\ UNCHANGED detectVars
             \/ Work /\ UNCHANGED detectVars

TunedSafeSpec == TunedInit /\ [][TunedNext]_tunedVars

TunedSpec == TunedSafeSpec /\ WF_tunedVars(Proceed /\ UNCHANGED detectVars)
                           /\ WF_tunedVars(Work /\ UNCHANGED detectVars)
=============================================================================
