--------------------------- MODULE WorkerPoolProofs ---------------------------
(***************************************************************************)
(* Proofs about the worker pool, for any finite set of workers and any     *)
(* numbers of jobs.                                                        *)
(***************************************************************************)
EXTENDS WorkerPool, FiniteSetTheorems, TLAPS

\* The callers of run that wait, and the workers that work, for a generation.
Announced == {"notify", "await", "sleep"}
Engaged == {"claim", "exec", "retire"}

\* The workers that have not yet retired from the latest generation.
Pending == {w \in Workers : seen[w] # generation \/ wpc[w] \in Engaged}

CountsPending == active = Cardinality(Pending)

\* Between two runs nobody is pending; an engaged worker works on the latest
\* generation.
QuietBetweenRuns == cpc \notin Announced => \A w \in Workers : w \notin Pending

EngagedInLatest == \A w \in Workers :
    wpc[w] \in Engaged => seen[w] = generation /\ limit[w] = jobs

\* The destructor comes last, and no worker leaves before it.
StopIsLast == /\ stop => cpc \in {"join", "gone"}
              /\ \A w \in Workers : wpc[w] = "exited" => stop

JobsOfRun == cpc \in Announced => DOMAIN ran = 0 .. jobs - 1

\* An index below next_ was claimed by one worker, which has run it or is
\* about to; an index from next_ on was not run.
Claims == cpc \in Announced =>
    /\ \A w \in Workers : wpc[w] = "exec" =>
           /\ idx[w] \in DOMAIN ran /\ idx[w] < next
           /\ ran[idx[w]] = 0
           /\ \A v \in Workers : wpc[v] = "exec" /\ idx[v] = idx[w] => v = w
    /\ \A i \in DOMAIN ran :
           /\ i >= next => ran[i] = 0
           /\ i < next => \/ ran[i] = 1
                          \/ \E w \in Workers : wpc[w] = "exec" /\ idx[w] = i

\* A worker retires only when every index was claimed.
RetireWhenTaken == cpc \in Announced => \A w \in Workers :
    wpc[w] = "retire" \/ w \notin Pending => next >= jobs

RunsOnce == /\ \A i \in DOMAIN ran : ran[i] \in {0, 1}
            /\ cpc = "publish" => \A i \in DOMAIN ran : ran[i] = 0

Protocol == /\ QuietBetweenRuns /\ EngagedInLatest /\ StopIsLast /\ JobsOfRun
            /\ Claims /\ RetireWhenTaken /\ RunsOnce
            /\ ExactlyOnce /\ NoMissedGeneration

\* The inductive invariant.
IInv == TypeOK /\ CountsPending /\ Protocol
-----------------------------------------------------------------------------
\* Cardinalities that the counter active_ goes through.
LEMMA SubsetCount ==
    ASSUME NEW S \in SUBSET Workers
    PROVE  IsFiniteSet(S) /\ Cardinality(S) \in 0 .. Cardinality(Workers)
<1>1. IsFiniteSet(S) /\ Cardinality(S) <= Cardinality(Workers)
  BY PoolAssumption, FS_Subset
<1>2. Cardinality(S) \in Nat /\ Cardinality(Workers) \in Nat
  BY <1>1, PoolAssumption, FS_CardinalityType
<1> QED BY <1>1, <1>2, SMT

\* run's argument is the number of its jobs.
LEMMA JobCount == ASSUME NEW n \in Nat PROVE Cardinality(0 .. n-1) = n
  BY FS_Interval, SMT

\* The initial state has the invariant.
LEMMA InitInv == Init => IInv
<1> SUFFICES ASSUME Init PROVE IInv
  OBVIOUS
<1>1. stop \in BOOLEAN
  BY Zenon DEF Init
<1>2. Cardinality(Workers) \in Nat
  BY PoolAssumption, FS_CardinalityType
<1>3. TypeOK
  BY <1>1, <1>2, PoolAssumption, SMT DEF Init, TypeOK, Counters, Tallies,
     WorkerPCs, CallerPCs
<1>4. Pending = {}
  BY SMT DEF Init, Pending, Engaged
<1>5. CountsPending
  BY <1>4, FS_EmptySet DEF Init, CountsPending
<1>6. Protocol
  BY <1>4, SMT DEF Init, Protocol, QuietBetweenRuns, EngagedInLatest,
     StopIsLast, JobsOfRun, Claims, RetireWhenTaken, RunsOnce, ExactlyOnce,
     NoMissedGeneration, Announced, Engaged
<1> QED BY <1>3, <1>5, <1>6 DEF IInv

\* A step changes the set of pending workers together with active_.
LEMMA CountStep == IInv /\ [Next]_vars => CountsPending'
<1> SUFFICES ASSUME IInv, [Next]_vars PROVE CountsPending'
  OBVIOUS
<1>e. TypeOK /\ CountsPending /\ QuietBetweenRuns /\ EngagedInLatest
  BY DEF IInv, Protocol
<1> DEFINE Same == Pending' = Pending /\ active' = active
<1>1. ASSUME NEW w \in Workers, Block(w) PROVE Same
  BY <1>1, <1>e, SMT DEF Block, shared, caller, Pending, Engaged, Counters,
     TypeOK
<1>2. ASSUME NEW w \in Workers, Leave(w) PROVE Same
  BY <1>2, <1>e, SMT DEF Leave, shared, caller, Pending, Engaged, Counters,
     TypeOK
<1>3. ASSUME NEW w \in Workers, Join(w) PROVE Same
  BY <1>3, <1>e, SMT DEF Join, shared, caller, Pending, Engaged,
     Counters, TypeOK
<1>4. ASSUME NEW w \in Workers, SpuriousWake(w) PROVE Same
  BY <1>4, <1>e, SMT DEF SpuriousWake, shared, caller, Pending, Engaged,
     Counters, TypeOK
<1>5. ASSUME NEW w \in Workers, Claim(w) PROVE Same
  BY <1>5, <1>e, SMT DEF Claim, Exhausted, caller, Pending, Engaged, Counters,
     TypeOK
<1>6. ASSUME NEW w \in Workers, Exec(w) PROVE Same
  BY <1>6, <1>e, SMT DEF Exec, shared, caller, Pending, Engaged, Counters,
     TypeOK
<1>7. ASSUME NEW w \in Workers, Retire(w) PROVE CountsPending'
  <2>1. w \in Pending /\ Pending' = Pending \ {w}
    BY <1>7, <1>e, SMT DEF Retire, Pending, Engaged, TypeOK, Counters,
       EngagedInLatest
  <2>2. Cardinality(Pending') = Cardinality(Pending) - 1
    BY <2>1, SubsetCount, FS_RemoveElement DEF Pending
  <2> QED BY <1>7, <1>e, <2>2 DEF Retire, CountsPending
<1>8. ASSUME NEW n \in JobCounts, Call(n) PROVE Same
  BY <1>8, <1>e, SMT DEF Call, shared, worker, Pending, Engaged, Counters,
     TypeOK
<1>9. ASSUME NEW i \in DOMAIN ran, InlineJob(i) PROVE Same
  BY <1>9, <1>e, SMT DEF InlineJob, shared, worker, caller, Pending, Engaged,
     Counters, TypeOK
<1>10. ASSUME InlineDone PROVE Same
  BY <1>10, <1>e, SMT DEF InlineDone, shared, worker, Pending, Engaged,
     Counters, TypeOK
<1>11. ASSUME Publish PROVE CountsPending'
  <2>1. Pending' = Workers
    BY <1>11, <1>e, SMT DEF Publish, worker, Pending, QuietBetweenRuns,
       Announced, TypeOK, Counters
  <2> QED BY <1>11, <2>1 DEF Publish, CountsPending
<1>12. ASSUME NotifyAll PROVE Same
  BY <1>12, <1>e, SMT DEF NotifyAll, WakeAll, shared, Pending, Engaged,
     Counters, TypeOK
<1>13. ASSUME Return PROVE Same
  BY <1>13, <1>e, SMT DEF Return, Finished, shared, worker, Pending, Engaged,
     Counters, TypeOK
<1>14. ASSUME Sleep PROVE Same
  BY <1>14, <1>e, SMT DEF Sleep, Finished, shared, worker, Pending, Engaged,
     Counters, TypeOK
<1>15. ASSUME SpuriousDone PROVE Same
  BY <1>15, <1>e, SMT DEF SpuriousDone, shared, worker, Pending, Engaged,
     Counters, TypeOK
<1>16. ASSUME Destroy PROVE Same
  BY <1>16, <1>e, SMT DEF Destroy, WokenByDestroy, WakeAll, Pending, Engaged,
     Counters, TypeOK
<1>17. ASSUME Joined PROVE Same
  BY <1>17, <1>e, SMT DEF Joined, shared, worker, Pending, Engaged, Counters,
     TypeOK
<1>18. ASSUME UNCHANGED vars PROVE Same
  BY <1>18 DEF vars, Pending
<1>19. ASSUME Same PROVE CountsPending'
  BY <1>19, <1>e DEF CountsPending
<1> QED BY <1>1, <1>2, <1>3, <1>4, <1>5, <1>6, <1>7, <1>8, <1>9, <1>10, <1>11,
        <1>12, <1>13, <1>14, <1>15, <1>16, <1>17, <1>18, <1>19 DEF Next, Work,
        RunStep

\* Every step of a thread keeps the types of the counters ...
LEMMA CountersStep == IInv /\ [Next]_vars => Counters'
<1> SUFFICES ASSUME IInv, [Next]_vars PROVE Counters'
  OBVIOUS
<1>c. active' \in 0 .. Cardinality(Workers)
  <2>1. active' = Cardinality(Pending')
    BY CountStep DEF CountsPending
  <2>2. Pending' \in SUBSET Workers
    BY DEF Pending
  <2> QED BY <2>1, <2>2, SubsetCount
<1>e. Counters /\ Tallies
  BY DEF IInv, TypeOK
<1> USE <1>c, <1>e, PoolAssumption DEF Counters, WorkerPCs, CallerPCs
<1>1. ASSUME NEW w \in Workers, Block(w) PROVE Counters'
  BY <1>1, SMT DEF Block, shared, caller
<1>2. ASSUME NEW w \in Workers, Leave(w) PROVE Counters'
  BY <1>2, SMT DEF Leave, shared, caller
<1>3. ASSUME NEW w \in Workers, Join(w) PROVE Counters'
  BY <1>3, SMT DEF Join, shared, caller
<1>4. ASSUME NEW w \in Workers, SpuriousWake(w) PROVE Counters'
  BY <1>4, SMT DEF SpuriousWake, shared, caller
<1>5. ASSUME NEW w \in Workers, Claim(w) PROVE Counters'
  BY <1>5, SMT DEF Claim, Exhausted, caller
<1>6. ASSUME NEW w \in Workers, Exec(w) PROVE Counters'
  BY <1>6, SMT DEF Exec, shared, caller
<1>7. ASSUME NEW w \in Workers, Retire(w) PROVE Counters'
  BY <1>7, SMT DEF Retire, NotifyDone
<1>8. ASSUME NEW n \in JobCounts, Call(n) PROVE Counters'
  BY <1>8, SMT DEF Call, shared, worker
<1>9. ASSUME NEW i \in DOMAIN ran, InlineJob(i) PROVE Counters'
  BY <1>9, SMT DEF InlineJob, shared, worker, caller
<1>10. ASSUME InlineDone PROVE Counters'
  BY <1>10, SMT DEF InlineDone, shared, worker
<1>11. ASSUME Publish PROVE Counters'
  <2>1. PICK n \in Nat : DOMAIN ran = 0 .. n-1
    BY SMT DEF Tallies
  <2>2. jobs' \in Nat
    BY <1>11, <2>1, JobCount DEF Publish
  <2> QED BY <1>11, <2>2, SMT DEF Publish, CounterAtPublish, worker
<1>12. ASSUME NotifyAll PROVE Counters'
  BY <1>12, SMT DEF NotifyAll, WakeAll, shared
<1>13. ASSUME Return PROVE Counters'
  BY <1>13, SMT DEF Return, Finished, shared, worker
<1>14. ASSUME Sleep PROVE Counters'
  BY <1>14, SMT DEF Sleep, Finished, shared, worker
<1>15. ASSUME SpuriousDone PROVE Counters'
  BY <1>15, SMT DEF SpuriousDone, shared, worker
<1>16. ASSUME Destroy PROVE Counters'
  <2>1. stop' \in BOOLEAN
    BY <1>16, Zenon DEF Destroy
  <2> QED BY <1>16, <2>1, SMT DEF Destroy, WokenByDestroy, WakeAll
<1>17. ASSUME Joined PROVE Counters'
  BY <1>17, SMT DEF Joined, shared, worker
<1>18. CASE UNCHANGED vars
  BY <1>18, SMT DEF vars
<1> QED BY <1>1, <1>2, <1>3, <1>4, <1>5, <1>6, <1>7, <1>8, <1>9, <1>10, <1>11,
        <1>12, <1>13, <1>14, <1>15, <1>16, <1>17, <1>18 DEF Next, Work, RunStep

\* ... and of the tallies.
LEMMA TalliesStep == IInv /\ [Next]_vars => Tallies'
<1> SUFFICES ASSUME IInv, [Next]_vars PROVE Tallies'
  OBVIOUS
<1>1. PICK m \in JobCounts \cup {0} : ran \in [0 .. m-1 -> Nat]
  BY DEF IInv, TypeOK, Tallies
<1>2. ASSUME NEW w \in Workers, Exec(w) PROVE ran' \in [0 .. m-1 -> Nat]
  <2>1. w \in Pending
    BY <1>2 DEF Exec, Pending, Engaged
  <2>2. idx[w] \in 0 .. m-1
    BY <1>1, <1>2, <2>1, SMT DEF IInv, Protocol, QuietBetweenRuns, Claims, Exec
  <2> QED BY <1>1, <1>2, <2>2, SMT DEF Exec
<1>3. ASSUME NEW n \in JobCounts, Call(n) PROVE Tallies'
  BY <1>1, <1>3, PoolAssumption, SMT DEF Call, Tallies
<1>4. ASSUME NEW i \in DOMAIN ran, InlineJob(i)
      PROVE  ran' \in [0 .. m-1 -> Nat]
  BY <1>1, <1>4, PoolAssumption, SMT DEF InlineJob
<1>5. ASSUME ran' = ran PROVE ran' \in [0 .. m-1 -> Nat]
  BY <1>1, <1>5
<1> QED BY <1>2, <1>3, <1>4, <1>5
        DEF Next, Work, RunStep, Block, Leave, Join, Claim, Retire,
            SpuriousWake, InlineDone, Publish, NotifyAll, Return, Sleep,
            SpuriousDone, Destroy, Joined, vars, Tallies

\* Every step of a thread keeps the protocol.
LEMMA ProtocolStep == IInv /\ [Next]_vars => Protocol'
<1> SUFFICES ASSUME IInv, [Next]_vars PROVE Protocol'
  OBVIOUS
<1>e. TypeOK /\ Protocol
  BY DEF IInv
<1> USE <1>e, PoolAssumption
    DEF TypeOK, Counters, Protocol, QuietBetweenRuns, EngagedInLatest, StopIsLast,
        JobsOfRun, Claims, RetireWhenTaken, RunsOnce, ExactlyOnce,
        NoMissedGeneration, Announced, Engaged, Pending, WorkerPCs, CallerPCs
<1>1. ASSUME NEW w \in Workers, Block(w) PROVE Protocol'
  BY <1>1, SMT DEF Block, shared, caller
<1>2. ASSUME NEW w \in Workers, Leave(w) PROVE Protocol'
  BY <1>2, SMT DEF Leave, shared, caller
<1>3. ASSUME NEW w \in Workers, Join(w) PROVE Protocol'
  BY <1>3, SMT DEF Join, shared, caller
<1>4. ASSUME NEW w \in Workers, SpuriousWake(w) PROVE Protocol'
  BY <1>4, SMT DEF SpuriousWake, shared, caller
<1>5. ASSUME NEW w \in Workers, Claim(w) PROVE Protocol'
  BY <1>5, SMT DEF Claim, Exhausted, caller
<1>6. ASSUME NEW w \in Workers, Exec(w) PROVE Protocol'
  BY <1>6, SMT DEF Exec, shared, caller
<1>7. ASSUME NEW w \in Workers, Retire(w) PROVE Protocol'
  BY <1>7, SMT DEF Retire, NotifyDone
<1>8. ASSUME NEW n \in JobCounts, Call(n) PROVE Protocol'
  BY <1>8, SMT DEF Call, shared, worker
<1>9. ASSUME NEW i \in DOMAIN ran, InlineJob(i) PROVE Protocol'
  BY <1>9, SMT DEF InlineJob, shared, worker, caller
<1>10. ASSUME InlineDone PROVE Protocol'
  BY <1>10, SMT DEF InlineDone, shared, worker
<1>11. ASSUME Publish PROVE Protocol'
  <2>0. PICK n \in JobCounts \cup {0} : ran \in [0 .. n-1 -> Nat]
    BY <1>e DEF TypeOK, Tallies
  <2>1. n \in Nat /\ DOMAIN ran = 0 .. n-1
    BY <2>0, PoolAssumption
  <2>2. jobs' = n
    BY <1>11, <2>1, JobCount DEF Publish
  <2> QED BY <1>11, <2>1, <2>2, SMT DEF Publish, CounterAtPublish, worker
<1>12. ASSUME NotifyAll PROVE Protocol'
  BY <1>12, SMT DEF NotifyAll, WakeAll, shared
<1>13. ASSUME Return PROVE Protocol'
  <2>1. Pending = {}
    <3>1. Pending \in SUBSET Workers /\ active = 0 /\ CountsPending
      BY <1>13 DEF IInv, Return, Finished
    <3> QED BY <3>1, SubsetCount, FS_EmptySet DEF CountsPending
  <2>2. PICK w \in Workers : w \notin Pending
    BY <2>1
  <2>3. next >= jobs
    BY <1>13, <2>2 DEF Return
  <2>4. \A v \in Workers : wpc[v] # "exec"
    BY <2>1
  <2>5. \A i \in DOMAIN ran : ran[i] = 1
    BY <1>13, <2>3, <2>4, SMT DEF Return
  <2> QED BY <1>13, <2>1, <2>4, <2>5, SMT DEF Return, shared, worker
<1>14. ASSUME Sleep PROVE Protocol'
  BY <1>14, SMT DEF Sleep, Finished, shared, worker
<1>15. ASSUME SpuriousDone PROVE Protocol'
  BY <1>15, SMT DEF SpuriousDone, shared, worker
<1>16. ASSUME Destroy PROVE Protocol'
  BY <1>16, SMT DEF Destroy, WokenByDestroy, WakeAll
<1>17. ASSUME Joined PROVE Protocol'
  BY <1>17, SMT DEF Joined, shared, worker
<1>18. CASE UNCHANGED vars
  BY <1>18, SMT DEF vars
<1> QED BY <1>1, <1>2, <1>3, <1>4, <1>5, <1>6, <1>7, <1>8, <1>9, <1>10, <1>11,
        <1>12, <1>13, <1>14, <1>15, <1>16, <1>17, <1>18 DEF Next, Work, RunStep

-----------------------------------------------------------------------------
\* The inductive invariant holds in every state that the pool can reach.
THEOREM Invariance == SafeSpec => []IInv
<1>1. IInv /\ [Next]_vars => IInv'
  BY CountStep, CountersStep, TalliesStep, ProtocolStep DEF IInv, TypeOK
<1> QED BY InitInv, <1>1, PTL DEF SafeSpec

\* The variables keep their types.
THEOREM TypeCorrect == SafeSpec => []TypeOK
<1>1. IInv => TypeOK
  BY DEF IInv
<1> QED BY Invariance, <1>1, PTL

\* While a job runs its caller waits in run, so that what the job refers to on
\* the caller's stack exists; and it is a job of that run.
THEOREM NoDanglingClosure == SafeSpec => []ClosureAlive
<1>1. IInv => ClosureAlive
  BY DEF IInv, Protocol, QuietBetweenRuns, EngagedInLatest, Claims, Pending,
         Announced, Engaged, ClosureAlive
<1> QED BY Invariance, <1>1, PTL

\* Each job runs once, whatever the number of workers and of jobs.
THEOREM JobsRunOnce == SafeSpec => []ExactlyOnce
<1>1. IInv => ExactlyOnce
  BY DEF IInv, Protocol
<1> QED BY Invariance, <1>1, PTL

\* No worker is left blocked when a generation has been announced.
THEOREM NobodySleepsThrough == SafeSpec => []NoMissedGeneration
<1>1. IInv => NoMissedGeneration
  BY DEF IInv, Protocol
<1> QED BY Invariance, <1>1, PTL
-----------------------------------------------------------------------------
Running == cpc \in {"inline", "publish", "notify", "await", "sleep"}

\* run is a parallel for: every step of a worker or of the caller starts it,
\* runs one of its jobs for the first time, returns from it when all have run,
\* or is invisible.
THEOREM Refinement == SafeSpec => PF!SafeSpec
<1>1. Init => PF!Init
  BY SMT DEF Init, PF!Init
<1>2. IInv /\ [Next]_vars => [PF!Next]_<<Running, ran>>
  <2> SUFFICES ASSUME IInv, [Next]_vars PROVE [PF!Next]_<<Running, ran>>
    OBVIOUS
  <2> DEFINE Quiet == Running' = Running /\ ran' = ran
  <2>e. Counters /\ Protocol
    BY DEF IInv, TypeOK
  <2> USE DEF Running
  <2>1. ASSUME NEW w \in Workers, Block(w) PROVE Quiet
    BY <2>1, SMT DEF Block, shared, caller
  <2>2. ASSUME NEW w \in Workers, Leave(w) PROVE Quiet
    BY <2>2, SMT DEF Leave, shared, caller
  <2>3. ASSUME NEW w \in Workers, Join(w) PROVE Quiet
    BY <2>3, SMT DEF Join, shared, caller
  <2>4. ASSUME NEW w \in Workers, SpuriousWake(w) PROVE Quiet
    BY <2>4, SMT DEF SpuriousWake, shared, caller
  <2>5. ASSUME NEW w \in Workers, Claim(w) PROVE Quiet
    BY <2>5, SMT DEF Claim, Exhausted, caller
  <2>6. ASSUME NEW w \in Workers, Exec(w) PROVE PF!RunJob(idx[w])
    <3>1. w \in Pending
      BY <2>6 DEF Exec, Pending, Engaged
    <3>2. /\ cpc \in Announced /\ idx[w] \in DOMAIN ran
          /\ ran[idx[w]] = 0
      BY <2>6, <3>1, <2>e DEF Protocol, QuietBetweenRuns, Claims, Exec
    <3> QED BY <2>6, <3>2, SMT DEF Exec, caller, PF!RunJob, Announced
  <2>6a. ASSUME NEW w \in Workers, Exec(w) PROVE idx[w] \in DOMAIN ran
    BY <2>6a, <2>e DEF Exec, Protocol, QuietBetweenRuns, Claims, Pending,
        Engaged
  <2>7. ASSUME NEW w \in Workers, Retire(w) PROVE Quiet
    BY <2>7, SMT DEF Retire, NotifyDone
  <2>8. ASSUME NEW n \in JobCounts, Call(n) PROVE PF!Start(n) \/ Quiet
    BY <2>8, PoolAssumption, SMT DEF Call, PF!Start
  <2>9. ASSUME NEW i \in DOMAIN ran, InlineJob(i) PROVE PF!RunJob(i)
    BY <2>9, SMT DEF InlineJob, caller, PF!RunJob
  <2>10. ASSUME InlineDone PROVE PF!Return
    BY <2>10, SMT DEF InlineDone, PF!Return
  <2>11. ASSUME Publish PROVE Quiet
    BY <2>11, SMT DEF Publish, CounterAtPublish, worker
  <2>12. ASSUME NotifyAll PROVE Quiet
    BY <2>12, SMT DEF NotifyAll, WakeAll, shared
  <2>13. ASSUME Return PROVE PF!Return
    <3>1. ExactlyOnce'
      BY ProtocolStep DEF Protocol
    <3>2. \A i \in DOMAIN ran : ran[i] = 1
      BY <2>13, <3>1 DEF Return, ExactlyOnce
    <3> QED BY <2>13, <3>2, SMT DEF Return, PF!Return
  <2>14. ASSUME Sleep PROVE Quiet
    BY <2>14, SMT DEF Sleep, Finished, shared, worker
  <2>15. ASSUME SpuriousDone PROVE Quiet
    BY <2>15, SMT DEF SpuriousDone, shared, worker
  <2>16. ASSUME Destroy PROVE Quiet
    BY <2>16, SMT DEF Destroy, WokenByDestroy, WakeAll
  <2>17. ASSUME Joined PROVE Quiet
    BY <2>17, SMT DEF Joined, shared, worker
  <2>18. ASSUME UNCHANGED vars PROVE Quiet
    BY <2>18 DEF vars
  <2> QED BY <2>1, <2>2, <2>3, <2>4, <2>5, <2>6, <2>6a, <2>7, <2>8, <2>9,
          <2>10, <2>11, <2>12, <2>13, <2>14, <2>15, <2>16, <2>17, <2>18 DEF
          Next, Work, RunStep, PF!Next
<1> QED BY <1>1, <1>2, Invariance, PTL
    DEF SafeSpec, PF!SafeSpec, PF!vars, Running
=============================================================================
