---------------------------- MODULE ApiServerProofs ----------------------------
(***************************************************************************)
(* Proofs about the handlers of the API server, for any number of          *)
(* connections and runtime objects and any token bound.                    *)
(***************************************************************************)
EXTENDS ApiServer, TLAPS

\* What ownership of the runtimes rests on, besides the properties themselves:
\* the loaded runtime exists, a load owns the one it has made and nobody else
\* has seen it, and a stop has a pointer to dereference.
LoadedIsLive == rt # None => life[rt] = "live"

LoadOwnsItsRuntime == \A c \in Conns : pc[c] = "install" =>
    /\ mine[c] \in Runtimes /\ life[mine[c]] = "live" /\ mine[c] # rt
    /\ \A d \in Conns : pc[d] = "install" /\ mine[d] = mine[c] => d = c

StopHasPointer == \A c \in Conns : pc[c] = "signal" => mine[c] \in Runtimes

Ownership == /\ GenerationOwnsLiveRuntime
             /\ ExclusiveGeneration
             /\ NoLeak
             /\ LoadedIsLive
             /\ LoadOwnsItsRuntime
             /\ StopHasPointer

\* What the replies rest on: a request starts with nothing counted or
\* answered, only the handlers of a chat pass through a generation, ...
FreshRequest == \A c \in Conns :
    /\ pc[c] \in {"idle", "start", "header", "reset"} => sent[c] = 0
    /\ pc[c] \notin {"finish", "answer", "reply", "done"} => c \notin stopped
    /\ pc[c] \notin {"signal", "reply", "done"} => answer[c] = "none"

ChatPhases == \A c \in Conns :
    /\ Generating(c) \/ pc[c] \in {"refuse", "answer"} => op[c] \in ChatOps
    /\ pc[c] \in {"install", "name", "signal"} => op[c] \notin ChatOps
    /\ pc[c] = "signal" => op[c] = "stop"

\* ... a late token is followed by the callback's look at the flag, ...
LateEndsLoop == \A c \in Conns : Generating(c) =>
    late = 0 \/ (StopSeen(c) /\ pc[c] \in {"emitted", "returned", "finish"})

\* ... and a generation that was cut finds the flag still raised at the end.
CutKeepsFlag == \A c \in Conns : ended[c] \in {"cut", "aborted"} =>
    /\ pc[c] = "returned" => StopSeen(c)
    /\ pc[c] \in {"finish", "answer"} => c \in stopped

EndIsKnown == \A c \in Conns :
    /\ pc[c] \in {"returned", "finish", "answer"} => ended[c] # "no"
    /\ ended[c] # "no" =>
          pc[c] \in {"returned", "finish", "answer", "reply", "done"}

Replies == /\ CounterIsOwn /\ LateTokens /\ TruncationReported
           /\ FreshRequest /\ ChatPhases /\ LateEndsLoop
           /\ CutKeepsFlag /\ EndIsKnown

\* What the reported stops rest on: the stops noted at the beginning were done
\* by then, and after the reset a flag that is raised, or was when the report
\* read it, is the work of a stop that was not.
BeforeIsPast == \A d \in before : d \in Conns /\ Signalled(d)

FlagIsOwn == \A c \in Conns :
    /\ Generating(c) /\ pc[c] \notin {"header", "reset"}
    /\ StopSeen(c) \/ c \in stopped
    => StopReached(c)

Stops == BeforeIsPast /\ FlagIsOwn

\* The inductive invariant.
IInv == TypeOK /\ Ownership /\ Replies /\ Stops

-----------------------------------------------------------------------------
\* The initial state has it.
LEMMA InitInv == Init => IInv
<1> SUFFICES ASSUME Init PROVE IInv
  OBVIOUS
<1>1. generating \in BOOLEAN
  BY Zenon DEF Init
<1>2. TypeOK
  BY <1>1, ServerAssumption, SMT DEF Init, TypeOK, PCs, Using, Ops, Answers
<1>3. ~generating /\ \A c \in Conns : ~Generating(c)
  BY SMT DEF Init, Generating, Using
<1>4. Ownership
  BY <1>3, SMT DEF Init, Ownership, GenerationOwnsLiveRuntime,
     ExclusiveGeneration, NoLeak, LoadedIsLive, LoadOwnsItsRuntime,
     StopHasPointer
<1>5. Replies
  BY SMT DEF Init, Generating, Using, Replies, CounterIsOwn, LateTokens,
     TruncationReported, FreshRequest, ChatPhases,
     LateEndsLoop, CutKeepsFlag, EndIsKnown, StopSeen, ChatOps
<1>6. Stops
  BY <1>3 DEF Init, Stops, BeforeIsPast, FlagIsOwn
<1> QED BY <1>2, <1>4, <1>5, <1>6 DEF IInv

\* Every handler keeps the types of the variables.
LEMMA TypeStep == IInv /\ [Next]_vars => TypeOK'
<1> SUFFICES ASSUME TypeOK, LoadedIsLive, LoadOwnsItsRuntime, StopHasPointer,
                    [Next]_vars
             PROVE  TypeOK'
  BY DEF IInv, Ownership
<1> USE DEF TypeOK, PCs, Using, Ops, ChatOps, Answers, Goto, Say, At, End
<1>1. ASSUME NEW c \in Conns, NEW o \in Ops, Arrive(c, o) PROVE TypeOK'
  BY <1>1, SMT DEF Arrive, shared, heap, ghost
<1>2. ASSUME NEW c \in Conns, Reply(c) PROVE TypeOK'
  BY <1>2, SMT DEF Reply, MuAfterReply, heap, local, ghost
<1>3. ASSUME NEW c \in Conns, BeginGeneration(c) PROVE TypeOK'
  <2>1. generating' \in BOOLEAN
    BY <1>3, Zenon DEF BeginGeneration
  <2> QED BY <1>3, <2>1, SMT DEF BeginGeneration, MayBegin, TokensAtBegin, heap
<1>4. ASSUME NEW c \in Conns, RefuseGeneration(c) PROVE TypeOK'
  BY <1>4, SMT DEF RefuseGeneration, shared, heap, local, ghost
<1>5. ASSUME NEW c \in Conns, ExplainRefusal(c) PROVE TypeOK'
  BY <1>5, SMT DEF ExplainRefusal, heap, ghost
<1>6. ASSUME NEW c \in Conns, SendHeader(c) PROVE TypeOK'
  BY <1>6, SMT DEF SendHeader, shared, heap, local, ghost
<1>7. ASSUME NEW c \in Conns, ResetStop(c) PROVE TypeOK'
  BY <1>7, SMT DEF ResetStop, FlagsAtReset, shared, local, ghost
<1>8. ASSUME NEW c \in Conns, Network(c) PROVE TypeOK'
  BY <1>8, SMT DEF Network, Compute, Abort, Fail, StopSeen, shared, heap,
    local, ghost
<1>9. ASSUME NEW c \in Conns, Complete(c) PROVE TypeOK'
  BY <1>9, SMT DEF Complete, shared, heap, ghost
<1>10. ASSUME NEW c \in Conns, Break(c) PROVE TypeOK'
  BY <1>10, SMT DEF Break, shared, heap, ghost
<1>11. ASSUME NEW c \in Conns, Sample(c) PROVE TypeOK'
  BY <1>11, SMT DEF Sample, shared, heap, local, ghost
<1>12. ASSUME NEW c \in Conns, Callback(c) PROVE TypeOK'
  BY <1>12, SMT DEF Callback, heap
<1>13. ASSUME NEW c \in Conns, Emitted(c) PROVE TypeOK'
  BY <1>13, SMT DEF Emitted, shared, heap, ghost
<1>14. ASSUME NEW c \in Conns, ReadStopped(c) PROVE TypeOK'
  BY <1>14, SMT DEF ReadStopped, shared, heap, ghost
<1>15. ASSUME NEW c \in Conns, FinishGeneration(c) PROVE TypeOK'
  <2>1. generating' \in BOOLEAN
    BY <1>15, Zenon DEF FinishGeneration
  <2> QED BY <1>15, <2>1, SMT DEF FinishGeneration, heap, local, ghost
<1>16. ASSUME NEW c \in Conns, Answer(c) PROVE TypeOK'
  BY <1>16, SMT DEF Answer, shared, heap, ghost
<1>17. ASSUME NEW c \in Conns, NEW r \in Runtimes, LoadRuntime(c, r)
       PROVE  TypeOK'
  BY <1>17, SMT DEF LoadRuntime, shared, ghost
<1>18. ASSUME NEW c \in Conns, LoadFails(c) PROVE TypeOK'
  BY <1>18, SMT DEF LoadFails, shared, heap, ghost
<1>19. ASSUME NEW c \in Conns, InstallRefused(c) PROVE TypeOK'
  BY <1>19, SMT DEF InstallRefused, Destroyed, LoadOwnsItsRuntime, Busy,
     shared, ghost
<1>20. ASSUME NEW c \in Conns, Install(c) PROVE TypeOK'
  BY <1>20, SMT DEF Install, Destroyed, LoadedIsLive, Busy, local, ghost
<1>21. ASSUME NEW c \in Conns, Name(c) PROVE TypeOK'
  BY <1>21, SMT DEF Name, heap, ghost
<1>22. ASSUME NEW c \in Conns, UnloadRefused(c) PROVE TypeOK'
  BY <1>22, SMT DEF UnloadRefused, Busy, heap, ghost
<1>23. ASSUME NEW c \in Conns, Unload(c) PROVE TypeOK'
  BY <1>23, SMT DEF Unload, RtAfterReset, Destroyed, LoadedIsLive, Busy,
     local, ghost
<1>24. ASSUME NEW c \in Conns, FindRuntime(c) PROVE TypeOK'
  BY <1>24, SMT DEF FindRuntime, shared, heap, ghost
<1>25. ASSUME NEW c \in Conns, RequestStop(c) PROVE TypeOK'
  <2>1. flagged' \subseteq Runtimes
    BY <1>25, SMT DEF RequestStop, Raise, StopHasPointer
  <2> QED BY <1>25, <2>1, SMT DEF RequestStop, Raise, shared, local, ghost
<1>26. ASSUME NEW c \in Conns, RequestStopDangling(c) PROVE TypeOK'
  BY <1>26, SMT DEF RequestStopDangling, Raise, shared, local, ghost
<1>27. CASE UNCHANGED vars
  BY <1>27, SMT DEF vars
<1> QED BY <1>1, <1>2, <1>3, <1>4, <1>5, <1>6, <1>7, <1>8, <1>9, <1>10,
        <1>11, <1>12, <1>13, <1>14, <1>15, <1>16, <1>17, <1>18, <1>19, <1>20,
        <1>21, <1>22, <1>23, <1>24, <1>25, <1>26, <1>27  DEF Next, Handle,
        StreamWrite, Chat, Generate, Load, Stop

\* Every handler respects the ownership of the runtimes.
LEMMA OwnershipStep == IInv /\ [Next]_vars => Ownership'
<1> SUFFICES ASSUME TypeOK, Ownership, [Next]_vars PROVE Ownership'
  BY DEF IInv
<1> USE ServerAssumption
    DEF TypeOK, Ownership, GenerationOwnsLiveRuntime, ExclusiveGeneration,
        NoLeak, LoadedIsLive, LoadOwnsItsRuntime, StopHasPointer, Generating,
        PCs, Using, Ops, ChatOps, Answers, Goto, Say, At
<1>1. ASSUME NEW c \in Conns, NEW o \in Ops, Arrive(c, o) PROVE Ownership'
  BY <1>1, SMT DEF Arrive, shared, heap, ghost
<1>2. ASSUME NEW c \in Conns, Reply(c) PROVE Ownership'
  BY <1>2, SMT DEF Reply, MuAfterReply, heap, local, ghost
<1>3. ASSUME NEW c \in Conns, BeginGeneration(c) PROVE Ownership'
  BY <1>3, SMT DEF BeginGeneration, MayBegin, TokensAtBegin, heap
<1>4. ASSUME NEW c \in Conns, RefuseGeneration(c) PROVE Ownership'
  BY <1>4, SMT DEF RefuseGeneration, shared, heap, local, ghost
<1>5. ASSUME NEW c \in Conns, ExplainRefusal(c) PROVE Ownership'
  BY <1>5, SMT DEF ExplainRefusal, heap, ghost
<1>6. ASSUME NEW c \in Conns, SendHeader(c) PROVE Ownership'
  BY <1>6, SMT DEF SendHeader, shared, heap, local, ghost
<1>7. ASSUME NEW c \in Conns, ResetStop(c) PROVE Ownership'
  BY <1>7, SMT DEF ResetStop, FlagsAtReset, shared, local, ghost
<1>8. ASSUME NEW c \in Conns, Network(c) PROVE Ownership'
  BY <1>8, SMT DEF Network, Compute, Abort, Fail, StopSeen, shared, heap,
    local, ghost
<1>9. ASSUME NEW c \in Conns, Complete(c) PROVE Ownership'
  BY <1>9, SMT DEF Complete, shared, heap, ghost
<1>10. ASSUME NEW c \in Conns, Break(c) PROVE Ownership'
  BY <1>10, SMT DEF Break, shared, heap, ghost
<1>11. ASSUME NEW c \in Conns, Sample(c) PROVE Ownership'
  BY <1>11, SMT DEF Sample, shared, heap, local, ghost
<1>12. ASSUME NEW c \in Conns, Callback(c) PROVE Ownership'
  BY <1>12, SMT DEF Callback, heap
<1>13. ASSUME NEW c \in Conns, Emitted(c) PROVE Ownership'
  BY <1>13, SMT DEF Emitted, shared, heap, ghost
<1>14. ASSUME NEW c \in Conns, ReadStopped(c) PROVE Ownership'
  BY <1>14, SMT DEF ReadStopped, shared, heap, ghost
<1>15. ASSUME NEW c \in Conns, FinishGeneration(c) PROVE Ownership'
  BY <1>15, SMT DEF FinishGeneration, heap, local, ghost
<1>16. ASSUME NEW c \in Conns, Answer(c) PROVE Ownership'
  BY <1>16, SMT DEF Answer, shared, heap, ghost
<1>17. ASSUME NEW c \in Conns, NEW r \in Runtimes, LoadRuntime(c, r)
       PROVE  Ownership'
  BY <1>17, SMT DEF LoadRuntime, shared, ghost
<1>18. ASSUME NEW c \in Conns, LoadFails(c) PROVE Ownership'
  BY <1>18, SMT DEF LoadFails, shared, heap, ghost
<1>19. ASSUME NEW c \in Conns, InstallRefused(c) PROVE Ownership'
  BY <1>19, SMT DEF InstallRefused, Destroyed, Busy, shared, ghost
<1>20. ASSUME NEW c \in Conns, Install(c) PROVE Ownership'
  BY <1>20, SMT DEF Install, Destroyed, Busy, local, ghost
<1>21. ASSUME NEW c \in Conns, Name(c) PROVE Ownership'
  BY <1>21, SMT DEF Name, heap, ghost
<1>22. ASSUME NEW c \in Conns, UnloadRefused(c) PROVE Ownership'
  BY <1>22, SMT DEF UnloadRefused, Busy, heap, ghost
<1>23. ASSUME NEW c \in Conns, Unload(c) PROVE Ownership'
  BY <1>23, SMT DEF Unload, RtAfterReset, Destroyed, Busy, local, ghost
<1>24. ASSUME NEW c \in Conns, FindRuntime(c) PROVE Ownership'
  BY <1>24, SMT DEF FindRuntime, shared, heap, ghost
<1>25. ASSUME NEW c \in Conns, RequestStop(c) PROVE Ownership'
  BY <1>25, SMT DEF RequestStop, Raise, shared, local, ghost
<1>26. ASSUME NEW c \in Conns, RequestStopDangling(c) PROVE Ownership'
  BY <1>26, SMT DEF RequestStopDangling, Raise, shared, local, ghost
<1>27. CASE UNCHANGED vars
  BY <1>27, SMT DEF vars
<1> QED BY <1>1, <1>2, <1>3, <1>4, <1>5, <1>6, <1>7, <1>8, <1>9, <1>10,
        <1>11, <1>12, <1>13, <1>14, <1>15, <1>16, <1>17, <1>18, <1>19, <1>20,
        <1>21, <1>22, <1>23, <1>24, <1>25, <1>26, <1>27  DEF Next, Handle,
        StreamWrite, Chat, Generate, Load, Stop

\* Every handler keeps what the replies rest on.
LEMMA RepliesStep == IInv /\ [Next]_vars => Replies'
<1> SUFFICES ASSUME TypeOK, Ownership, Replies, [Next]_vars PROVE Replies'
  BY DEF IInv
<1> USE ServerAssumption
    DEF TypeOK, Ownership, GenerationOwnsLiveRuntime, ExclusiveGeneration,
        Replies, CounterIsOwn, LateTokens, TruncationReported,
        FreshRequest, ChatPhases, LateEndsLoop, CutKeepsFlag,
        EndIsKnown, Generating, StopSeen,
        PCs, Using, Ops, ChatOps, Answers, Goto, Say, At, End
<1>1. ASSUME NEW c \in Conns, NEW o \in Ops, Arrive(c, o) PROVE Replies'
  BY <1>1, SMT DEF Arrive, shared, heap, ghost
<1>2. ASSUME NEW c \in Conns, Reply(c) PROVE Replies'
  BY <1>2, SMT DEF Reply, MuAfterReply, heap, local, ghost
<1>3. ASSUME NEW c \in Conns, BeginGeneration(c) PROVE Replies'
  BY <1>3, SMT DEF BeginGeneration, MayBegin, TokensAtBegin, heap
<1>4. ASSUME NEW c \in Conns, RefuseGeneration(c) PROVE Replies'
  BY <1>4, SMT DEF RefuseGeneration, shared, heap, local, ghost
<1>5. ASSUME NEW c \in Conns, ExplainRefusal(c) PROVE Replies'
  BY <1>5, SMT DEF ExplainRefusal, heap, ghost
<1>6. ASSUME NEW c \in Conns, SendHeader(c) PROVE Replies'
  BY <1>6, SMT DEF SendHeader, shared, heap, local, ghost
<1>7. ASSUME NEW c \in Conns, ResetStop(c) PROVE Replies'
  BY <1>7, SMT DEF ResetStop, FlagsAtReset, shared, local, ghost
<1>8. ASSUME NEW c \in Conns, Network(c) PROVE Replies'
  BY <1>8, SMT DEF Network, Compute, Abort, Fail, StopSeen, shared, heap,
    local, ghost
<1>9. ASSUME NEW c \in Conns, Complete(c) PROVE Replies'
  BY <1>9, SMT DEF Complete, shared, heap, ghost
<1>10. ASSUME NEW c \in Conns, Break(c) PROVE Replies'
  BY <1>10, SMT DEF Break, shared, heap, ghost
<1>11. ASSUME NEW c \in Conns, Sample(c) PROVE Replies'
  BY <1>11, SMT DEF Sample, shared, heap, local, ghost
<1>12. ASSUME NEW c \in Conns, Callback(c) PROVE Replies'
  BY <1>12, SMT DEF Callback, heap
<1>13. ASSUME NEW c \in Conns, Emitted(c) PROVE Replies'
  BY <1>13, SMT DEF Emitted, shared, heap, ghost
<1>14. ASSUME NEW c \in Conns, ReadStopped(c) PROVE Replies'
  <2>1. CASE StopSeen(c)
    <3>1. stopped' = stopped \cup {c}
      BY <1>14, <2>1 DEF ReadStopped, StoppedToReport
    <3> QED BY <1>14, <2>1, <3>1, SMT DEF ReadStopped, shared, heap, ghost
  <2>2. CASE ~StopSeen(c)
    <3>1. stopped' = stopped
      BY <1>14, <2>2 DEF ReadStopped, StoppedToReport
    <3> QED BY <1>14, <2>2, <3>1, SMT DEF ReadStopped, shared, heap, ghost
  <2> QED BY <2>1, <2>2
<1>15. ASSUME NEW c \in Conns, FinishGeneration(c) PROVE Replies'
  BY <1>15, SMT DEF FinishGeneration, heap, local, ghost
<1>16. ASSUME NEW c \in Conns, Answer(c) PROVE Replies'
  BY <1>16, SMT DEF Answer, shared, heap, ghost
<1>17. ASSUME NEW c \in Conns, NEW r \in Runtimes, LoadRuntime(c, r)
       PROVE  Replies'
  BY <1>17, SMT DEF LoadRuntime, shared, ghost
<1>18. ASSUME NEW c \in Conns, LoadFails(c) PROVE Replies'
  BY <1>18, SMT DEF LoadFails, shared, heap, ghost
<1>19. ASSUME NEW c \in Conns, InstallRefused(c) PROVE Replies'
  BY <1>19, SMT DEF InstallRefused, Destroyed, Busy, shared, ghost
<1>20. ASSUME NEW c \in Conns, Install(c) PROVE Replies'
  BY <1>20, SMT DEF Install, Destroyed, Busy, local, ghost
<1>21. ASSUME NEW c \in Conns, Name(c) PROVE Replies'
  BY <1>21, SMT DEF Name, heap, ghost
<1>22. ASSUME NEW c \in Conns, UnloadRefused(c) PROVE Replies'
  BY <1>22, SMT DEF UnloadRefused, Busy, heap, ghost
<1>23. ASSUME NEW c \in Conns, Unload(c) PROVE Replies'
  BY <1>23, SMT DEF Unload, RtAfterReset, Destroyed, Busy, local, ghost
<1>24. ASSUME NEW c \in Conns, FindRuntime(c) PROVE Replies'
  BY <1>24, SMT DEF FindRuntime, shared, heap, ghost
<1>25. ASSUME NEW c \in Conns, RequestStop(c) PROVE Replies'
  BY <1>25, SMT DEF RequestStop, Raise, shared, local, ghost
<1>26. ASSUME NEW c \in Conns, RequestStopDangling(c) PROVE Replies'
  BY <1>26, SMT DEF RequestStopDangling, Raise, shared, local, ghost
<1>27. CASE UNCHANGED vars
  BY <1>27, SMT DEF vars
<1> QED BY <1>1, <1>2, <1>3, <1>4, <1>5, <1>6, <1>7, <1>8, <1>9, <1>10,
        <1>11, <1>12, <1>13, <1>14, <1>15, <1>16, <1>17, <1>18, <1>19, <1>20,
        <1>21, <1>22, <1>23, <1>24, <1>25, <1>26, <1>27  DEF Next, Handle,
        StreamWrite, Chat, Generate, Load, Stop

-----------------------------------------------------------------------------
\* A stop that has signalled stays one, and a runtime that is gone stays gone.
LEMMA SignalledStays ==
    ASSUME IInv, [Next]_vars, NEW d \in Conns, Signalled(d)
    PROVE  /\ Signalled(d)' /\ mine'[d] = mine[d]
           /\ life[mine[d]] = "dead" => life'[mine[d]] = "dead"
<1> TypeOK /\ LoadedIsLive /\ LoadOwnsItsRuntime
  BY DEF IInv, Ownership
<1> USE DEF Signalled, TypeOK, Goto, Say, At, End, shared, heap, local, ghost
<1>1. ASSUME NEW c \in Conns,
             \/ \E o \in Ops : Arrive(c, o)
             \/ Reply(c) \/ BeginGeneration(c) \/ RefuseGeneration(c)
             \/ ExplainRefusal(c) \/ SendHeader(c) \/ ResetStop(c)
             \/ Network(c) \/ Complete(c) \/ Break(c) \/ Sample(c)
             \/ Callback(c) \/ Emitted(c) \/ FinishGeneration(c) \/ Answer(c)
      PROVE  /\ Signalled(d)' /\ mine'[d] = mine[d] /\ life' = life
  BY <1>1, SMT DEF Arrive, Reply, BeginGeneration, RefuseGeneration,
     ExplainRefusal, SendHeader, ResetStop, Network, Compute, Abort, Fail,
     Complete, Break, Sample, Callback, Emitted, FinishGeneration, Answer
<1>2. ASSUME NEW c \in Conns,
             \/ ReadStopped(c) \/ LoadFails(c) \/ Name(c) \/ UnloadRefused(c)
             \/ FindRuntime(c) \/ RequestStop(c) \/ RequestStopDangling(c)
      PROVE  /\ Signalled(d)' /\ mine'[d] = mine[d] /\ life' = life
  BY <1>2, SMT DEF ReadStopped, LoadFails, Name, UnloadRefused, FindRuntime,
     RequestStop, RequestStopDangling
<1>3. ASSUME NEW c \in Conns,
             \/ \E r \in Runtimes : LoadRuntime(c, r)
             \/ InstallRefused(c) \/ Install(c) \/ Unload(c)
      PROVE  /\ Signalled(d)' /\ mine'[d] = mine[d]
             /\ life[mine[d]] = "dead" => life'[mine[d]] = "dead"
  BY <1>3, SMT DEF LoadRuntime, InstallRefused, Install, Unload, Destroyed,
     LoadedIsLive, LoadOwnsItsRuntime
<1>4. CASE UNCHANGED vars
  BY <1>4 DEF vars
<1> QED BY <1>1, <1>2, <1>3, <1>4
        DEF Next, Handle, StreamWrite, Chat, Generate, Load, Stop

\* What has reached a generation has reached it for good.
LEMMA ReachedStays ==
    ASSUME IInv, [Next]_vars, NEW c \in Conns, StopReached(c),
           before' = before, mine'[c] = mine[c]
    PROVE  StopReached(c)'
<1>1. PICK d \in Conns \ before :
         Signalled(d) /\ (mine[d] = mine[c] \/ life[mine[d]] = "dead")
  BY DEF StopReached
<1>2. /\ Signalled(d)' /\ mine'[d] = mine[d]
      /\ life[mine[d]] = "dead" => life'[mine[d]] = "dead"
  BY <1>1, SignalledStays
<1>3. mine'[d] = mine'[c] \/ life'[mine'[d]] = "dead"
  BY <1>1, <1>2
<1> QED BY <1>1, <1>2, <1>3 DEF StopReached

\* A stop that raises a flag now was not noted before, and it has signalled.
LEMMA StopReaches ==
    ASSUME IInv, NEW c \in Conns, NEW d \in Conns, mine[c] \notin flagged,
           RequestStop(d) \/ RequestStopDangling(d), StopSeen(c)'
    PROVE  StopReached(c)'
<1>1. /\ pc[d] = "signal" /\ op[d] = "stop" /\ mine[d] # None
      /\ pc'[d] = "reply" /\ op' = op /\ mine' = mine /\ life' = life
      /\ before' = before
  BY ServerAssumption, SMT DEF IInv, TypeOK, Ownership, StopHasPointer, Replies,
     ChatPhases, RequestStop, RequestStopDangling, Goto, local, ghost
<1>2. d \notin before
  BY <1>1, SMT DEF IInv, Stops, BeforeIsPast, Signalled
<1>3. mine[d] = mine[c] \/ life[mine[d]] = "dead"
  BY <1>1, SMT DEF RequestStop, RequestStopDangling, Raise, StopSeen
<1> QED BY <1>1, <1>2, <1>3, SMT DEF StopReached, Signalled

\* Every handler keeps what the reported stops rest on.
LEMMA StopsStep == IInv /\ [Next]_vars => Stops'
<1> SUFFICES ASSUME IInv, [Next]_vars PROVE Stops'
  OBVIOUS
<1>t. TypeOK /\ ExclusiveGeneration /\ FreshRequest /\ BeforeIsPast /\ FlagIsOwn
  BY DEF IInv, Ownership, Replies, Stops
<1>b. before' = before \/ before' = {d \in Conns : Signalled(d)}
  BY SMT DEF Next, vars, Handle, StreamWrite, Chat, Generate, Load, Stop, Arrive,
     Reply, BeginGeneration, RefuseGeneration, ExplainRefusal, SendHeader,
     ResetStop, Network, Compute, Abort, Fail, Complete, Break, Sample, Callback,
     Emitted, ReadStopped, FinishGeneration, Answer, LoadRuntime, LoadFails,
     InstallRefused, Install, Name, UnloadRefused, Unload, FindRuntime,
     RequestStop, RequestStopDangling, ghost
<1>p. BeforeIsPast'
  <2> SUFFICES ASSUME NEW d \in before' PROVE d \in Conns /\ Signalled(d)'
    BY DEF BeforeIsPast
  <2>1. d \in Conns /\ Signalled(d)
    BY <1>b, <1>t DEF BeforeIsPast
  <2> QED BY <2>1, SignalledStays
<1>f. FlagIsOwn'
  <2> SUFFICES ASSUME NEW c \in Conns, Generating(c)',
                      pc'[c] \notin {"header", "reset"},
                      StopSeen(c)' \/ c \in stopped'
               PROVE  StopReached(c)'
    BY DEF FlagIsOwn
  <2> DEFINE Was == /\ Generating(c) /\ pc[c] \notin {"header", "reset"}
                    /\ StopSeen(c) \/ c \in stopped
                    /\ before' = before /\ mine'[c] = mine[c]
  <2>w. ASSUME Was PROVE StopReached(c)'
    BY <2>w, <1>t, ReachedStays DEF FlagIsOwn
  <2> USE <1>t DEF TypeOK, Goto, Say, At, End, shared, heap, local, ghost,
                   Generating, Using, StopSeen
  <2>1. ASSUME NEW d \in Conns, BeginGeneration(d) PROVE FALSE
    BY <2>1, SMT DEF BeginGeneration, MayBegin, ExclusiveGeneration
  <2>2. ASSUME NEW d \in Conns, ResetStop(d) PROVE Was
    BY <2>2, SMT DEF ResetStop, FlagsAtReset, ExclusiveGeneration, FreshRequest
  <2>3. ASSUME NEW d \in Conns, RequestStop(d) \/ RequestStopDangling(d)
        PROVE  StopReached(c)'
    <3>1. /\ pc'[c] = pc[c] \/ pc'[c] = "reply"
          /\ mine' = mine /\ stopped' = stopped /\ before' = before
      BY <2>3, SMT DEF RequestStop, RequestStopDangling
    <3>2. CASE mine[c] \in flagged \/ c \in stopped
      <4>1. Was
        BY <3>1, <3>2, <2>3, SMT DEF RequestStop, RequestStopDangling
      <4> QED BY <4>1, <2>w
    <3>3. CASE mine[c] \notin flagged /\ c \notin stopped
      BY <2>3, <3>1, <3>3, StopReaches
    <3> QED BY <3>2, <3>3
  <2>4. ASSUME NEW d \in Conns, ReadStopped(d) PROVE Was
    <3>1. stopped' = (IF StopSeen(d) THEN stopped \cup {d} ELSE stopped)
      BY <2>4 DEF ReadStopped, StoppedToReport
    <3> QED BY <2>4, <3>1, SMT DEF ReadStopped
  <2>5. ASSUME NEW d \in Conns,
               \/ \E o \in Ops : Arrive(d, o)
               \/ Reply(d) \/ RefuseGeneration(d) \/ ExplainRefusal(d)
               \/ SendHeader(d) \/ Network(d) \/ Complete(d) \/ Break(d)
               \/ Sample(d) \/ Callback(d) \/ Emitted(d)
        PROVE  Was
    BY <2>5, SMT DEF Arrive, Reply, RefuseGeneration, ExplainRefusal, SendHeader,
       Network, Compute, Abort, Fail, Complete, Break, Sample, Callback, Emitted
  <2>6. ASSUME NEW d \in Conns,
               \/ FinishGeneration(d) \/ Answer(d) \/ LoadFails(d)
               \/ InstallRefused(d) \/ Install(d) \/ Name(d)
               \/ UnloadRefused(d) \/ Unload(d) \/ FindRuntime(d)
               \/ \E r \in Runtimes : LoadRuntime(d, r)
        PROVE  Was
    BY <2>6, SMT DEF FinishGeneration, Answer, LoadFails, InstallRefused, Install,
       Name, UnloadRefused, Unload, FindRuntime, LoadRuntime
  <2>7. CASE UNCHANGED vars
    BY <2>7, <2>w DEF vars
  <2> QED BY <2>1, <2>2, <2>3, <2>4, <2>5, <2>6, <2>7, <2>w
          DEF Next, Handle, StreamWrite, Chat, Generate, Load, Stop
<1> QED BY <1>p, <1>f DEF Stops

-----------------------------------------------------------------------------
\* The inductive invariant holds in every state that the server can reach.
THEOREM Invariance == SafeSpec => []IInv
<1>1. IInv /\ [Next]_vars => IInv'
  BY TypeStep, OwnershipStep, RepliesStep, StopsStep DEF IInv
<1> QED BY InitInv, <1>1, PTL DEF SafeSpec

\* The variables keep their types.
THEOREM TypeCorrect == SafeSpec => []TypeOK
<1>1. IInv => TypeOK
  BY DEF IInv
<1> QED BY Invariance, <1>1, PTL

\* A generation works on the loaded runtime, which exists, whatever loads,
\* unloads and chats arrive meanwhile.
THEOREM OwnerSafe == SafeSpec => []GenerationOwnsLiveRuntime
<1>1. IInv => GenerationOwnsLiveRuntime
  BY DEF IInv, Ownership
<1> QED BY Invariance, <1>1, PTL

\* Two requests never generate at the same time: the KV cache of the runtime
\* and the worker pool have one user.
THEOREM MutualExclusion == SafeSpec => []ExclusiveGeneration
<1>1. IInv => ExclusiveGeneration
  BY DEF IInv, Ownership
<1> QED BY Invariance, <1>1, PTL

\* Every runtime that exists is the loaded one or about to be installed.
THEOREM NothingLeaks == SafeSpec => []NoLeak
<1>1. IInv => NoLeak
  BY DEF IInv, Ownership
<1> QED BY Invariance, <1>1, PTL

\* At most one token follows a stop that the generation can still see.
THEOREM PromptStop == SafeSpec => []LateTokens
<1>1. IInv => LateTokens
  BY DEF IInv, Replies
<1> QED BY Invariance, <1>1, PTL

\* A reply calls a generation complete only if nothing cut it short.
THEOREM HonestReplies == SafeSpec => []TruncationReported
<1>1. IInv => TruncationReported
  BY DEF IInv, Replies
<1> QED BY Invariance, <1>1, PTL

\* A reply says stopped only if a stop has signalled since its generation began:
\* no flag is carried over from before.
THEOREM StopsAreOwn == SafeSpec => []NoSpuriousStop
<1>1. IInv => NoSpuriousStop
  BY DEF IInv, Stops, FlagIsOwn, NoSpuriousStop, Generating, Using
<1> QED BY Invariance, <1>1, PTL

\* The counter of tokens is the running generation's, which nobody else counts.
THEOREM CountsAreOwn == SafeSpec => []CounterIsOwn
<1>1. IInv => CounterIsOwn
  BY DEF IInv, Replies
<1> QED BY Invariance, <1>1, PTL
-----------------------------------------------------------------------------
\* The user of the session is the request that generates, if there is one.
SessionUser == IF \E c \in Conns : Generating(c)
               THEN CHOOSE c \in Conns : Generating(c) ELSE None

\* With mutual exclusion it is that request and no other.
LEMMA UserIsGenerating ==
    ASSUME ExclusiveGeneration, NEW c \in Conns, Generating(c)
    PROVE  SessionUser = c
<1>1. \A d \in Conns : Generating(d) => d = c
  BY DEF ExclusiveGeneration
<1> QED BY <1>1 DEF SessionUser

\* At rest there is no user.
LEMMA NoUserWhenIdle ==
    ASSUME \A c \in Conns : ~Generating(c)
    PROVE  SessionUser = None
BY DEF SessionUser

\* A step that begins and ends no generation keeps the user.
LEMMA SameUser ==
    ASSUME ExclusiveGeneration, ExclusiveGeneration',
           \A c \in Conns : Generating(c)' <=> Generating(c)
    PROVE  SessionUser' = SessionUser
<1>1. CASE \A c \in Conns : ~Generating(c)
  BY <1>1 DEF SessionUser
<1>2. CASE \E c \in Conns : Generating(c)
  <2>1. PICK c \in Conns : Generating(c)
    BY <1>2
  <2>2. SessionUser = c
    BY <2>1, UserIsGenerating
  <2>3. Generating(c)' /\ \A d \in Conns : Generating(d)' => d = c
    BY <2>1 DEF ExclusiveGeneration
  <2>4. SessionUser' = c
    BY <2>3 DEF SessionUser
  <2> QED BY <2>2, <2>4
<1> QED BY <1>1, <1>2

\* The handlers implement the one-model session: a step of the server is a
\* step of the session or changes neither its model nor its user.
THEOREM Refinement == SafeSpec => ImplementsModelSession
<1>1. Init => Session!Init
  <2> SUFFICES ASSUME Init PROVE Session!Init
    OBVIOUS
  <2>1. \A c \in Conns : ~Generating(c)
    BY DEF Init, Generating, Using
  <2> QED BY <2>1, NoUserWhenIdle DEF Init, Session!Init, SessionUser
<1>2. IInv /\ IInv' /\ [Next]_vars => [Session!Next]_<<rt, SessionUser>>
  <2> SUFFICES ASSUME IInv, IInv', [Next]_vars
               PROVE  [Session!Next]_<<rt, SessionUser>>
    OBVIOUS
  <2> DEFINE Quiet == /\ rt' = rt
                      /\ \A d \in Conns : Generating(d)' <=> Generating(d)
  <2>e. ExclusiveGeneration /\ ExclusiveGeneration' /\ TypeOK
    BY DEF IInv, Ownership
  <2>1. ASSUME NEW c \in Conns, NEW o \in Ops, Arrive(c, o) PROVE Quiet
    BY <2>1, <2>e, SMT DEF Arrive, shared, Goto, Generating, Using, TypeOK
  <2>2. ASSUME NEW c \in Conns, Reply(c) PROVE Quiet
    BY <2>2, <2>e, SMT DEF Reply, Goto, Generating, Using, TypeOK
  <2>3. ASSUME NEW c \in Conns, RefuseGeneration(c) PROVE Quiet
    BY <2>3, <2>e, SMT DEF RefuseGeneration, shared, Goto, Generating, Using,
      TypeOK
  <2>4. ASSUME NEW c \in Conns, ExplainRefusal(c) PROVE Quiet
    BY <2>4, <2>e, SMT DEF ExplainRefusal, Goto, Generating, Using, TypeOK
  <2>5. ASSUME NEW c \in Conns, SendHeader(c) PROVE Quiet
    BY <2>5, <2>e, SMT DEF SendHeader, shared, Goto, Generating, Using, TypeOK
  <2>6. ASSUME NEW c \in Conns, ResetStop(c) PROVE Quiet
    BY <2>6, <2>e, SMT DEF ResetStop, shared, Goto, Generating, Using, TypeOK
  <2>7. ASSUME NEW c \in Conns, Network(c) PROVE Quiet
    BY <2>7, <2>e, SMT DEF Network, Compute, Abort, Fail, shared, Goto,
      Generating, Using, TypeOK
  <2>8. ASSUME NEW c \in Conns, Complete(c) PROVE Quiet
    BY <2>8, <2>e, SMT DEF Complete, shared, Goto, Generating, Using, TypeOK
  <2>9. ASSUME NEW c \in Conns, Break(c) PROVE Quiet
    BY <2>9, <2>e, SMT DEF Break, shared, Goto, Generating, Using, TypeOK
  <2>10. ASSUME NEW c \in Conns, Sample(c) PROVE Quiet
    BY <2>10, <2>e, SMT DEF Sample, shared, Goto, Generating, Using, TypeOK
  <2>11. ASSUME NEW c \in Conns, Callback(c) PROVE Quiet
    BY <2>11, <2>e, SMT DEF Callback, Goto, Generating, Using, TypeOK
  <2>12. ASSUME NEW c \in Conns, Emitted(c) PROVE Quiet
    BY <2>12, <2>e, SMT DEF Emitted, shared, Goto, Generating, Using, TypeOK
  <2>13. ASSUME NEW c \in Conns, ReadStopped(c) PROVE Quiet
    BY <2>13, <2>e, SMT DEF ReadStopped, shared, Goto, Generating, Using,
      TypeOK
  <2>14. ASSUME NEW c \in Conns, Answer(c) PROVE Quiet
    BY <2>14, <2>e, SMT DEF Answer, shared, Goto, Generating, Using, TypeOK
  <2>15. ASSUME NEW c \in Conns, NEW r \in Runtimes, LoadRuntime(c, r)
         PROVE  Quiet
    BY <2>15, <2>e, SMT DEF LoadRuntime, shared, Goto, Generating, Using,
      TypeOK
  <2>16. ASSUME NEW c \in Conns, LoadFails(c) PROVE Quiet
    BY <2>16, <2>e, SMT DEF LoadFails, shared, Goto, Generating, Using, TypeOK
  <2>17. ASSUME NEW c \in Conns, InstallRefused(c) PROVE Quiet
    BY <2>17, <2>e, SMT DEF InstallRefused, shared, Goto, Generating, Using,
      TypeOK
  <2>18. ASSUME NEW c \in Conns, Name(c) PROVE Quiet
    BY <2>18, <2>e, SMT DEF Name, Goto, Generating, Using, TypeOK
  <2>19. ASSUME NEW c \in Conns, UnloadRefused(c) PROVE Quiet
    BY <2>19, <2>e, SMT DEF UnloadRefused, Goto, Generating, Using, TypeOK
  <2>20. ASSUME NEW c \in Conns, FindRuntime(c) PROVE Quiet
    BY <2>20, <2>e, SMT DEF FindRuntime, shared, Goto, Generating, Using,
      TypeOK
  <2>21. ASSUME NEW c \in Conns, RequestStop(c) PROVE Quiet
    BY <2>21, <2>e, SMT DEF RequestStop, shared, Goto, Generating, Using,
      TypeOK
  <2>22. ASSUME NEW c \in Conns, RequestStopDangling(c) PROVE Quiet
    BY <2>22, <2>e, SMT DEF RequestStopDangling, shared, Goto, Generating,
      Using, TypeOK
  <2>23. ASSUME NEW c \in Conns, BeginGeneration(c)
         PROVE  Session!Acquire(c)
    <3>1. \A d \in Conns : ~Generating(d)
      BY <2>23, <2>e DEF BeginGeneration, MayBegin, ExclusiveGeneration
    <3>2. Generating(c)' /\ rt' = rt
      BY <2>23, <2>e, SMT DEF BeginGeneration, Generating, Using, Goto, TypeOK
    <3>3. SessionUser = None /\ SessionUser' = c
      BY <3>1, <3>2, <2>e, NoUserWhenIdle DEF ExclusiveGeneration, SessionUser
    <3> QED BY <2>23, <3>2, <3>3 DEF BeginGeneration, MayBegin,
                                     Session!Acquire, SessionUser
  <2>24. ASSUME NEW c \in Conns, FinishGeneration(c)
         PROVE  Session!Release
    <3>1. Generating(c)
      BY <2>24, <2>e DEF FinishGeneration, Generating, Using, Goto
    <3>2. ~generating' /\ rt' = rt
      BY <2>24 DEF FinishGeneration
    <3>3. SessionUser = c /\ SessionUser' = None
      BY <3>1, <3>2, <2>e, UserIsGenerating DEF ExclusiveGeneration, SessionUser
    <3> QED BY <3>2, <3>3, ServerAssumption DEF Session!Release, SessionUser
  <2>25. ASSUME NEW c \in Conns, Install(c)
         PROVE  Session!Install(mine[c])
    <3>1. ~generating /\ ~generating'
      BY <2>25 DEF Install, Busy
    <3>2. SessionUser = None /\ SessionUser' = None
      BY <3>1, <2>e DEF ExclusiveGeneration, SessionUser
    <3> QED BY <2>25, <3>2 DEF Install, Session!Install, SessionUser
  <2>26. ASSUME NEW c \in Conns, Unload(c)
         PROVE  Session!Remove
    <3>1. ~generating /\ ~generating'
      BY <2>26 DEF Unload, Busy
    <3>2. SessionUser = None /\ SessionUser' = None
      BY <3>1, <2>e DEF ExclusiveGeneration, SessionUser
    <3> QED BY <2>26, <3>2 DEF Unload, RtAfterReset, Session!Remove, SessionUser
  <2>27. ASSUME NEW c \in Conns, Install(c) PROVE mine[c] \in Runtimes
    BY <2>27 DEF IInv, Ownership, LoadOwnsItsRuntime, Install, Goto
  <2>28. ASSUME UNCHANGED vars PROVE Quiet
    BY <2>28 DEF vars, Generating
  <2>29. ASSUME Quiet PROVE UNCHANGED <<rt, SessionUser>>
    BY <2>29, <2>e, SameUser
  <2> QED BY <2>1, <2>2, <2>3, <2>4, <2>5, <2>6, <2>7, <2>8, <2>9, <2>10,
          <2>11, <2>12, <2>13, <2>14, <2>15, <2>16, <2>17, <2>18, <2>19, <2>20,
          <2>21, <2>22, <2>23, <2>24, <2>25, <2>26, <2>27, <2>28, <2>29 DEF
          Next, Handle, StreamWrite, Chat, Generate, Load, Stop, Session!Next
<1> QED BY <1>1, <1>2, Invariance, PTL
    DEF SafeSpec, ImplementsModelSession, Session!Spec, Session!vars,
        SessionUser
-----------------------------------------------------------------------------
\* What a step of another request may do to a call of generate_ids: nothing,
\* apart from its stop flag, which only a stop raises and nobody lowers.
LEMMA OthersLeaveCall ==
    ASSUME IInv, NEW c \in Conns, NEW d \in Conns, d # c,
           \/ \E o \in Ops : Arrive(d, o)
           \/ Handle(d) \/ StreamWrite(d)
    PROVE  /\ pc'[c] = pc[c] /\ mine'[c] = mine[c]
           /\ sent'[c] = sent[c] /\ ended'[c] = ended[c]
           /\ c \in stopped' <=> c \in stopped
           /\ Generating(c) /\ StopSeen(c) => StopSeen(c)'
<1> DEFINE Same == /\ pc'[c] = pc[c] /\ mine'[c] = mine[c]
                   /\ sent'[c] = sent[c] /\ ended'[c] = ended[c]
                   /\ c \in stopped' <=> c \in stopped
<1> USE DEF Goto, shared, heap, local, ghost, End
<1>t. TypeOK /\ ExclusiveGeneration
  BY DEF IInv, Ownership
<1>1. CASE ResetStop(d)
  <2>1. Same
    BY <1>1, <1>t, SMT DEF ResetStop, TypeOK
  <2>2. ~Generating(c)
    BY <1>1, <1>t DEF ResetStop, ExclusiveGeneration, Generating, Using
  <2> QED BY <2>1, <2>2
<1>2. CASE RequestStop(d) \/ RequestStopDangling(d)
  <2>1. Same /\ flagged \subseteq flagged'
    BY <1>2, <1>t, SMT DEF RequestStop, RequestStopDangling, Raise, TypeOK
  <2> QED BY <2>1 DEF StopSeen
<1>3. CASE \/ \E o \in Ops : Arrive(d, o)
           \/ Reply(d) \/ BeginGeneration(d) \/ RefuseGeneration(d)
           \/ ExplainRefusal(d) \/ SendHeader(d)
  <2>1. Same /\ flagged' = flagged
    BY <1>3, <1>t, SMT DEF Arrive, Reply, BeginGeneration, RefuseGeneration,
       ExplainRefusal, SendHeader, TypeOK
  <2> QED BY <2>1 DEF StopSeen
<1>4. CASE \/ Network(d) \/ Complete(d) \/ Break(d) \/ Sample(d)
           \/ Callback(d) \/ Emitted(d)
  <2>1. Same /\ flagged' = flagged
    BY <1>4, <1>t, SMT DEF Network, Compute, Abort, Fail, Complete, Break,
       Sample, Callback, Emitted, TypeOK
  <2> QED BY <2>1 DEF StopSeen
<1>5. CASE ReadStopped(d)
  <2>1. stopped' = stopped \cup {d} \/ stopped' = stopped
    BY <1>5 DEF ReadStopped
  <2>2. Same /\ flagged' = flagged
    BY <1>5, <2>1, <1>t, SMT DEF ReadStopped, TypeOK
  <2> QED BY <2>2 DEF StopSeen
<1>6. CASE FinishGeneration(d) \/ Answer(d) \/ LoadFails(d)
           \/ InstallRefused(d) \/ Install(d) \/ Name(d)
           \/ UnloadRefused(d) \/ Unload(d) \/ FindRuntime(d)
           \/ \E r \in Runtimes : LoadRuntime(d, r)
  <2>1. Same /\ flagged' = flagged
    BY <1>6, <1>t, SMT DEF FinishGeneration, Answer, LoadFails, InstallRefused,
       Install, Name, UnloadRefused, Unload, FindRuntime, LoadRuntime, At,
       TypeOK
  <2> QED BY <2>1 DEF StopSeen
<1> QED BY <1>1, <1>2, <1>3, <1>4, <1>5, <1>6
        DEF Handle, StreamWrite, Chat, Generate, Load, Stop

\* The handler of a chat is a call of generate_ids between the reset of the
\* flag and its end, and a stutter before and after.
LEMMA OwnStepOfCall ==
    ASSUME IInv, NEW c \in Conns,
           \/ \E o \in Ops : Arrive(c, o)
           \/ Handle(c) \/ StreamWrite(c)
    PROVE  [Call(c)!Next]_(Call(c)!vars)
<1> USE DEF Goto, shared, heap, local, ghost, End, InCall
<1>t. TypeOK /\ FreshRequest /\ EndIsKnown /\ ChatPhases
  BY DEF IInv, Replies
<1>1. CASE ResetStop(c)
  <2>1. /\ pc[c] = "reset" /\ pc'[c] = "prefill" /\ ended[c] = "no"
        /\ sent[c] = 0 /\ ~StopSeen(c)'
    BY <1>1, <1>t, SMT DEF ResetStop, FlagsAtReset, StopSeen, FreshRequest,
       EndIsKnown, TypeOK
  <2>2. sent'[c] = sent[c] /\ ended'[c] = ended[c]
    BY <1>1 DEF ResetStop
  <2>3. Call(c)!Begin(MaxTokens)
    BY <2>1, <2>2 DEF Call!Begin
  <2> QED BY <2>3 DEF Call!Next
<1>2. CASE \E from \in {"prefill", "step"} :
              Compute(c, from) \/ Abort(c, from) \/ Fail(c, from)
  <2>1. PICK from \in {"prefill", "step"} :
           Compute(c, from) \/ Abort(c, from) \/ Fail(c, from)
    BY <1>2
  <2>2. /\ pc[c] \in {"prefill", "step"} /\ StopSeen(c)' = StopSeen(c)
        /\ sent'[c] = sent[c]
    BY <2>1 DEF Compute, Abort, Fail, StopSeen
  <2>3. CASE Compute(c, from)
    <3>1. pc'[c] = "decide" /\ ended'[c] = ended[c]
      BY <2>3, <1>t DEF Compute, TypeOK
    <3> QED BY <2>2, <2>3, <3>1
            DEF Compute, Call!Compute, Call!Proceed, Call!Next
  <2>4. CASE Abort(c, from)
    <3>1. pc'[c] = "returned" /\ ended'[c] = "aborted"
      BY <2>4, <1>t DEF Abort, TypeOK
    <3> QED BY <2>2, <2>4, <3>1
            DEF Abort, Call!Abort, Call!Finish, Call!Proceed, Call!Next
  <2>5. CASE Fail(c, from)
    <3>1. pc'[c] = "returned" /\ ended'[c] = "failed"
      BY <2>5, <1>t DEF Fail, TypeOK
    <3> QED BY <2>2, <3>1 DEF Call!Fail, Call!Finish, Call!Proceed, Call!Next
  <2> QED BY <2>1, <2>3, <2>4, <2>5
<1>3. CASE Complete(c) \/ Break(c)
  <2>1. /\ pc[c] = "decide" /\ pc'[c] = "returned"
        /\ StopSeen(c)' = StopSeen(c) /\ sent'[c] = sent[c]
    BY <1>3, <1>t DEF Complete, Break, StopSeen, TypeOK
  <2>2. \/ ended'[c] = "complete" /\ (sent[c] = MaxTokens \/ ~StopSeen(c))
        \/ ended'[c] = "cut" /\ sent[c] < MaxTokens /\ StopSeen(c)
    BY <1>3, <1>t DEF Complete, Break, TypeOK
  <2> QED BY <2>1, <2>2
          DEF Call!Complete, Call!Break, Call!Finish, Call!Proceed, Call!Next
<1>4. CASE Sample(c)
  <2>1. /\ pc[c] = "decide" /\ pc'[c] = "callback" /\ sent'[c] = sent[c]
        /\ StopSeen(c)' = StopSeen(c) /\ ended'[c] = ended[c]
    BY <1>4, <1>t DEF Sample, StopSeen, TypeOK
  <2> QED BY <1>4, <2>1 DEF Sample, Call!Sample, Call!Proceed, Call!Next
<1>5. CASE Callback(c)
  <2>1. /\ pc[c] = "callback" /\ pc'[c] = "emitted"
        /\ sent'[c] = sent[c] + 1
        /\ StopSeen(c)' = StopSeen(c) /\ ended'[c] = ended[c]
    BY <1>5, <1>t DEF Callback, StopSeen, TypeOK
  <2> QED BY <2>1 DEF Call!Deliver, Call!Proceed, Call!Next
<1>6. CASE Emitted(c)
  <2>1. /\ pc[c] = "emitted" /\ sent'[c] = sent[c]
        /\ StopSeen(c)' = StopSeen(c) /\ ended[c] = "no"
    BY <1>6, <1>t, SMT DEF Emitted, StopSeen, EndIsKnown
  <2>2. CASE StopSeen(c)
    <3>1. pc'[c] = "returned" /\ ended'[c] = "cut"
      BY <1>6, <1>t, <2>2 DEF Emitted, TypeOK
    <3> QED BY <2>1, <2>2, <3>1
            DEF Call!Quit, Call!Finish, Call!Proceed, Call!Next
  <2>3. CASE ~StopSeen(c)
    <3>1. pc'[c] = "step" /\ ended'[c] = "no"
      BY <1>6, <1>t, <2>3 DEF Emitted, TypeOK
    <3> QED BY <2>1, <3>1 DEF Call!Resume, Call!Proceed, Call!Next
  <2> QED BY <2>2, <2>3
<1>7. CASE ReadStopped(c)
  <2>1. /\ pc[c] = "returned" /\ pc'[c] = "finish" /\ c \notin stopped
        /\ sent'[c] = sent[c] /\ ended'[c] = ended[c]
    BY <1>7, <1>t, SMT DEF ReadStopped, FreshRequest, TypeOK
  <2>2. (c \in stopped') = (mine[c] \in flagged)
    <3>1. CASE StopSeen(c)
      <4>1. c \in stopped'
        BY <1>7, <3>1 DEF ReadStopped, StoppedToReport
      <4> QED BY <3>1, <4>1, SMT DEF StopSeen
    <3>2. CASE ~StopSeen(c)
      <4>1. c \notin stopped'
        BY <1>7, <2>1, <3>2 DEF ReadStopped, StoppedToReport
      <4> QED BY <3>2, <4>1, SMT DEF StopSeen
    <3> QED BY <3>1, <3>2
  <2> QED BY <2>1, <2>2 DEF StopSeen, Call!vars
<1>8. ASSUME ~InCall(c), ~InCall(c)', pc[c] # "returned", pc'[c] # "returned",
             UNCHANGED <<sent, ended, stopped>>
      PROVE  [Call(c)!Next]_(Call(c)!vars)
  BY <1>8 DEF Call!vars
<1>9. CASE \/ \E o \in Ops : Arrive(c, o)
           \/ Reply(c) \/ BeginGeneration(c) \/ RefuseGeneration(c)
           \/ ExplainRefusal(c) \/ SendHeader(c)
  BY <1>8, <1>9, <1>t, SMT DEF Arrive, Reply, BeginGeneration,
     RefuseGeneration, ExplainRefusal, SendHeader, TypeOK
<1>10. CASE \/ FinishGeneration(c) \/ Answer(c) \/ LoadFails(c)
            \/ InstallRefused(c) \/ Install(c) \/ Name(c)
            \/ UnloadRefused(c) \/ Unload(c) \/ FindRuntime(c)
            \/ RequestStop(c) \/ RequestStopDangling(c)
            \/ \E r \in Runtimes : LoadRuntime(c, r)
  BY <1>8, <1>10, <1>t, SMT DEF FinishGeneration, Answer, LoadFails,
     InstallRefused, Install, Name, UnloadRefused, Unload, FindRuntime,
     RequestStop, RequestStopDangling, LoadRuntime, At, TypeOK
<1> QED BY <1>1, <1>2, <1>3, <1>4, <1>5, <1>6, <1>7, <1>9, <1>10
        DEF Handle, StreamWrite, Chat, Generate, Network, Load, Stop

\* The calls that requests make of generate_ids keep its contract with their
\* callers, in the midst of stops, loads and refused chats of the others.
THEOREM CallsAreGenerations == SafeSpec => EachImplementsGeneration
<1>1. Init => \A c \in Conns : Call(c)!Init
  <2> SUFFICES ASSUME Init, NEW c \in Conns PROVE Call(c)!Init
    OBVIOUS
  <2>1. /\ pc[c] = "idle" /\ sent[c] = 0 /\ ended[c] = "no"
        /\ (c \in stopped) = FALSE
    BY DEF Init
  <2> QED BY <2>1 DEF InCall, Call!Init
<1>2. ASSUME IInv, [Next]_vars
      PROVE  \A c \in Conns : [Call(c)!Next]_(Call(c)!vars)
  <2> TAKE c \in Conns
  <2>1. CASE UNCHANGED vars
    <3>1. InCall(c)' = InCall(c) /\ StopSeen(c)' = StopSeen(c)
      BY <2>1 DEF vars, InCall, StopSeen
    <3> QED BY <2>1, <3>1 DEF vars, Call!vars
  <2>2. ASSUME NEW d \in Conns,
               \/ \E o \in Ops : Arrive(d, o)
               \/ Handle(d) \/ StreamWrite(d)
        PROVE  [Call(c)!Next]_(Call(c)!vars)
    <3>1. CASE d = c
      BY <1>2, <2>2, <3>1, OwnStepOfCall
    <3>2. CASE d # c
      <4>1. /\ pc'[c] = pc[c] /\ mine'[c] = mine[c]
            /\ sent'[c] = sent[c] /\ ended'[c] = ended[c]
            /\ c \in stopped' <=> c \in stopped
            /\ Generating(c) /\ StopSeen(c) => StopSeen(c)'
        BY <1>2, <2>2, <3>2, OthersLeaveCall
      <4>2. InCall(c)' = InCall(c)
        BY <4>1 DEF InCall
      <4>3. CASE StopSeen(c)' = StopSeen(c) \/ ~(InCall(c) \/ pc[c] = "returned")
        BY <4>1, <4>2, <4>3 DEF Call!vars
      <4>4. CASE StopSeen(c)' # StopSeen(c) /\ (InCall(c) \/ pc[c] = "returned")
        <5>1. StopSeen(c)'
          BY <4>1, <4>4 DEF Generating, Using, InCall, StopSeen
        <5>2. Call(c)!RequestStop
          BY <4>1, <4>2, <4>4, <5>1 DEF Call!RequestStop
        <5> QED BY <5>2 DEF Call!Next
      <4> QED BY <4>3, <4>4
    <3> QED BY <3>1, <3>2
  <2> QED BY <1>2, <2>1, <2>2 DEF Next
<1> QED BY <1>1, <1>2, Invariance, PTL DEF SafeSpec, EachImplementsGeneration
=============================================================================
