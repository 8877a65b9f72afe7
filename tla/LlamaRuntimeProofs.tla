-------------------------- MODULE LlamaRuntimeProofs --------------------------
(***************************************************************************)
(* Proofs about generate_ids and step, for any number of layers, any       *)
(* context, any tokens and prompts, and a stop raised at any time.         *)
(***************************************************************************)
EXTENDS LlamaRuntime, SequenceTheorems, TLAPS

Entered == Checked \cup {"project", "finish", "head"}
InStep  == Entered \cup {"step"}
InLoop  == {"decide", "callback", "emitted"}

\* Where step is in the history, and pos_ with it.
Place == /\ pc \in InStep => fed < Len(history)
         /\ pc = "decide" => fed = Len(history)
         /\ pc \in {"callback", "emitted"} => fed + 1 = Len(history)
         /\ pc \in InStep \cup InLoop => pos = fed
         /\ pc \in Entered => pos < Ctx

\* The layers that the token of this step has joined.
Joined(l) == \/ pc \in {"head", "headed"}
             \/ pc \in {"layer", "project", "projected"} /\ l < layer
             \/ pc \in {"finish", "finished"} /\ l <= layer

CacheLengths == pc \in InStep \cup InLoop => \A l \in 1 .. Layers :
    Len(cache[l]) = IF Joined(l) THEN fed + 1 ELSE fed

CacheEntries == \A l \in 1 .. Layers :
    /\ Len(cache[l]) <= Len(history)
    /\ \A k \in 1 .. Len(cache[l]) : cache[l][k] = history[k]

LogitsEntries == pc \in {"decide", "callback"} =>
    /\ Len(logits) = fed
    /\ \A k \in 1 .. fed : logits[k] = history[k]

\* Rows are skipped only after a stop, and a stop stays until the next call.
TornMeansStop == pc \in {"projected", "finished", "headed"} /\ torn => stop

Budget == /\ pc \in InStep \cup InLoop => sent <= max
          /\ pc = "callback" => sent < max

\* The inductive invariant.
IInv == TypeOK /\ Place /\ CacheLengths /\ CacheEntries /\ LogitsEntries
        /\ TornMeansStop /\ Budget

-----------------------------------------------------------------------------
\* A sequence whose entries are the first of another is a prefix of it.
LEMMA PrefixByEntries ==
    ASSUME NEW S, NEW s \in Seq(S), NEW t \in Seq(S), Len(s) <= Len(t),
           \A k \in 1 .. Len(s) : s[k] = t[k]
    PROVE  s = SubSeq(t, 1, Len(s))
<1> DEFINE u == SubSeq(t, 1, Len(s))
<1>1. /\ u \in Seq(S) /\ Len(u) = Len(s)
      /\ \A k \in 1 .. Len(s) : u[k] = t[k]
  OBVIOUS
<1>2. QED
  BY <1>1, SeqEqual

\* What step returns: when all caches hold the token of the step, the logits
\* depend on the history up to it.
LEMMA AttendedHistory ==
    ASSUME IInv, pc = "headed", ~torn
    PROVE  /\ Attended \in Seq(Tokens \cup {Torn})
           /\ Len(Attended) = fed + 1
           /\ \A k \in 1 .. fed + 1 : Attended[k] = history[k]
<1> DEFINE seen(l) == IF pos < Len(cache[l])
                      THEN SubSeq(cache[l], 1, pos + 1) ELSE <<Torn>>
<1>1. pos = fed /\ pos \in Nat /\ 1 \in 1 .. Layers
  BY RuntimeAssumption DEF IInv, Place, TypeOK, InStep, Entered, Checked
<1>2. ASSUME NEW l \in 1 .. Layers
      PROVE  seen(l) = cache[l]
  <2>1. Len(cache[l]) = fed + 1
    BY DEF IInv, CacheLengths, Joined, InStep, Entered, Checked
  <2>2. cache[l] \in Seq(Tokens \cup {Torn})
    BY DEF IInv, TypeOK
  <2>3. SubSeq(cache[l], 1, Len(cache[l])) = cache[l]
    BY <2>2, SubSeqFull
  <2>4. pos + 1 = Len(cache[l]) /\ pos < Len(cache[l])
    BY <1>1, <2>1
  <2>5. QED
    BY <2>3, <2>4
<1>3. ASSUME NEW l \in 1 .. Layers
      PROVE  cache[l] = cache[1]
  <2>1. Len(cache[l]) = fed + 1 /\ Len(cache[1]) = fed + 1
    BY <1>1 DEF IInv, CacheLengths, Joined, InStep, Entered, Checked
  <2>2. \A k \in 1 .. Len(cache[l]) : cache[l][k] = cache[1][k]
    BY <1>1, <2>1 DEF IInv, CacheEntries
  <2>3. cache[l] \in Seq(Tokens \cup {Torn}) /\ cache[1] \in Seq(Tokens \cup {Torn})
    BY <1>1 DEF IInv, TypeOK
  <2>4. QED
    BY <2>1, <2>2, <2>3, SeqEqual
<1>4. Attended = cache[1]
  BY <1>1, <1>2, <1>3 DEF Attended
<1>5. QED
  BY <1>1, <1>4 DEF IInv, TypeOK, CacheLengths, CacheEntries, Joined, InStep,
     Entered, Checked
-----------------------------------------------------------------------------
\* The initial states satisfy the invariant.
LEMMA InitInv == Init => IInv
<1> SUFFICES ASSUME Init PROVE IInv
  OBVIOUS
<1>1. TypeOK
  <2>1. stop \in BOOLEAN /\ torn \in BOOLEAN
    BY DEF Init
  <2>2. cache \in [1 .. Layers -> Seq(Tokens \cup {Torn})]
    BY DEF Init
  <2>3. /\ pos \in Nat /\ fed \in Nat /\ sent \in Nat
        /\ max \in MaxTokensSet \cup {0} /\ calls \in 0 .. MaxCalls
        /\ layer \in 1 .. Layers
    BY RuntimeAssumption DEF Init
  <2>4. /\ history \in Seq(Tokens) /\ logits \in Seq(Tokens \cup {Torn})
        /\ pc \in PCs /\ ended \in Ends
    BY DEF Init, PCs, Ends
  <2>5. QED
    BY <2>1, <2>2, <2>3, <2>4 DEF TypeOK
<1>2. CacheEntries
  BY DEF Init, CacheEntries
<1>3. /\ Place /\ CacheLengths /\ LogitsEntries /\ TornMeansStop /\ Budget
  BY DEF Init, Place, CacheLengths, LogitsEntries, TornMeansStop, Budget, InStep,
     InLoop, Entered, Checked
<1>4. QED
  BY <1>1, <1>2, <1>3 DEF IInv

\* A call starts from empty caches.
LEMMA StartInv ==
    ASSUME IInv, NEW p \in Prompts, NEW m \in MaxTokensSet, Start(p, m)
    PROVE  IInv'
<1>1. /\ p \in Seq(Tokens) /\ m \in Nat
      /\ p # <<>> => WithBos(p) \in Seq(Tokens) /\ Len(WithBos(p)) > 0
  BY RuntimeAssumption DEF WithBos
<1>2. TypeOK'
  <2>1. stop' \in BOOLEAN /\ torn' \in BOOLEAN
    BY Zenon DEF IInv, TypeOK, Start, FlagAtStart
  <2>2. cache' \in [1 .. Layers -> Seq(Tokens \cup {Torn})]
    BY DEF Start, CacheAtStart
  <2>3. /\ pos' \in Nat /\ fed' \in Nat /\ sent' \in Nat
        /\ max' \in MaxTokensSet \cup {0} /\ calls' \in 0 .. MaxCalls
        /\ layer' \in 1 .. Layers
    BY RuntimeAssumption DEF IInv, TypeOK, Start
  <2>4. /\ history' \in Seq(Tokens) /\ logits' \in Seq(Tokens \cup {Torn})
        /\ pc' \in PCs /\ ended' \in Ends
    BY <1>1 DEF Start, Goto, PCs, Ends
  <2>5. QED
    BY <2>1, <2>2, <2>3, <2>4 DEF TypeOK
<1>3. /\ Place' /\ CacheLengths' /\ CacheEntries' /\ LogitsEntries'
      /\ TornMeansStop' /\ Budget'
  BY <1>1, RuntimeAssumption
  DEF Start, Goto, CacheAtStart, FlagAtStart, Place, CacheLengths, CacheEntries,
      LogitsEntries, TornMeansStop, Budget, Joined, InStep, InLoop, Entered,
      Checked
<1>4. QED
  BY <1>2, <1>3 DEF IInv

\* A call that ends leaves everything as it is.
LEMMA EndInv ==
    ASSUME IInv, NEW from, NEW how \in Ends, End(from, how)
    PROVE  IInv'
<1>1. TypeOK'
  BY DEF IInv, TypeOK, End, Goto, PCs, net, loop
<1>2. /\ Place' /\ CacheLengths' /\ LogitsEntries' /\ TornMeansStop' /\ Budget'
  BY DEF End, Goto, Place, CacheLengths, LogitsEntries, TornMeansStop, Budget,
     InStep, InLoop, Entered, Checked
<1>3. CacheEntries'
  BY DEF IInv, CacheEntries, End, net, loop
<1>4. QED
  BY <1>1, <1>2, <1>3 DEF IInv

\* A parallel stage.
LEMMA StageInv ==
    ASSUME IInv, NEW from, NEW to, Stage(from, to),
           \/ from = "project" /\ to = "projected"
           \/ from = "finish" /\ to = "finished"
           \/ from = "head" /\ to = "headed"
    PROVE  IInv'
<1>1. torn' \in BOOLEAN /\ (torn' => stop')
  <2>1. stop \in BOOLEAN /\ torn' \in {FALSE, stop} /\ stop' = stop
    BY DEF IInv, TypeOK, Stage
  <2>2. CASE torn' = FALSE
    BY <2>2
  <2>3. CASE torn' = stop
    BY <2>1, <2>3
  <2>4. QED
    BY <2>1, <2>2, <2>3
<1>2. TypeOK'
  BY <1>1 DEF IInv, TypeOK, Stage, Goto, PCs, Checked, loop
<1>3. TornMeansStop'
  BY <1>1 DEF TornMeansStop
<1>4. Place' /\ Budget' /\ LogitsEntries' /\ CacheEntries'
  BY DEF IInv, Place, Budget, LogitsEntries, CacheEntries, Stage, Goto, loop,
     InStep, InLoop, Entered, Checked
<1>5. CacheLengths'
  BY DEF IInv, CacheLengths, Joined, Stage, Goto, loop, InStep, InLoop, Entered,
     Checked
<1>6. QED
  BY <1>2, <1>3, <1>4, <1>5 DEF IInv

\* Entering step and going from one layer to the next.
LEMMA QuietInv ==
    ASSUME IInv, Enter \/ BeginLayer \/ LayerDone
    PROVE  IInv'
<1>1. TypeOK'
  <2>1. layer' \in 1 .. Layers
    BY RuntimeAssumption DEF IInv, TypeOK, Enter, BeginLayer, LayerDone, net,
       MoreLayers, NextLayer
  <2>2. pc' \in PCs
    BY DEF Enter, BeginLayer, LayerDone, Goto, PCs, Checked
  <2>3. QED
    BY <2>1, <2>2 DEF IInv, TypeOK, Enter, BeginLayer, LayerDone, net, loop
<1>2. Place'
  <2>1. CASE Enter
    BY <2>1, RuntimeAssumption DEF IInv, TypeOK, Place, Enter, Full, Goto, loop,
       InStep, InLoop, Entered, Checked
  <2>2. CASE BeginLayer \/ LayerDone
    BY <2>2 DEF IInv, Place, BeginLayer, LayerDone, Goto, net, loop, InStep,
       InLoop, Entered, Checked
  <2>3. QED
    BY <2>1, <2>2
<1>6. Budget' /\ LogitsEntries' /\ TornMeansStop'
  BY DEF IInv, Budget, LogitsEntries, TornMeansStop, Enter, BeginLayer,
     LayerDone, Goto, net, loop, InStep, InLoop, Entered, Checked
<1>3. CacheEntries'
  BY DEF IInv, CacheEntries, Enter, BeginLayer, LayerDone, net, loop
<1>4. CacheLengths'
  <2>1. CASE Enter
    BY <2>1 DEF IInv, CacheLengths, Joined, Enter, Goto, loop, InStep, InLoop,
       Entered, Checked
  <2>2. CASE BeginLayer
    BY <2>2 DEF IInv, CacheLengths, Joined, BeginLayer, Goto, loop, net, InStep,
       InLoop, Entered, Checked
  <2>3. CASE LayerDone /\ MoreLayers
    BY <2>3 DEF IInv, TypeOK, CacheLengths, Joined, LayerDone, NextLayer, Goto,
       loop, InStep, InLoop, Entered, Checked
  <2>4. CASE LayerDone /\ ~MoreLayers
    <3>1. \A l \in 1 .. Layers : l <= layer
      BY <2>4, RuntimeAssumption DEF IInv, TypeOK, MoreLayers
    <3>2. /\ pc = "finished" /\ pc' = "head" /\ cache' = cache /\ fed' = fed
      BY <2>4 DEF LayerDone, Goto, loop
    <3>3. QED
      BY <3>1, <3>2 DEF IInv, CacheLengths, Joined, InStep, Entered, Checked
  <2>5. QED
    BY <2>1, <2>2, <2>3, <2>4
<1>5. QED
  BY <1>1, <1>2, <1>3, <1>4, <1>6 DEF IInv

\* The token of the step joins the cache of the layer.
LEMMA AppendInv ==
    ASSUME IInv, AppendKV
    PROVE  IInv'
<1> DEFINE t == history[fed + 1]
<1>1. /\ t \in Tokens /\ fed \in Nat /\ fed < Len(history)
      /\ history \in Seq(Tokens) /\ layer \in 1 .. Layers
      /\ pc = "projected" /\ pc' = "finish"
  BY DEF IInv, TypeOK, Place, AppendKV, Goto, InStep, Entered, Checked
<1>2. ~torn
  BY DEF IInv, TornMeansStop, AppendKV, Goto, Aborting
<1>3. /\ cache \in [1 .. Layers -> Seq(Tokens \cup {Torn})]
      /\ cache' = [cache EXCEPT ![layer] = Append(@, t)]
  BY <1>2 DEF IInv, TypeOK, AppendKV
<1>4. \A l \in 1 .. Layers : Len(cache[l]) = IF l < layer THEN fed + 1 ELSE fed
  BY <1>1 DEF IInv, CacheLengths, Joined, InStep, Entered, Checked
<1>5. TypeOK'
  <2>1. cache' \in [1 .. Layers -> Seq(Tokens \cup {Torn})]
    BY <1>1, <1>3
  <2>2. QED
    BY <1>1, <2>1 DEF IInv, TypeOK, AppendKV, loop, PCs
<1>6. ASSUME NEW l \in 1 .. Layers
      PROVE  /\ Len(cache'[l]) = IF l <= layer THEN fed + 1 ELSE fed
             /\ \A k \in 1 .. Len(cache'[l]) : cache'[l][k] = history[k]
  <2>1. \A k \in 1 .. Len(cache[l]) : cache[l][k] = history[k]
    BY DEF IInv, CacheEntries
  <2>2. cache[l] \in Seq(Tokens \cup {Torn})
    BY <1>3
  <2>3. CASE l = layer
    <3>1. cache'[l] = Append(cache[l], t) /\ Len(cache[l]) = fed
      BY <1>1, <1>3, <1>4, <2>3
    <3>2. Len(cache'[l]) = fed + 1
      BY <2>2, <3>1
    <3>3. \A k \in 1 .. fed + 1 : cache'[l][k] = history[k]
      BY <1>1, <2>1, <2>2, <3>1
    <3>4. QED
      BY <1>1, <2>3, <3>2, <3>3
  <2>4. CASE l # layer
    <3>1. cache'[l] = cache[l]
      BY <1>3, <2>4
    <3>2. QED
      BY <1>1, <1>4, <2>1, <2>4, <3>1
  <2>5. QED
    BY <2>3, <2>4
<1>7. history' = history /\ fed' = fed /\ layer' = layer
  BY DEF AppendKV, loop
<1>8. CacheLengths'
  BY <1>1, <1>6, <1>7 DEF CacheLengths, Joined
<1>9. CacheEntries'
  BY <1>1, <1>6, <1>7 DEF CacheEntries
<1>10. Place' /\ LogitsEntries' /\ TornMeansStop' /\ Budget'
  BY <1>1 DEF IInv, Place, LogitsEntries, TornMeansStop, Budget, AppendKV, loop,
     InStep, InLoop, Entered, Checked
<1>11. QED
  BY <1>5, <1>8, <1>9, <1>10 DEF IInv

\* step returns the logits of the history up to its token.
LEMMA StepDoneInv ==
    ASSUME IInv, StepDone
    PROVE  IInv'
<1>1. ~torn /\ pc = "headed"
  BY DEF IInv, TornMeansStop, StepDone, Goto, Aborting
<1>2. /\ logits' \in Seq(Tokens \cup {Torn})
      /\ Len(logits') = fed + 1
      /\ \A k \in 1 .. fed + 1 : logits'[k] = history[k]
  BY <1>1, AttendedHistory DEF StepDone
<1>3. /\ fed \in Nat /\ fed < Len(history) /\ Len(history) \in Nat /\ pos = fed
      /\ fed' = fed + 1 /\ pos' = fed + 1 /\ history' = history
      /\ cache' = cache /\ sent' = sent /\ max' = max
      /\ pc' = IF fed + 1 < Len(history) THEN "step" ELSE "decide"
  BY <1>1 DEF IInv, TypeOK, Place, StepDone, Goto, PosAfterStep, InStep, Entered,
     Checked
<1>4. TypeOK'
  BY <1>2, <1>3 DEF IInv, TypeOK, StepDone, PCs
<1>5. Place' /\ TornMeansStop' /\ Budget'
  BY <1>1, <1>3 DEF IInv, Place, TornMeansStop, Budget, InStep, InLoop, Entered,
     Checked
<1>6. LogitsEntries'
  BY <1>2, <1>3 DEF LogitsEntries
<1>7. CacheLengths' /\ CacheEntries'
  BY <1>1, <1>3 DEF IInv, CacheLengths, CacheEntries, Joined, InStep, InLoop,
     Entered, Checked
<1>8. QED
  BY <1>4, <1>5, <1>6, <1>7 DEF IInv

\* A sample joins the history.
LEMMA SampleInv ==
    ASSUME IInv, NEW t \in Tokens, Sample(t)
    PROVE  IInv'
<1>1. /\ pc = "decide" /\ pc' = "callback" /\ history' = Append(history, t)
      /\ sent # max /\ fed' = fed /\ sent' = sent /\ max' = max /\ pos' = pos
      /\ cache' = cache /\ logits' = logits
  BY DEF Sample, Goto, Exhausted, net
<1>2. /\ history \in Seq(Tokens) /\ fed \in Nat /\ fed = Len(history)
      /\ cache \in [1 .. Layers -> Seq(Tokens \cup {Torn})]
  BY <1>1 DEF IInv, TypeOK, Place
<1>3. /\ history' \in Seq(Tokens) /\ Len(history') = fed + 1
      /\ \A k \in 1 .. fed : history'[k] = history[k]
  BY <1>1, <1>2
<1>4. TypeOK'
  BY <1>1, <1>3 DEF IInv, TypeOK, Sample, net, PCs
<1>5. Place' /\ TornMeansStop'
  BY <1>1, <1>2, <1>3 DEF IInv, Place, TornMeansStop, InStep, InLoop, Entered,
     Checked
<1>6. Budget'
  BY <1>1, RuntimeAssumption DEF IInv, TypeOK, Budget, InLoop
<1>7. LogitsEntries'
  BY <1>1, <1>2, <1>3 DEF IInv, LogitsEntries
<1>8. CacheLengths'
  BY <1>1 DEF IInv, CacheLengths, Joined, InStep, InLoop, Entered, Checked
<1>9. CacheEntries'
  <2> SUFFICES ASSUME NEW l \in 1 .. Layers
               PROVE  /\ Len(cache[l]) <= Len(history')
                      /\ \A k \in 1 .. Len(cache[l]) :
                            cache[l][k] = history'[k]
    BY <1>1 DEF CacheEntries
  <2>1. /\ Len(cache[l]) \in Nat /\ Len(cache[l]) <= fed
        /\ \A k \in 1 .. Len(cache[l]) : cache[l][k] = history[k]
    BY <1>2 DEF IInv, CacheEntries
  <2>2. QED
    BY <1>2, <1>3, <2>1
<1>10. QED
  BY <1>4, <1>5, <1>6, <1>7, <1>8, <1>9 DEF IInv

\* The callback, and the stop flag raised by another thread.
LEMMA LoopInv ==
    ASSUME IInv, Deliver \/ Resume \/ RequestStop
    PROVE  IInv'
<1>1. CASE Deliver
  <2>1. /\ sent \in Nat /\ max \in Nat /\ sent < max
    BY <1>1, RuntimeAssumption DEF IInv, TypeOK, Budget, Deliver, Goto
  <2>2. TypeOK' /\ Budget'
    BY <1>1, <2>1 DEF IInv, TypeOK, Budget, Deliver, Goto, net, PCs, InStep,
       InLoop, Entered, Checked
  <2>3. Place' /\ LogitsEntries' /\ TornMeansStop' /\ CacheEntries'
    BY <1>1 DEF IInv, Place, LogitsEntries, TornMeansStop, CacheEntries, Deliver,
       Goto, net, InStep, InLoop, Entered, Checked
  <2>4. CacheLengths'
    BY <1>1 DEF IInv, CacheLengths, Joined, Deliver, Goto, net, InStep, InLoop,
       Entered, Checked
  <2>5. QED
    BY <2>2, <2>3, <2>4 DEF IInv
<1>2. CASE Resume
  <2>1. TypeOK' /\ Budget'
    BY <1>2 DEF IInv, TypeOK, Budget, Resume, Goto, net, loop, PCs, InStep,
       InLoop, Entered, Checked
  <2>2. Place' /\ LogitsEntries' /\ TornMeansStop' /\ CacheEntries'
    BY <1>2 DEF IInv, TypeOK, Place, LogitsEntries, TornMeansStop, CacheEntries,
       Resume, Goto, net, loop, InStep, InLoop, Entered, Checked
  <2>3. CacheLengths'
    BY <1>2 DEF IInv, CacheLengths, Joined, Resume, Goto, net, loop, InStep,
       InLoop, Entered, Checked
  <2>4. QED
    BY <2>1, <2>2, <2>3 DEF IInv
<1>3. CASE RequestStop
  <2>1. TypeOK'
    BY <1>3 DEF IInv, TypeOK, RequestStop, net, loop
  <2>2. /\ Place' /\ LogitsEntries' /\ TornMeansStop' /\ CacheEntries'
        /\ CacheLengths' /\ Budget'
    BY <1>3 DEF IInv, Place, LogitsEntries, TornMeansStop, CacheEntries,
       CacheLengths, Joined, Budget, RequestStop, net, loop
  <2>3. QED
    BY <2>1, <2>2 DEF IInv
<1>4. QED
  BY <1>1, <1>2, <1>3
-----------------------------------------------------------------------------
\* Every step of the runtime preserves the invariant.
LEMMA NextInv == IInv /\ [Next]_vars => IInv'
<1> SUFFICES ASSUME IInv, [Next]_vars PROVE IInv'
  OBVIOUS
<1>1. CASE \E p \in Prompts, m \in MaxTokensSet : Start(p, m)
  BY <1>1, StartInv
<1>2. CASE RequestStop \/ Deliver \/ Resume
  BY <1>2, LoopInv
<1>3. CASE \/ EmptyPrompt \/ ContextExceeded \/ Abort \/ BadTensor
           \/ Complete \/ Break \/ Quit
  BY <1>3, EndInv DEF EmptyPrompt, ContextExceeded, Abort, BadTensor, Complete,
     Break, Quit, Ends
<1>4. CASE Enter \/ BeginLayer \/ LayerDone
  BY <1>4, QuietInv
<1>5. CASE Project \/ FinishLayer \/ Output
  BY <1>5, StageInv DEF Project, FinishLayer, Output
<1>6. CASE AppendKV
  BY <1>6, AppendInv
<1>7. CASE StepDone
  BY <1>7, StepDoneInv
<1>8. CASE \E t \in Tokens : Sample(t)
  BY <1>8, SampleInv
<1>9. CASE UNCHANGED vars
  <2>1. TypeOK'
    BY <1>9 DEF IInv, TypeOK, vars
  <2>2. /\ Place' /\ LogitsEntries' /\ TornMeansStop' /\ CacheEntries'
        /\ CacheLengths' /\ Budget'
    BY <1>9 DEF IInv, Place, LogitsEntries, TornMeansStop, CacheEntries,
       CacheLengths, Joined, Budget, vars
  <2>3. QED
    BY <2>1, <2>2 DEF IInv
<1>10. QED
  BY <1>1, <1>2, <1>3, <1>4, <1>5, <1>6, <1>7, <1>8, <1>9 DEF Next, Proceed

\* The inductive invariant holds in every reachable state.
LEMMA Invariance == SafeSpec => []IInv
BY InitInv, NextInv, PTL DEF SafeSpec

\* The variables keep their types.
THEOREM TypeCorrect == Spec => []TypeOK
<1>1. IInv => TypeOK
  BY DEF IInv
<1>2. QED
  BY <1>1, Invariance, PTL DEF Spec

\* Each cache holds a prefix of this generation's tokens (inference_v2.cpp:31):
\* nothing of an aborted call and nothing torn by a stop.
THEOREM CachesHoldHistory == Spec => []CacheIsPrefix
<1>1. IInv => CacheIsPrefix
  <2> SUFFICES ASSUME IInv, NEW l \in 1 .. Layers
               PROVE  /\ Len(cache[l]) <= Len(history)
                      /\ cache[l] = SubSeq(history, 1, Len(cache[l]))
    BY DEF CacheIsPrefix
  <2>1. /\ Len(cache[l]) <= Len(history)
        /\ \A k \in 1 .. Len(cache[l]) : cache[l][k] = history[k]
    BY DEF IInv, CacheEntries
  <2>2. /\ cache[l] \in Seq(Tokens \cup {Torn})
        /\ history \in Seq(Tokens \cup {Torn})
    BY DEF IInv, TypeOK
  <2>3. QED
    BY <2>1, <2>2, PrefixByEntries
<1>2. QED
  BY <1>1, Invariance, PTL DEF Spec

\* Attention stays inside the caches and inside the context.
THEOREM AttentionIsSafe == Spec => []AttentionInBounds
<1>1. IInv => AttentionInBounds
  <2> SUFFICES ASSUME IInv, pc = "finish"
               PROVE  Len(cache[layer]) = pos + 1 /\ pos = fed /\ pos < Ctx
    BY DEF AttentionInBounds
  <2>1. pos = fed /\ pos < Ctx /\ layer \in 1 .. Layers
    BY DEF IInv, TypeOK, Place, InStep, Entered, Checked
  <2>2. Len(cache[layer]) = fed + 1
    BY <2>1 DEF IInv, TypeOK, CacheLengths, Joined, InStep, Entered, Checked
  <2>3. QED
    BY <2>1, <2>2
<1>2. QED
  BY <1>1, Invariance, PTL DEF Spec

\* A sample is drawn from logits of everything before it (inference_v2.cpp:34).
THEOREM SamplesSeeHistory == Spec => []LogitsOfHistory
<1>1. IInv => LogitsOfHistory
  <2> SUFFICES ASSUME IInv, pc = "callback"
               PROVE  logits = SubSeq(history, 1, Len(history) - 1)
    BY DEF LogitsOfHistory
  <2>1. /\ Len(logits) = fed /\ fed + 1 = Len(history) /\ fed \in Nat
        /\ \A k \in 1 .. fed : logits[k] = history[k]
    BY DEF IInv, TypeOK, Place, LogitsEntries
  <2>2. /\ logits \in Seq(Tokens \cup {Torn})
        /\ history \in Seq(Tokens \cup {Torn})
    BY DEF IInv, TypeOK
  <2>3. logits = SubSeq(history, 1, Len(logits))
    BY <2>1, <2>2, PrefixByEntries
  <2>4. QED
    BY <2>1, <2>3
<1>2. QED
  BY <1>1, Invariance, PTL DEF Spec
-----------------------------------------------------------------------------
\* generate_ids implements the safety part of the stream its callers rely on:
\* at most max tokens, and a stop that cuts it after at most one more.
THEOREM Refinement == Spec => Stream!Init /\ [][Stream!Next]_(Stream!vars)
<1>1. Init => Stream!Init
  BY DEF Init, Stream!Init
<1>2. IInv /\ [Next]_vars => [Stream!Next]_(Stream!vars)
  <2> SUFFICES ASSUME IInv, [Next]_vars PROVE [Stream!Next]_(Stream!vars)
    OBVIOUS
  <2>1. CASE \E p \in Prompts, m \in MaxTokensSet : Start(p, m)
    <3>1. PICK p \in Prompts, m \in MaxTokensSet : Start(p, m)
      BY <2>1
    <3>2. Stream!Begin(m)
      BY <3>1 DEF Start, Goto, FlagAtStart, Stream!Begin
    <3>3. QED
      BY <3>2 DEF Stream!Next
  <2>2. CASE RequestStop
    <3>1. Stream!RequestStop
      BY <2>2 DEF RequestStop, loop, Stream!RequestStop
    <3>2. QED
      BY <3>1 DEF Stream!Next
  <2>3. CASE EmptyPrompt \/ ContextExceeded \/ BadTensor
    <3>1. Stream!Fail
      BY <2>3 DEF EmptyPrompt, ContextExceeded, BadTensor, End, Goto, loop,
         Stream!Fail, Stream!Finish
    <3>2. QED
      BY <3>1 DEF Stream!Next, Stream!Proceed
  <2>4. CASE Abort
    <3>1. Stream!Abort
      BY <2>4 DEF Abort, Aborting, Checked, End, Goto, loop, Stream!Abort,
         Stream!Finish
    <3>2. QED
      BY <3>1 DEF Stream!Next, Stream!Proceed
  <2>5. CASE \/ Enter \/ BeginLayer \/ LayerDone \/ Project \/ FinishLayer
             \/ Output \/ AppendKV
    <3>1. UNCHANGED Stream!vars
      BY <2>5 DEF Enter, BeginLayer, LayerDone, Project, FinishLayer, Output,
         AppendKV, Stage, Goto, loop, Stream!vars
    <3>2. QED
      BY <3>1
  <2>6. CASE StepDone
    <3>1. UNCHANGED Stream!vars \/ Stream!Compute
      BY <2>6 DEF StepDone, Goto, Aborting, Stream!vars, Stream!Compute
    <3>2. QED
      BY <3>1 DEF Stream!Next, Stream!Proceed
  <2>7. CASE Complete \/ Break \/ Quit
    <3>1. pc = "decide" => sent <= max /\ sent \in Nat /\ max \in Nat
      BY RuntimeAssumption DEF IInv, TypeOK, Budget, InLoop
    <3>2. Stream!Complete \/ Stream!Break \/ Stream!Quit
      BY <2>7, <3>1 DEF Complete, Break, Quit, Exhausted, End, Goto, loop,
         Stream!Complete, Stream!Break, Stream!Quit, Stream!Finish
    <3>3. QED
      BY <3>2 DEF Stream!Next, Stream!Proceed
  <2>8. CASE \E t \in Tokens : Sample(t)
    <3>1. pc = "decide" => sent <= max /\ sent \in Nat /\ max \in Nat
      BY RuntimeAssumption DEF IInv, TypeOK, Budget, InLoop
    <3>2. Stream!Sample
      BY <2>8, <3>1 DEF Sample, Exhausted, Goto, Stream!Sample
    <3>3. QED
      BY <3>2 DEF Stream!Next, Stream!Proceed
  <2>9. CASE Deliver \/ Resume
    <3>1. Stream!Deliver \/ Stream!Resume
      BY <2>9 DEF Deliver, Resume, Goto, loop, Stream!Deliver, Stream!Resume
    <3>2. QED
      BY <3>1 DEF Stream!Next, Stream!Proceed
  <2>10. CASE UNCHANGED vars
    BY <2>10 DEF vars, Stream!vars
  <2>11. QED
    BY <2>1, <2>2, <2>3, <2>4, <2>5, <2>6, <2>7, <2>8, <2>9, <2>10
    DEF Next, Proceed
<1>3. QED
  BY <1>1, <1>2, Invariance, PTL DEF Spec, SafeSpec
=============================================================================
