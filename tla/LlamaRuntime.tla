----------------------------- MODULE LlamaRuntime -----------------------------
(***************************************************************************)
(* LlamaRuntime::generate_ids and step (src/inference_v2.cpp:31-34): one   *)
(* thread feeds the prompt and then its own samples through the layers of  *)
(* the network, growing one key/value cache per layer, while any other     *)
(* thread may raise the stop flag.                                         *)
(*                                                                         *)
(* Data.  A cache entry is the token it was computed from, logits are the  *)
(* token sequence they depend on, and Torn is what comes out of a parallel *)
(* stage whose jobs saw the flag and skipped their rows (rmsnorm, matvec,  *)
(* dot_cached).  The projections of a layer (norm, q, k, v), its remainder *)
(* (attn_output .. ffn_down) and the output head (norm, matvec) are one    *)
(* stage each: every parallel loop in them that looks at the flag is       *)
(* followed by the same check, and nothing else is read or written between *)
(* them.  WorkerPool shows that such a loop is a parallel for.             *)
(***************************************************************************)
EXTENDS Integers, Sequences

CONSTANTS Layers,       \* layers_
          Ctx,          \* ctx_
          Tokens, Eos, Bos,
          AddBos,       \* tokenizer_.add_bos()
          Prompts,      \* what encode may return
          MaxTokensSet, \* the values of max_tokens
          Torn,         \* a value computed from skipped rows
          MaxCalls      \* bound: how many times generate_ids is called

ASSUME RuntimeAssumption == /\ Layers \in Nat \ {0} /\ Ctx \in Nat
                            /\ Bos \in Tokens /\ Torn \notin Tokens
                            /\ Prompts \subseteq Seq(Tokens)
                            /\ MaxTokensSet \subseteq Nat
                            /\ MaxCalls \in Nat

VARIABLES stop,         \* stop_requested_
          pos,          \* pos_
          cache,        \* cache_: k and v of each layer, which grow together
          history,      \* the prompt's tokens and the samples
          fed,          \* how many of them step has been called for
          layer,        \* the layer that step works on
          torn,         \* the stage that has just run skipped rows
          logits,       \* what step returned last
          pc,           \* where generate_ids and step are
          max, sent,    \* max_tokens and generated.size() after the callback
          ended,        \* how the latest call ended
          calls

loop == <<history, fed, max, sent>>
net  == <<pos, cache, layer, torn, logits>>
vars == <<stop, pos, cache, history, fed, layer, torn, logits, pc, max, sent,
          ended, calls>>

Init == /\ stop = FALSE /\ pos = 0
        /\ cache = [l \in 1 .. Layers |-> <<>>]
        /\ history = <<>> /\ fed = 0 /\ layer = 1 /\ torn = FALSE
        /\ logits = <<>> /\ pc = "idle" /\ max = 0 /\ sent = 0
        /\ ended = "no" /\ calls = 0

Goto(from, to) == pc = from /\ pc' = to

End(from, how) == /\ Goto(from, "idle")
                  /\ ended' = how
                  /\ UNCHANGED <<stop, net, loop, calls>>
-----------------------------------------------------------------------------
(* generate_ids up to the first step *)

WithBos(p) == IF AddBos /\ Head(p) # Bos THEN <<Bos>> \o p ELSE p

CacheAtStart_Kept == cache
CacheAtStart == [l \in 1 .. Layers |-> <<>>]

FlagAtStart == FALSE

\* Clears the flag, the caches and pos_; encodes the prompt.
Start(p, m) == /\ calls < MaxCalls
               /\ Goto("idle", IF p = <<>> THEN "empty" ELSE "step")
               /\ calls' = calls + 1
               /\ stop' = FlagAtStart
               /\ cache' = CacheAtStart
               /\ pos' = 0
               /\ history' = IF p = <<>> THEN <<>> ELSE WithBos(p)
               /\ fed' = 0 /\ max' = m /\ sent' = 0 /\ ended' = "no"
               /\ logits' = <<>>
               /\ UNCHANGED <<layer, torn>>

EmptyPrompt == End("empty", "failed")
-----------------------------------------------------------------------------
(* step(history[fed + 1]) *)

Full == pos >= Ctx

ContextExceeded == Full /\ End("step", "failed")

Enter == /\ ~Full
         /\ Goto("step", "layer")
         /\ layer' = 1
         /\ UNCHANGED <<stop, pos, cache, torn, logits, loop, ended, calls>>

\* The flag is looked at before each layer and after each stage.
Aborting == stop

Checked == {"layer", "projected", "finished", "headed"}

Abort == \E from \in Checked : Aborting /\ End(from, "aborted")

\* A tensor that is missing or has the wrong shape.
BadTensor == \/ ~Full /\ End("step", "failed")
             \/ \E from \in {"project", "finish", "head"} : End(from, "failed")

\* A parallel stage: its jobs may find the flag raised and skip their rows.
Stage(from, to) == /\ Goto(from, to)
                   /\ torn' \in {FALSE, stop}
                   /\ UNCHANGED <<stop, pos, cache, layer, logits, loop, ended,
                                  calls>>

BeginLayer == /\ Goto("layer", "project")
              /\ ~Aborting
              /\ UNCHANGED <<stop, net, loop, ended, calls>>

Project == Stage("project", "projected")

\* The new key and value join the layer's cache; then every head attends to
\* the positions 0 .. pos_, without a look at the flag.
AppendKV == /\ Goto("projected", "finish")
            /\ ~Aborting
            /\ cache' = [cache EXCEPT ![layer] =
                            Append(@, IF torn THEN Torn ELSE history[fed + 1])]
            /\ UNCHANGED <<stop, pos, layer, torn, logits, loop, ended, calls>>

FinishLayer == Stage("finish", "finished")

MoreLayers == layer < Layers

NextLayer_Skipped(l) == l + 2
NextLayer(l) == l + 1

LayerDone == /\ pc = "finished"
             /\ ~Aborting
             /\ IF MoreLayers
                THEN Goto("finished", "layer") /\ layer' = NextLayer(layer)
                ELSE Goto("finished", "head") /\ UNCHANGED layer
             /\ UNCHANGED <<stop, pos, cache, torn, logits, loop, ended, calls>>

Output == Stage("head", "headed")

\* What the logits depend on: what all layers attended to, which is garbage
\* where attention read past the end of a cache.
Attended == LET seen(l) == IF pos < Len(cache[l])
                           THEN SubSeq(cache[l], 1, pos + 1) ELSE <<Torn>>
            IN IF torn \/ \E l \in 1 .. Layers : seen(l) # seen(1)
               THEN <<Torn>> ELSE seen(1)

PosAfterStep_Kept == pos
PosAfterStep == pos + 1

\* step returns; generate_ids advances pos_ and goes on with the prompt.
StepDone == /\ Goto("headed", IF fed + 1 < Len(history) THEN "step"
                                                        ELSE "decide")
            /\ ~Aborting
            /\ logits' = Attended
            /\ pos' = PosAfterStep
            /\ fed' = fed + 1
            /\ UNCHANGED <<stop, cache, layer, torn, history, max, sent, ended,
                           calls>>
-----------------------------------------------------------------------------
(* The token loop *)

Exhausted_OffByOne == sent > max
Exhausted == sent = max

Complete == (Exhausted \/ ~stop) /\ End("decide", "complete")

Break == ~Exhausted /\ stop /\ End("decide", "cut")

Sample(t) == /\ Goto("decide", "callback")
             /\ ~Exhausted /\ ~stop
             /\ t # Eos
             /\ history' = Append(history, t)
             /\ UNCHANGED <<stop, net, fed, max, sent, ended, calls>>

Deliver == /\ Goto("callback", "emitted")
           /\ sent' = sent + 1
           /\ UNCHANGED <<stop, net, history, fed, max, ended, calls>>

\* The callbacks of the command line and of generate always go on; the one of
\* the server returns !stop_requested().
Resume == /\ Goto("emitted", "step")
          /\ UNCHANGED <<stop, net, loop, ended, calls>>

Quit == stop /\ End("emitted", "cut")

\* request_stop, by a thread of the server.
RequestStop == /\ stop' = TRUE
               /\ UNCHANGED <<net, loop, pc, ended, calls>>

Proceed == \/ EmptyPrompt \/ ContextExceeded \/ Enter \/ Abort \/ BadTensor
           \/ BeginLayer \/ Project \/ AppendKV \/ FinishLayer \/ LayerDone
           \/ Output \/ StepDone
           \/ Complete \/ Break \/ (\E t \in Tokens : Sample(t))
           \/ Deliver \/ Resume \/ Quit

Next == (\E p \in Prompts, m \in MaxTokensSet : Start(p, m)) \/ RequestStop
        \/ Proceed

SafeSpec == Init /\ [][Next]_vars
Spec == SafeSpec /\ WF_vars(Proceed)
-----------------------------------------------------------------------------
(* Properties *)

PCs == Checked \cup {"idle", "empty", "step", "project", "finish", "head",
                     "decide", "callback", "emitted"}
Ends == {"no", "complete", "cut", "aborted", "failed"}

\* The values of the variables.
TypeOK == /\ stop \in BOOLEAN /\ torn \in BOOLEAN
          /\ pos \in Nat /\ fed \in Nat /\ sent \in Nat
          /\ max \in MaxTokensSet \cup {0} /\ calls \in 0 .. MaxCalls
          /\ cache \in [1 .. Layers -> Seq(Tokens \cup {Torn})]
          /\ history \in Seq(Tokens)
          /\ logits \in Seq(Tokens \cup {Torn})
          /\ layer \in 1 .. Layers
          /\ pc \in PCs /\ ended \in Ends

\* Every layer's cache holds keys and values of a prefix of this generation's
\* tokens: none of a generation that was aborted in the middle of a layer, and
\* none that was computed from rows a stopped stage had skipped.
CacheIsPrefix == \A l \in 1 .. Layers :
    /\ Len(cache[l]) <= Len(history)
    /\ cache[l] = SubSeq(history, 1, Len(cache[l]))

\* Attention over the positions 0 .. pos_ stays inside the cache of its layer
\* and the context the model was trained for, and ends at the token that step
\* was called for.
AttentionInBounds == pc = "finish" => /\ Len(cache[layer]) = pos + 1
                                      /\ pos = fed /\ pos < Ctx

\* A token is sampled from logits that depend on the whole of the prompt and of
\* what was generated before it.
LogitsOfHistory == pc = "callback" =>
    logits = SubSeq(history, 1, Len(history) - 1)

\* generate_ids is the token stream its callers rely on, and it ends.
Stream == INSTANCE Generation WITH
    phase <- IF pc \in {"idle", "decide", "callback", "emitted"}
             THEN pc ELSE "network"
ImplementsGeneration == Stream!Spec
=============================================================================
