------------------------------ MODULE Generation ------------------------------
(***************************************************************************)
(* What a request relies on when it calls generate_ids: a stream of at     *)
(* most max tokens, which ends, and which a stop cuts after at most one    *)
(* more token.  Module ApiServer embeds the same phases in its handlers;   *)
(* module LlamaRuntime implements them.                                    *)
(***************************************************************************)
EXTENDS Integers

CONSTANT MaxTokensSet   \* the values of max_tokens

VARIABLES phase,        \* where generate_ids is, as far as its caller can tell
          max,          \* max_tokens of the running generation
          sent,         \* tokens passed to the callback
          stop,         \* the stop flag
          ended         \* how the latest generation ended

vars == <<phase, max, sent, stop, ended>>

Init == /\ phase = "idle" /\ max = 0 /\ sent = 0
        /\ stop = FALSE /\ ended = "no"

\* The flag is cleared before anything else: a stop of the past is forgotten.
Begin(m) == /\ phase = "idle"
            /\ phase' = "network"
            /\ max' = m /\ sent' = 0 /\ stop' = FALSE /\ ended' = "no"

RequestStop == /\ stop' = TRUE
               /\ UNCHANGED <<phase, max, sent, ended>>

Compute == /\ phase = "network" /\ ~stop
           /\ phase' = "decide"
           /\ UNCHANGED <<max, sent, stop, ended>>

Finish(how) == /\ phase' = "idle"
               /\ ended' = how
               /\ UNCHANGED <<max, sent, stop>>

Abort == phase = "network" /\ stop /\ Finish("aborted")
Fail == phase = "network" /\ Finish("failed")
Complete == phase = "decide" /\ (sent = max \/ ~stop) /\ Finish("complete")
Break == phase = "decide" /\ sent < max /\ stop /\ Finish("cut")

Sample == /\ phase = "decide" /\ sent < max /\ ~stop
          /\ phase' = "callback"
          /\ UNCHANGED <<max, sent, stop, ended>>

Deliver == /\ phase = "callback"
           /\ phase' = "emitted"
           /\ sent' = sent + 1
           /\ UNCHANGED <<max, stop, ended>>

\* The callback may ask for more; it asks for the end only after a stop.
Resume == /\ phase = "emitted"
          /\ phase' = "network"
          /\ UNCHANGED <<max, sent, stop, ended>>

Quit == phase = "emitted" /\ stop /\ Finish("cut")

Proceed == Compute \/ Abort \/ Fail \/ Complete \/ Break
           \/ Sample \/ Deliver \/ Resume \/ Quit

Next == (\E m \in MaxTokensSet : Begin(m)) \/ RequestStop \/ Proceed

Spec == Init /\ [][Next]_vars /\ WF_vars(Proceed)
=============================================================================
