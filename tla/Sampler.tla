-------------------------------- MODULE Sampler --------------------------------
(***************************************************************************)
(* LlamaRuntime::sample (src/inference_v2.cpp): how the next token is      *)
(* drawn from the logits.  Tokens of the history are made less likely,     *)
(* once for every time they occur; then the likeliest token is taken, or   *)
(* one is drawn from the top_k likeliest, of which only those are kept     *)
(* that together have top_p of the probability.                            *)
(*                                                                         *)
(* Data.  Logits are integers in a unit that penalties divide; std::exp,   *)
(* of a float, is any table Exp that never rises (neighbours may round to  *)
(* the same value) and underflows below Depth; top_p is in percent.  A     *)
(* temperature other than zero only scales the logits.                     *)
(***************************************************************************)
EXTENDS Integers, Sequences, FiniteSets, FiniteSetsExt

CONSTANTS Draws,        \* [logits, history, penalty, greedy, top_k, top_p]
          Depth,
          Exp,          \* Exp[d]: the weight of a token d below the highest
          NoToken

\* A logit for every token of a vocabulary, and penalties of at least one.
ASSUME DrawAssumption ==
    \A d \in Draws :
       /\ IsFiniteSet(DOMAIN d.logits) /\ DOMAIN d.logits # {}
       /\ d.logits \in [0 .. Cardinality(DOMAIN d.logits) - 1 -> Int]
       /\ d.history \in Seq(Nat) /\ d.penalty \in Nat \ {0}
       /\ d.greedy \in BOOLEAN /\ d.top_k \in Nat /\ d.top_p \in Nat

ASSUME ExpAssumption ==
    /\ Depth \in Nat /\ Exp \in [0 .. Depth -> Nat] /\ Exp[0] > 0
    /\ \A d, e \in 0 .. Depth : d <= e => Exp[e] <= Exp[d]

VARIABLES ask,          \* the arguments of sample
          l,            \* the penalized logits
          top,          \* ix, the likeliest tokens
          kept,         \* nix: those of them to draw from
          pick          \* the token drawn

sampleVars == <<ask, l, top, kept, pick>>

Ids == DOMAIN l
-----------------------------------------------------------------------------
\* A negative logit is multiplied: dividing it would make the token likelier.
Scaled(x, f) == IF x >= 0 THEN x \div f ELSE x * f

\* The logit of t when j tokens of the history are done.
Penalized(d, t) ==
    LET after[j \in 0 .. Len(d.history)] ==
            IF j = 0 THEN d.logits[t]
            ELSE IF d.history[j] = t THEN Scaled(after[j - 1], d.penalty)
            ELSE after[j - 1]
    IN after[Len(d.history)]

Highest == Max({l[t] : t \in Ids})

\* std::max_element returns the first.
Greedy == Min({t \in Ids : l[t] = Highest})

TopK == IF ask.top_k = 0 \/ ask.top_k > Cardinality(Ids)
        THEN Cardinality(Ids) ELSE ask.top_k

\* std::nth_element may take any of the tokens that are as likely as the last.
Tops == {S \in kSubset(TopK, Ids) :
         \A a \in S, b \in Ids \ S : l[a] >= l[b]}

Weight(t) == LET d == Highest - l[t] IN IF d > Depth THEN 0 ELSE Exp[d]

\* The weight of a set of tokens, added up over the tokens below k.
Mass(S) ==
    LET upto[k \in 0 .. Cardinality(Ids)] ==
            IF k = 0 THEN 0
            ELSE upto[k - 1] + (IF k - 1 \in S THEN Weight(k - 1) ELSE 0)
    IN upto[Cardinality(Ids)]

Reached_Strictly(N, S) == 100 * Mass(N) > ask.top_p * Mass(S)
Reached(N, S) == 100 * Mass(N) >= ask.top_p * Mass(S)

\* What a descending sort puts first, up to the token that reaches top_p; the
\* order of equals is open.
Nuclei(S) == {N \in SUBSET S :
    /\ Reached(N, S)
    /\ \A a \in N, b \in S \ N : Weight(a) >= Weight(b)
    /\ \E last \in N : /\ \A a \in N : Weight(a) >= Weight(last)
                       /\ N = {last} \/ ~Reached(N \ {last}, S)}
-----------------------------------------------------------------------------
NoAsk == [logits |-> <<>>]

SampleInit == ask = NoAsk /\ l = <<>> /\ top = {} /\ kept = {} /\ pick = NoToken

Ask(d) == /\ ask = NoAsk
          /\ ask' = d
          /\ l' = [t \in DOMAIN d.logits |-> Penalized(d, t)]
          /\ UNCHANGED <<top, kept, pick>>

Asked == ask # NoAsk /\ pick = NoToken

TakeLikeliest == /\ Asked /\ ask.greedy
                 /\ pick' = Greedy
                 /\ UNCHANGED <<ask, l, top, kept>>

Keep == /\ Asked /\ ~ask.greedy /\ kept = {}
        /\ top' \in Tops
        /\ kept' \in IF ask.top_p < 100 THEN Nuclei(top') ELSE {top'}
        /\ UNCHANGED <<ask, l, pick>>

\* std::discrete_distribution draws no token of probability zero.
Draw == /\ Asked
        /\ \E t \in kept : Weight(t) > 0 /\ pick' = t
        /\ UNCHANGED <<ask, l, top, kept>>

SampleNext == (\E d \in Draws : Ask(d)) \/ TakeLikeliest \/ Keep \/ Draw

SampleSpec == SampleInit /\ [][SampleNext]_sampleVars
-----------------------------------------------------------------------------
\* "top_k" and "top_p" of GenerationConfig: fewer than top_k tokens have a
\* higher logit than the one drawn, those that are likelier have together less
\* than top_p of the probability, and the tokens it is drawn from have top_p
\* of it; without a temperature none is higher.  A token that was said before
\* is never made likelier.
DrawnFromNucleus == pick # NoToken =>
    LET higher   == {t \in Ids : l[t] > l[pick]}
        likelier == {t \in Ids : Weight(t) > Weight(pick)}
    IN /\ \A t \in Ids : l[t] <= ask.logits[t]
       /\ IF ask.greedy THEN higher = {}
          ELSE /\ Cardinality(higher) < TopK
               /\ \/ likelier = {}
                  \/ 100 * Mass(likelier) < ask.top_p * Mass(top)
               /\ ask.top_p < 100 => 100 * Mass(kept) >= ask.top_p * Mass(top)
=============================================================================
