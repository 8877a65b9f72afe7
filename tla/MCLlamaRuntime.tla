---------------------------- MODULE MCLlamaRuntime ----------------------------
(* Three layers and a context of four positions: a prompt that is empty, ones *)
(* that leave room for samples, one that fills the context and one that       *)
(* exceeds it.  Two calls, so that a call follows one that was aborted.  The  *)
(* tokenizer adds no BOS: otherwise encode never returns an empty prompt.     *)
EXTENDS LlamaRuntime

CONSTANTS bos, eos, a, torn_value

MCTokens  == {bos, eos, a}
MCPrompts == {<<>>, <<a>>, <<bos, a>>, <<a, eos, a, a>>, <<bos, a, a, a, a>>}
MCMaxTokensSet == {0, 1, 3}
=============================================================================
