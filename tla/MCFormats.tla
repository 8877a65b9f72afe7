------------------------------- MODULE MCFormats -------------------------------
(* The sequential code, one after the other in one run.  All the quantized    *)
(* formats, with a size_t of twelve bits, in tensors of one small block, of a *)
(* block and one element, of a whole super-block, and of a super-block and a  *)
(* part, of more bytes than a size_t counts (Q6_K), and of more elements; the *)
(* weights of an F16 tensor, all the 2^15 magnitudes; rows up to twice the    *)
(* lanes, with tiles of no, less than and more than a row; texts of up to     *)
(* five characters, of which every byte is one; shapes of the network with up *)
(* to four heads, the most of them to be refused; and draws from three        *)
(* tokens.                                                                    *)
EXTENDS Dequant, Half, DotKernels, Tokenizer, Attention, Sampler

MCTypes == Small \cup KTypes
MCSizeMax == 4095
MCShapes == {<<32, 1>>, <<11, 3>>, <<16, 16>>, <<100, 3>>,
             <<640, 1>>, <<64, 65>>}
MCRows == (0 .. 9) \cup (15 .. 18) \cup (31 .. 38)
MCBudgets == {0, 8, 40, 76, 4096}
-----------------------------------------------------------------------------
\* a, b, the two characters that begin a special token, and all bytes.
A == <<97>>
B == <<98>>
Bytewise == [k \in 1 .. 256 |-> <<Mapped[k - 1]>>]
InOrderMerges == <<<<A, B>>, <<A, A>>, <<A \o B, A \o B>>, <<A \o A, A>>>>
\* Two ways to one symbol, both of them before it is used.
TwofoldMerges == <<<<A, B>>, <<B, A>>, <<A \o B, A>>, <<A, B \o A>>,
                   <<A \o B \o A, B>>>>
OtherMerges == <<<<A \o B, A>>, <<A, B>>, <<B, A>>, <<A, A>>, <<B, A>>>>
Products(merges) == [k \in DOMAIN merges |-> merges[k][1] \o merges[k][2]]
Specials == <<<<60, 124, 97>>, <<60, 124, 97, 98>>>>

Model(tokens, merges, add_bos) ==
    [tokens |-> tokens, merges |-> merges, bos |-> 256, unk |-> 0,
     add_bos |-> add_bos]
Trained == Model(Bytewise \o Specials \o Products(InOrderMerges), InOrderMerges,
                 TRUE)
Foreign == Model(Bytewise \o Products(OtherMerges) \o Specials, OtherMerges, FALSE)
Twofold == Model(Bytewise \o Products(TwofoldMerges), TwofoldMerges, FALSE)
Partial == Model(<<A, B, <<124>>>> \o Specials, InOrderMerges, FALSE)

MCVocabularies == {Trained, Foreign, Partial, Twofold}
MCTexts == UNION {[1 .. k -> {97, 98, 60, 124}] : k \in 1 .. 5}
MCInputs == (MCVocabularies \X MCTexts)
            \cup ({Trained} \X [1 .. 1 -> 0 .. 255])
            \cup ({Trained} \X {<<32, 97, 195, 164, 10>>, <<>>})
-----------------------------------------------------------------------------
\* Without a number of key heads or a rope dimension, and with them.
Shape(hidden, heads) ==
    [embedding_length |-> hidden, head_count |-> heads,
     block_count |-> 1, feed_forward_length |-> 1]
With(m, key, value) == [x \in DOMAIN m \cup {key} |->
                           IF x = key THEN value ELSE m[x]]
Ungrouped == {Shape(hidden, heads) : hidden \in {0, 4, 6, 8, 12}, heads \in 0 .. 4}
Grouped == Ungrouped \cup {With(m, "head_count_kv", kv) : m \in Ungrouped, kv \in 0 .. 3}
MCMetas == Grouped
           \cup {With(m, "rope_dimension_count", rope) :
                    m \in Grouped, rope \in 0 .. 4}
           \cup {With(Shape(4, 2), key, 0) :
                    key \in {"block_count", "feed_forward_length"}}

MCDraws == [logits : [0 .. 2 -> {-4, 0, 4, 8}],
            history : {<<>>, <<1>>, <<0, 1, 0>>, <<2, 7>>}, penalty : {1, 2},
            greedy : {FALSE}, top_k : {0, 1, 2, 9}, top_p : {0, 50, 90, 100}]
           \cup [logits : [0 .. 2 -> {-4, 0, 4, 8}],
                 history : {<<>>, <<1>>, <<0, 1, 0>>}, penalty : {1, 2},
                 greedy : {TRUE}, top_k : {0}, top_p : {100}]

\* Different logits far below the highest may have the same weight.
MCExp == [d \in 0 .. 8 |-> IF d <= 4 THEN 2^(8 - d) ELSE 16]
-----------------------------------------------------------------------------
others == <<attnVars, sampleVars>>

MCInit == /\ Init /\ HalfInit /\ DotInit /\ TokInit /\ vocab = Trained
          /\ AttnInit /\ SampleInit

\* The last element of one of the tensors; the others follow from there.
Later == type = "Q8_0" /\ shape = <<32, 1>> /\ i = 31
NoWeight == weight = 0
NoRow == kernel = "none"
NoText == text = <<>> /\ result = <<>>
NoOther == phase = "new" /\ ask = NoAsk

Decoded == Element /\ UNCHANGED <<weight, dotVars, tokVars, others>>

NextWeight == /\ Later /\ NoRow /\ NoText /\ NoOther
              /\ HalfNext
              /\ UNCHANGED <<vars, dotVars, tokVars, others>>

Summed == /\ Later /\ NoWeight /\ NoText /\ NoOther
          /\ DotNext
          /\ UNCHANGED <<vars, weight, tokVars, others>>

Tokenized == /\ Later /\ NoWeight /\ NoRow /\ NoOther
             /\ TokNext
             /\ UNCHANGED <<vars, weight, dotVars, others>>

Shaped == /\ Later /\ NoWeight /\ NoRow /\ NoText
          /\ ask = NoAsk
          /\ AttnNext
          /\ UNCHANGED <<vars, weight, dotVars, tokVars, sampleVars>>

Drawn == /\ Later /\ NoWeight /\ NoRow /\ NoText
         /\ phase = "new"
         /\ SampleNext
         /\ UNCHANGED <<vars, weight, dotVars, tokVars, attnVars>>

MCNext == Decoded \/ NextWeight \/ Summed \/ Tokenized \/ Shaped \/ Drawn
MCSpec == MCInit /\ [][MCNext]_<<vars, weight, dotVars, tokVars, others>>
=============================================================================
