------------------------------- MODULE Tokenizer -------------------------------
(***************************************************************************)
(* Gpt2Tokenizer (src/tokenizer.cpp): encode cuts a text at the special    *)
(* tokens of the vocabulary, writes the bytes of what lies between as      *)
(* printable characters, joins neighbouring symbols by the ranks of the    *)
(* model's merges, and looks up what is left; decode goes back.            *)
(*                                                                         *)
(* Data.  A text is a sequence of bytes, a token or a symbol a sequence of *)
(* code points: cp and utf8_symbols write code points as UTF-8 and cut     *)
(* them apart again.  Ids count from zero.                                 *)
(***************************************************************************)
EXTENDS Integers, Sequences, FiniteSets, FiniteSetsExt, SequencesExt

CONSTANTS Vocabularies, \* [tokens, merges, bos, unk, add_bos] of the models
          Inputs        \* pairs of a vocabulary and a text to encode

VARIABLES vocab,        \* the loaded tokenizer
          text,         \* what encode is given
          pos,          \* where it is in the text
          end,          \* where the piece it joins ends
          syms,         \* the symbols of the piece; empty between pieces
          result        \* the ids so far

tokVars == <<vocab, text, pos, end, syms, result>>
-----------------------------------------------------------------------------
(* byte_encode and byte_decode *)

Direct == (33 .. 126) \cup (161 .. 172) \cup (174 .. 255)

\* The n-th byte that is not printable becomes the code point 256 + n.
Mapped == [b \in 0 .. 255 |->
              IF b \in Direct THEN b
              ELSE 256 + Cardinality((0 .. b - 1) \ Direct)]

Unmapped == [x \in {Mapped[b] : b \in 0 .. 255} |->
                CHOOSE b \in 0 .. 255 : Mapped[b] = x]

\* A code point that stands for no byte is kept.
ByteDecode(s) == [k \in DOMAIN s |-> IF s[k] \in DOMAIN Unmapped
                                     THEN Unmapped[s[k]] ELSE s[k]]
-----------------------------------------------------------------------------
(* The tables: the first of equal tokens counts, the last of equal merges. *)

IsSpecial(token) == Len(token) > 2 /\ SubSeq(token, 1, 2) = <<60, 124>>

\* The code compares the bytes of a special token with the text: code points
\* below 128 are their own bytes.
ASSUME TokAssumption ==
    /\ \A v \in Vocabularies :
          /\ v.tokens \in Seq(Seq(Nat)) /\ v.merges \in Seq(Seq(Nat) \X Seq(Nat))
          /\ v.bos \in Nat /\ v.unk \in Nat /\ v.add_bos \in BOOLEAN
          /\ \A token \in ToSet(v.tokens) :
                IsSpecial(token) => ToSet(token) \subseteq 0 .. 127
    /\ Inputs \subseteq Vocabularies \X Seq(0 .. 255)

Known(token) == token \in ToSet(vocab.tokens)
Id(token) ==
    IF Known(token)
    THEN Min({k \in DOMAIN vocab.tokens : vocab.tokens[k] = token}) - 1
    ELSE vocab.unk

Ranked(a, b) == <<a, b>> \in ToSet(vocab.merges)
RankIn(merges, pair) == Max({k \in DOMAIN merges : merges[k] = pair})
Rank(a, b) == RankIn(vocab.merges, <<a, b>>)

SpecialsAt(p) == {token \in ToSet(vocab.tokens) :
                  /\ IsSpecial(token)
                  /\ IsPrefix(token, SubSeq(text, p, Len(text)))}

\* The end of the piece at p: before the next special token.
PieceEnd(p) == Min({e \in p .. Len(text) : SpecialsAt(e + 1) # {}}
                   \cup {Len(text)})
-----------------------------------------------------------------------------
(* encode *)

TokInit == /\ vocab \in Vocabularies
           /\ text = <<>> /\ pos = 1 /\ end = 0 /\ syms = <<>> /\ result = <<>>

AtPiece == syms = <<>> /\ pos <= Len(text)

\* A call keeps nothing for the next one: a behaviour has one.
Encode(v, t) == /\ text = <<>> /\ result = <<>>
                /\ vocab' = v /\ text' = t
                /\ result' = IF v.add_bos THEN <<v.bos>> ELSE <<>>
                /\ UNCHANGED <<pos, end, syms>>

\* The map of ids has no order: which of two that match is up to it.
TakeSpecial == /\ AtPiece
               /\ \E token \in SpecialsAt(pos) :
                     /\ result' = Append(result, Id(token))
                     /\ pos' = pos + Len(token)
               /\ UNCHANGED <<vocab, text, end, syms>>

Symbols(from, to) ==
    [k \in 1 .. to - from + 1 |-> <<Mapped[text[from + k - 1]]>>]

BeginPiece == /\ AtPiece /\ SpecialsAt(pos) = {}
              /\ end' = PieceEnd(pos)
              /\ syms' = Symbols(pos, PieceEnd(pos))
              /\ UNCHANGED <<vocab, text, pos, result>>

Joinable == {k \in 1 .. Len(syms) - 1 : Ranked(syms[k], syms[k + 1])}

\* Where the pair of least rank is, the first of equals.
Best_LastOfEquals ==
    Max({k \in Joinable : \A q \in Joinable :
            Rank(syms[k], syms[k + 1]) <= Rank(syms[q], syms[q + 1])})
Best == Min({k \in Joinable : \A q \in Joinable :
                Rank(syms[k], syms[k + 1]) <= Rank(syms[q], syms[q + 1])})

JoinedAt_NotErased(k) == [syms EXCEPT ![k] = @ \o syms[k + 1]]
JoinedAt(k) == RemoveAt([syms EXCEPT ![k] = @ \o syms[k + 1]], k + 1)

JoinPair == /\ Joinable # {}
            /\ syms' = JoinedAt(Best)
            /\ UNCHANGED <<vocab, text, pos, end, result>>

EndPiece == /\ syms # <<>> /\ Joinable = {}
            /\ result' = result \o [k \in DOMAIN syms |-> Id(syms[k])]
            /\ syms' = <<>> /\ pos' = end + 1
            /\ UNCHANGED <<vocab, text, end>>

TokStep == TakeSpecial \/ BeginPiece \/ JoinPair \/ EndPiece

TokNext == (\E input \in Inputs : Encode(input[1], input[2])) \/ TokStep

TokSpec == TokInit /\ [][TokNext]_tokVars
-----------------------------------------------------------------------------
(* decode *)

Decode(id) == IF id >= Len(vocab.tokens) \/ IsSpecial(vocab.tokens[id + 1])
              THEN <<>> ELSE ByteDecode(vocab.tokens[id + 1])
-----------------------------------------------------------------------------
(* Properties *)

\* The vocabulary has every byte and every product of a merge.
Closed == {<<Mapped[b]>> : b \in 0 .. 255}
          \cup {m[1] \o m[2] : m \in ToSet(vocab.merges)}
          \subseteq ToSet(vocab.tokens)

\* What an id stands for in a text: a special token, itself.
Meant(id) == IF IsSpecial(vocab.tokens[id + 1]) THEN vocab.tokens[id + 1]
             ELSE Decode(id)

\* encode loses, doubles and reorders nothing: at any time the ids, the symbols
\* and the rest are the text, so that decoding gives it back.
EncodesText ==
    LET ids  == IF vocab.add_bos /\ result # <<>> THEN Tail(result) ELSE result
        rest == SubSeq(text, IF syms = <<>> THEN pos ELSE end + 1, Len(text))
    IN text # <<>> /\ Closed =>
          FlattenSeq([k \in DOMAIN ids |-> Meant(ids[k])])
          \o ByteDecode(FlattenSeq(syms)) \o rest = text

\* Byte-pair encoding as GPT-2 defines it: while neighbours have a rank, all the
\* occurrences of the pair of least rank are joined, from the left.
JoinAll(s, pair) ==
    LET n == Len(s)
        last[m \in 0 .. n] ==      \* the last m symbols
            IF m = 0 THEN <<>>
            ELSE IF m > 1 /\ <<s[n - m + 1], s[n - m + 2]>> = pair
            THEN <<pair[1] \o pair[2]>> \o last[m - 2]
            ELSE <<s[n - m + 1]>> \o last[m - 1]
    IN last[n]
RankedPairs(merges, s) == {<<s[k], s[k + 1]>> : k \in 1 .. Len(s) - 1}
                          \cap ToSet(merges)
Round(merges, s) ==
    LET pairs == RankedPairs(merges, s)
    IN IF pairs = {} THEN s
       ELSE JoinAll(s, CHOOSE p \in pairs :
               \A q \in pairs : RankIn(merges, p) <= RankIn(merges, q))

\* A round that joins anything shortens the word.
Reference(merges, s) ==
    LET after[n \in 0 .. Len(s)] ==
            IF n = 0 THEN s ELSE Round(merges, after[n - 1])
    IN after[Len(s)]

\* A table in which every merge that makes a symbol comes before those that use
\* it, as where every symbol is made by one merge.
InOrder(merges) == \A j, k \in DOMAIN merges :
    merges[j][1] \o merges[j][2] \in {merges[k][1], merges[k][2]} => j < k

\* Joining one pair at a time ("GGUF GPT-2 tokenizer", README.md:17) gives the
\* symbols of the reference.
MatchesReference == syms # <<>> /\ Joinable = {} /\ InOrder(vocab.merges) =>
    syms = Reference(vocab.merges, Symbols(pos, end))
=============================================================================
