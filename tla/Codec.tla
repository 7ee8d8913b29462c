-------------------------------- MODULE Codec --------------------------------
(***************************************************************************)
(* How a text is cut into tokens, whatever it is made of: split_tokens of  *)
(* codec.py, and readToken of Parser.cpp called again and again.           *)
(***************************************************************************)
EXTENDS Sequences, SequencesExt

\* A text cut at separators: the tokens that are whole, and the one that may go on.
Whole(cut) == IF cut.word = <<>> THEN cut.done ELSE Append(cut.done, cut.word)
CutNext(separators, cut, l) ==
  IF l \in separators THEN [done |-> Whole(cut), word |-> <<>>]
  ELSE [done |-> cut.done, word |-> Append(cut.word, l)]
TokensOf(s, separators) ==
  Whole(FoldLeft(LAMBDA cut, l : CutNext(separators, cut, l), [done |-> <<>>, word |-> <<>>], s))
==============================================================================
