---------------------------- MODULE MCTokenizer ----------------------------
(***************************************************************************)
(* Inputs for Tokenizer alone: int A; and a name with a capital in it.     *)
(***************************************************************************)
EXTENDS Tokenizer, SequencesExt

File(fs) == FlattenSeq(fs) \o <<Newline>>
MCUpperCase == {File(<<<<"i", "n", "t">>, <<" ">>, <<"A">>>>), File(<<<<"a">>, <<"B">>>>)}
=============================================================================
