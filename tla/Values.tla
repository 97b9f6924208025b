------------------------------- MODULE Values -------------------------------
(***************************************************************************)
(* What the modules of pure rules share: a value that is absent (a NULL    *)
(* column, a missing key, None) and sums over sets and sequences.          *)
(***************************************************************************)
EXTENDS Integers, FiniteSets, FiniteSetsExt, Sequences, SequencesExt

CONSTANT None

ASSUME NoneAssumption == None \notin Int

Abs(x)         == IF x < 0 THEN -x ELSE x
Known(S)       == S \ {None}
SumOver(S, g(_)) == FoldSet(LAMBDA x, acc : acc + g(x), 0, S)
=============================================================================
