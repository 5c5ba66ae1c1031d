-------------------------------- MODULE Lists --------------------------------
(***************************************************************************)
(* What the iterators the sources use come to: a filter of a sequence, and *)
(* a sum.                                                                  *)
(***************************************************************************)
EXTENDS Integers, SequencesExt

IsSequence(s) == s \in Seq(Range(s))

\* The elements of s that are in yes, in the order of s.
Kept(s, yes) == FoldLeft(LAMBDA kept, x : IF x \in yes THEN Append(kept, x) ELSE kept, <<>>, s)

Summed(s) == FoldLeft(LAMBDA sum, x : sum + x, 0, s)
=============================================================================
