------------------------------- MODULE Lists -------------------------------
(***************************************************************************)
(* What the code does with a vector and the standard library does for it.  *)
(***************************************************************************)
EXTENDS SequencesExt

\* Vec::retain: the elements that are kept, in their order.
Retain(s, keep) ==
  FoldLeft(LAMBDA kept, x : IF x \in keep THEN Append(kept, x) ELSE kept,
           <<>>, s)

============================================================================
