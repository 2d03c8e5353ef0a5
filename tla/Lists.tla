------------------------------- MODULE Lists --------------------------------
(***************************************************************************)
(* What Array.filter does: the members of a sequence that are in a set, in *)
(* their order.  SelectSeq says it too, but only to TLC: a prover knows    *)
(* nothing of it.                                                          *)
(***************************************************************************)
EXTENDS SequencesExt

Keeping(s, S) ==
    FlattenSeq([i \in 1 .. Len(s) |-> IF s[i] \in S THEN <<s[i]>> ELSE <<>>])

=============================================================================
