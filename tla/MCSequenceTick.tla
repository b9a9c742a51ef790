--------------------------- MODULE MCSequenceTick ---------------------------
(* Small instances of a sequence; replicas are interchangeable.              *)
EXTENDS SequenceTick, TLC

Symmetry == Permutations(Ticks)
=============================================================================
