------------------------- MODULE MCSemanticRevision -------------------------
(* SemanticRevision for TLC: interchangeable callers, one founded memory. *)
EXTENDS SemanticRevision, TLC

Symmetry == Permutations(Callers)

CONSTANT m1

OneMemory == <<m1>>

=============================================================================
