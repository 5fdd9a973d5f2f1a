---------------------------- MODULE MCOrderIndex ----------------------------
EXTENDS OrderIndex, TLC

\* Nothing but the arbitrary hash function tells references apart.
RefSymmetry == Permutations(Refs \ {NullRef})
=============================================================================
