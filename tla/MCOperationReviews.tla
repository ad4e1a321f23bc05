------------------------- MODULE MCOperationReviews -------------------------
EXTENDS OperationReviews

CONSTANTS c1, c2

Symmetry == Permutations({c1, c2})
=============================================================================
