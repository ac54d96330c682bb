-------------------------- MODULE MCSelectionFlow --------------------------
EXTENDS SelectionFlow
CONSTANTS a1, a2, p1, p2
Symmetry == Permutations({a1, a2}) \union Permutations({p1, p2})
=============================================================================
