------------------------- MODULE MCSelectionMirror -------------------------
EXTENDS SelectionMirror

Symm == Permutations(Procs) \cup Permutations(Subs) \cup Permutations(Groups)
          \cup Permutations(Nodes)
=============================================================================
