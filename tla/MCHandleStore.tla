--------------------------- MODULE MCHandleStore ----------------------------
(* Instance of HandleStore for TLC: ids are interchangeable.               *)
EXTENDS HandleStore, TLC

Symmetry == Permutations(HandleIds) \cup Permutations(Robots)
              \cup Permutations(Controllers)
=============================================================================
