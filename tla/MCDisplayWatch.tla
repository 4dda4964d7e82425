---------------------------- MODULE MCDisplayWatch ----------------------------
(* Small instances of DisplayWatch. *)
EXTENDS DisplayWatch, TLC

Symmetry == Permutations(Tasks) \union Permutations(Watches) \union Permutations(Handlers)

=============================================================================
