--------------------------- MODULE MCGamesyncStore ---------------------------
(* Small instances of GamesyncStore for TLC. *)
EXTENDS GamesyncStore, TLC

Symmetry == Permutations(Writer) \cup Permutations(Stream)
=============================================================================
