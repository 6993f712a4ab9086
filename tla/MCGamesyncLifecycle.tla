------------------------ MODULE MCGamesyncLifecycle ------------------------
(* Small instances of GamesyncLifecycle for TLC. *)
EXTENDS GamesyncLifecycle, TLC

Symmetry == Permutations(UserSession) \cup Permutations(Stream)
              \cup Permutations(Issuer)
=============================================================================
