--------------------------- MODULE MCEpisodeWrite ---------------------------
(* Instances of EpisodeWrite for TLC. *)
EXTENDS EpisodeWrite, TLC

EpisodeSymmetry == Permutations(Episodes) \cup Permutations(Writers)
=============================================================================
