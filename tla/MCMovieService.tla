--------------------------- MODULE MCMovieService ---------------------------
(* Instances of MovieService for TLC. *)
EXTENDS MovieService, TLC

CONSTANTS m1, m2, m3, s1, s2, q1, q2

\* Nothing tells the movies, the slugs or the requests apart.
Alike == Permutations(Movies) \cup Permutations(Slugs) \cup Permutations(Requests)
=============================================================================
