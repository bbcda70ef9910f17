---------------------------- MODULE MCApiService ----------------------------
(* Two replicas over three releases, two of one version number: a second     *)
(* Registry collection, or one made anew, counts its versions from v0 again. *)
EXTENDS ApiService, TLC

CONSTANTS ra, rb, rc, i1, i2, a1, a2

Versioned == [release \in Releases |-> IF release = rc THEN "v1" ELSE "v0"]

Symmetry == Permutations(Servers) \union Permutations(EventIds)
=============================================================================
