---------------------- MODULE MCAdoptionRequestsScreen ----------------------
(***************************************************************************)
(* Screens and requests are model values, interchangeable in the runs that *)
(* check no liveness.                                                      *)
(***************************************************************************)
EXTENDS AdoptionRequestsScreen

CONSTANTS s1, s2, r1, r2

Interchangeable == Permutations({s1, s2}) \cup Permutations({r1, r2})
=============================================================================
