--------------------------- MODULE MCLocalEndpoint ---------------------------
(* Small instances of LocalEndpoint.  The threads of the dispatcher are    *)
(* interchangeable.                                                        *)
EXTENDS LocalEndpoint, TLC

Symmetry == Permutations(Worker)
=============================================================================
