------------------------ MODULE MCBootstrapLiveness -------------------------
(* BootstrapLiveness on a small instance.  No symmetry: the property is a    *)
(* liveness property.                                                        *)
EXTENDS BootstrapLiveness

CONSTANTS p1, p2, k1, k2, k3
=============================================================================
