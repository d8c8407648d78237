--------------------------- MODULE MCLanTransport ---------------------------
(* Small instances of LanTransport for TLC: two nodes, ann with the        *)
(* smaller id.                                                             *)
EXTENDS LanTransport, TLC

CONSTANTS ann, bob

AnnFirst == (ann :> 1) @@ (bob :> 2)

Symmetry == Permutations(Sock)
=============================================================================
