----------------------------- MODULE MCLanSwarm -----------------------------
(* Small instances of LanSwarm for TLC: a direct transfer to one member    *)
(* and a group of two.                                                     *)
EXTENDS LanSwarm, TLC

Symmetry == Permutations(Member)
=============================================================================
