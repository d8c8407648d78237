----------------------------- MODULE MCRestore -----------------------------
(* Small instances of Restore for TLC: a full archive and a partial one.   *)
EXTENDS Restore

CONSTANTS full, part, db, cfg

Archives == [b \in {full, part} |-> IF b = full THEN {db, cfg} ELSE {cfg}]
=============================================================================
