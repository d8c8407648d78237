--------------------------- MODULE MCLanMessaging ---------------------------
(* Small instances of LanMessaging for TLC: one message from ann to bob,   *)
(* or one each way.                                                        *)
EXTENDS LanMessaging, TLC

CONSTANTS ann, bob, m1, m2

BothWaysFrom == (m1 :> ann) @@ (m2 :> bob)
BothWaysTo   == (m1 :> bob) @@ (m2 :> ann)
=============================================================================
