----------------------------- MODULE MCLanQueues -----------------------------
(* Small instances of LanQueues for TLC: both ends fetch pieces, ann films. *)
EXTENDS LanQueues, TLC

CONSTANTS ann, bob

AnnFetchesMore == (ann :> 2) @@ (bob :> 1)
AnnFilms       == (ann :> 2) @@ (bob :> 0)
=============================================================================
