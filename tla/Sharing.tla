------------------------------- MODULE Sharing -------------------------------
(***************************************************************************)
(* What the file transfer promises to those a file was offered to.  There  *)
(* are no frames, peers or handlers here: each member takes part once, its *)
(* pieces become more and never fewer, and its copy gets its final name    *)
(* when it is whole, or is given up, and neither is ever undone.           *)
(***************************************************************************)
CONSTANTS Member, Piece

VARIABLES
    have,  \* the pieces each member holds
    copy   \* what became of its copy

share == <<have, copy>>

Init ==
    /\ have = [m \in Member |-> {}]
    /\ copy = [m \in Member |-> "none"]

Begin(m) ==
    /\ copy[m] = "none"
    /\ copy' = [copy EXCEPT ![m] = "part"]
    /\ have' = have

(* A piece that is being written when its copy is given up still counts.   *)
Get(m, i) ==
    /\ copy[m] \in {"part", "gone"} /\ i \notin have[m]
    /\ have' = [have EXCEPT ![m] = have[m] \cup {i}]
    /\ copy' = copy

Save(m) ==
    /\ copy[m] = "part" /\ have[m] = Piece
    /\ copy' = [copy EXCEPT ![m] = "saved"]
    /\ have' = have

GiveUp(m) ==
    /\ copy[m] = "part"
    /\ copy' = [copy EXCEPT ![m] = "gone"]
    /\ have' = have

Next == \E m \in Member : \/ Begin(m) \/ Save(m) \/ GiveUp(m)
                          \/ \E i \in Piece : Get(m, i)

Spec == Init /\ [][Next]_share
=============================================================================
