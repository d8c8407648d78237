------------------------------ MODULE Exchange ------------------------------
(***************************************************************************)
(* What one established connection promises to the two who use it.  There  *)
(* are no queues, loops or frames here: an end may have a limited number   *)
(* of requests open, each is taken by the other end once and answered with *)
(* one piece, and a text that was posted arrives once.                     *)
(***************************************************************************)
EXTENDS Naturals

CONSTANTS
    Ends,    \* the two ends
    Limit,   \* requests that an end may have open
    Pieces   \* pieces each end wants

VARIABLES
    want,    \* pieces an end has still to ask for
    due,     \* its requests that the other end has not taken
    coming,  \* answers being made for it or on their way to it
    text     \* the text of each end

exchange == <<want, due, coming, text>>

Init ==
    /\ want = Pieces
    /\ due = [n \in Ends |-> 0] /\ coming = [n \in Ends |-> 0]
    /\ text = [n \in Ends |-> "unsent"]

Ask(n) ==
    /\ want[n] > 0 /\ due[n] + coming[n] < Limit
    /\ want' = [want EXCEPT ![n] = want[n] - 1]
    /\ due' = [due EXCEPT ![n] = due[n] + 1]
    /\ UNCHANGED <<coming, text>>

Answer(n) ==
    /\ due[n] > 0
    /\ due' = [due EXCEPT ![n] = due[n] - 1]
    /\ coming' = [coming EXCEPT ![n] = coming[n] + 1]
    /\ UNCHANGED <<want, text>>

Receive(n) ==
    /\ coming[n] > 0
    /\ coming' = [coming EXCEPT ![n] = coming[n] - 1]
    /\ UNCHANGED <<want, due, text>>

Post(n) ==
    /\ text[n] = "unsent"
    /\ text' = [text EXCEPT ![n] = "queued"]
    /\ UNCHANGED <<want, due, coming>>

Arrive(n) ==
    /\ text[n] = "queued"
    /\ text' = [text EXCEPT ![n] = "arrived"]
    /\ UNCHANGED <<want, due, coming>>

Next == \E n \in Ends :
            Ask(n) \/ Answer(n) \/ Receive(n) \/ Post(n) \/ Arrive(n)

Spec == Init /\ [][Next]_exchange
=============================================================================
