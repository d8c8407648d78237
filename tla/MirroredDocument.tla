-------------------------- MODULE MirroredDocument --------------------------
(***************************************************************************)
(* What keeping a document of the editor in a language server promises:    *)
(* the texts of the buffer reach the server's copy one after the other, in *)
(* the order they were handed over.  One is being delivered and one may    *)
(* wait; a newer text replaces the one that waits.                         *)
(***************************************************************************)
EXTENDS Sequences

CONSTANTS
    Text,  \* what the buffer can hold
    First, \* what it holds when the file is opened
    None   \* no copy

VARIABLES
    buffer, \* the live text
    line,   \* the text under way and the one that waits
    copy    \* what the server has

vars == <<buffer, line, copy>>

Init == buffer = First /\ line = <<>> /\ copy = None

Edit == buffer' \in Text /\ UNCHANGED <<line, copy>>

(* The latest text is handed over.                                          *)
Hand ==
    /\ line' = IF line = <<>> THEN <<buffer>> ELSE <<Head(line), buffer>>
    /\ UNCHANGED <<buffer, copy>>

Deliver ==
    /\ line # <<>> /\ copy' = Head(line)
    /\ UNCHANGED <<buffer, line>>

(* The server answered, or the call failed.                                 *)
Advance ==
    /\ line # <<>> /\ line' = Tail(line)
    /\ UNCHANGED <<buffer, copy>>

(* The file is closed, or the workspace lets go of the text under way.      *)
Abandon == line' = <<>> /\ UNCHANGED <<buffer, copy>>

(* The server stops or crashes.                                             *)
Lose == copy' = None /\ UNCHANGED <<buffer, line>>

Next == Edit \/ Hand \/ Deliver \/ Advance \/ Abandon \/ Lose

Spec == Init /\ [][Next]_vars
=============================================================================
