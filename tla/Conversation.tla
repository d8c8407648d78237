---------------------------- MODULE Conversation ----------------------------
(***************************************************************************)
(* What a chat thread promises whoever types into it: the messages are     *)
(* answered one at a time, in the order they were taken.  Who comes first  *)
(* begins at once, who comes meanwhile waits, and the end of one turn is   *)
(* the beginning of the next.                                              *)
(***************************************************************************)
EXTENDS Naturals, Sequences

CONSTANTS
    Message,   \* what may be typed
    MaxQueued  \* how many messages may wait

VARIABLES
    waiting, \* the messages that wait
    active,  \* the one that is being answered, if any
    sent     \* those whose turn began, in that order

vars == <<waiting, active, sent>>

Init == waiting = <<>> /\ active = {} /\ sent = <<>>

In(m, s) == \E i \in 1 .. Len(s) : s[i] = m

Fresh(m) == ~In(m, sent) /\ ~In(m, waiting)

(* A message finds the thread at rest.                                      *)
Begin(m) ==
    /\ Fresh(m) /\ active = {} /\ waiting = <<>>
    /\ active' = {m} /\ sent' = Append(sent, m)
    /\ UNCHANGED waiting

(* A message finds another one under way.                                   *)
Wait(m) ==
    /\ Fresh(m) /\ active # {} /\ Len(waiting) < MaxQueued
    /\ waiting' = Append(waiting, m)
    /\ UNCHANGED <<active, sent>>

(* A turn ends, and the next one begins.                                    *)
GoOn ==
    /\ active # {} /\ waiting # <<>>
    /\ active' = {Head(waiting)} /\ sent' = Append(sent, Head(waiting))
    /\ waiting' = Tail(waiting)

(* The last turn ends.                                                      *)
Rest ==
    /\ active # {} /\ waiting = <<>>
    /\ active' = {}
    /\ UNCHANGED <<waiting, sent>>

(* A message that waits is taken back.                                      *)
Withdraw ==
    /\ \E i \in 1 .. Len(waiting) :
         waiting' = [j \in 1 .. Len(waiting) - 1 |->
                        IF j < i THEN waiting[j] ELSE waiting[j + 1]]
    /\ UNCHANGED <<active, sent>>

(* The thread is deleted.                                                   *)
Clear == waiting' = <<>> /\ UNCHANGED <<active, sent>>

Next ==
    \/ \E m \in Message : Begin(m) \/ Wait(m)
    \/ GoOn \/ Rest \/ Withdraw \/ Clear

Spec == Init /\ [][Next]_vars
=============================================================================
