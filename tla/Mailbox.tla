------------------------------- MODULE Mailbox -------------------------------
(***************************************************************************)
(* What the messenger promises of direct text messages to the two people   *)
(* who exchange them.  There are no frames, connections or timers here: a  *)
(* message that was sent is kept by its receiver at most once, adds at     *)
(* most one to the receiver's unread counter, and is confirmed to its      *)
(* sender only when it is kept.                                            *)
(***************************************************************************)
EXTENDS Naturals

CONSTANTS
    Node, Msg,
    From, To,  \* sender and receiver of each message
    Flaky      \* nodes whose database may refuse a write

VARIABLES
    shown,   \* what its sender sees of each message
    kept,    \* the messages their receivers have
    fresh,   \* those the receiver has not counted yet
    unread   \* the counter of each node for each peer

box == <<shown, kept, fresh, unread>>

Init ==
    /\ shown = [m \in Msg |-> "none"]
    /\ kept = {} /\ fresh = {}
    /\ unread = [n \in Node |-> [p \in Node |-> 0]]

Show(m, s) == shown' = [shown EXCEPT ![m] = s]

(* The user writes a message.                                              *)
Send(m) ==
    /\ shown[m] = "none"
    /\ Show(m, "sending")
    /\ UNCHANGED <<kept, fresh, unread>>

(* A message that was sent is shown as under way, or given up.  Nothing is *)
(* promised about when.                                                    *)
Update(m, s) ==
    /\ shown[m] # "none"
    /\ Show(m, s)
    /\ UNCHANGED <<kept, fresh, unread>>

(* The sender is told that the receiver has it.                            *)
Confirm(m) ==
    /\ shown[m] # "none"
    /\ m \in kept \/ To[m] \in Flaky
    /\ Show(m, "delivered")
    /\ UNCHANGED <<kept, fresh, unread>>

(* The receiver gets a message, once, and only one that was sent.          *)
Keep(m) ==
    /\ shown[m] # "none" /\ m \notin kept
    /\ kept' = kept \cup {m}
    /\ fresh' = fresh \cup {m}
    /\ UNCHANGED <<shown, unread>>

(* It is counted, unless the database of the receiver refuses.             *)
Notice(m) ==
    /\ m \in fresh
    /\ fresh' = fresh \ {m}
    /\ \/ unread' = [unread EXCEPT ![To[m]] =
                        [@ EXCEPT ![From[m]] = unread[To[m]][From[m]] + 1]]
       \/ To[m] \in Flaky /\ unread' = unread
    /\ UNCHANGED <<shown, kept>>

(* The receiver's process dies before it has counted.                      *)
Forget(n) ==
    /\ fresh' = {m \in fresh : To[m] # n}
    /\ UNCHANGED <<shown, kept, unread>>

Read(n, p) ==
    /\ unread' = [unread EXCEPT ![n] = [@ EXCEPT ![p] = 0]]
    /\ UNCHANGED <<shown, kept, fresh>>

Next ==
    \/ \E m \in Msg : \/ Send(m) \/ Confirm(m) \/ Keep(m) \/ Notice(m)
                      \/ \E s \in {"sending", "sent", "failed"} : Update(m, s)
    \/ \E n \in Node : Forget(n)
    \/ \E n, p \in Node : Read(n, p)

Spec == Init /\ [][Next]_box
=============================================================================
