---------------------------- MODULE LanMessaging ----------------------------
(***************************************************************************)
(* Direct text messages of the LAN messenger and their delivery state:     *)
(* src-tauri/src/lanchat/messaging.rs with the tables it keeps in          *)
(* lanchat/store.rs.                                                       *)
(*                                                                         *)
(* The messages table survives a crash; the commands that send, their      *)
(* timers and the connections do not.  Of the transport this module keeps  *)
(* what a message can notice: a connection has two ends that close on      *)
(* their own, a frame queued on an end whose other end is gone is lost,    *)
(* and the read loop of an end handles one frame after the other.  How two *)
(* ends come to agree on a connection is LanTransport.                     *)
(***************************************************************************)
EXTENDS Integers, Sequences, FiniteSets

CONSTANTS
    Node,        \* the people on the network
    Msg,         \* message ids
    From, To,    \* sender and receiver of each message
    Attempt,     \* invocations of send_text / resend
    Flaky,       \* nodes whose database may refuse a write
    MaxCrashes,  \* bound: crashes of a node
    MaxBreaks    \* bound: connections lost by the network

ASSUME ConstantsAssumption ==
    /\ Msg # {} /\ IsFiniteSet(Msg)
    /\ From \in [Msg -> Node] /\ To \in [Msg -> Node]
    /\ \A m \in Msg : From[m] # To[m]
    /\ Flaky \subseteq Node
    /\ MaxCrashes \in Nat /\ MaxBreaks \in Nat

VARIABLES
    row,      \* messages.state of each message in each node's database
    unread,   \* conversations.unread of each node, by peer
    attempt,  \* where each send is, and the timer it leaves behind
    up,       \* state.connections: the peers a node has a connection to
    chan,     \* frames queued from one node to another
    inbound,  \* the frame a read loop is handling
    crashes, breaks

vars == <<row, unread, attempt, up, chan, inbound, crashes, breaks>>

Delivery == {"none", "sending", "sent", "delivered", "failed"}
AttemptAt == {"free", "dispatch", "queued", "refused", "timer", "demote",
              "done"}
Frame    == [type : {"msg", "ack"}, id : Msg]
Handling == [step : {"idle", "touch", "ack"}, id : Msg]

NoFrame  == [step |-> "idle", id |-> CHOOSE m \in Msg : TRUE]

TypeOK ==
    /\ row \in [Node -> [Msg -> Delivery]]
    /\ unread \in [Node -> [Node -> Nat]]
    /\ attempt \in [Attempt -> [at : AttemptAt, id : Msg]]
    /\ up \in [Node -> SUBSET Node]
    /\ chan \in [Node -> [Node -> Seq(Frame)]]
    /\ inbound \in [Node -> [Node -> Handling]]
    /\ crashes \in 0..MaxCrashes /\ breaks \in 0..MaxBreaks

Init ==
    /\ row = [n \in Node |-> [m \in Msg |-> "none"]]
    /\ unread = [n \in Node |-> [p \in Node |-> 0]]
    /\ attempt = [a \in Attempt |-> [at |-> "free", id |-> NoFrame.id]]
    /\ up = [n \in Node |-> {}]
    /\ chan = [n \in Node |-> [p \in Node |-> <<>>]]
    /\ inbound = [n \in Node |-> [p \in Node |-> NoFrame]]
    /\ crashes = 0 /\ breaks = 0

Sending(m) == row[From[m]][m]

(* set_message_state: an UPDATE whose error every caller ignores.          *)
SetMessageState(n, m, s) ==
    LET written == IF row[n][m] = "none" THEN row
                   ELSE [row EXCEPT ![n] = [@ EXCEPT ![m] = s]]
    IN  row' \in {written} \cup {r \in {row} : n \in Flaky}

(* ConnHandle::send on the connection of n to p.                           *)
Queue(n, p, f) ==
    chan' = [chan EXCEPT ![n] = [@ EXCEPT ![p] = Append(chan[n][p], f)]]

GoTo(a, at, m) == attempt' = [attempt EXCEPT ![a] = [at |-> at, id |-> m]]

-----------------------------------------------------------------------------
(* The sender.                                                             *)

(* send_text: the row is inserted as "sending" before anything is dialed.  *)
SendText(a, m) ==
    /\ attempt[a].at = "free"
    /\ Sending(m) = "none"
    /\ row' = [row EXCEPT ![From[m]] = [@ EXCEPT ![m] = "sending"]]
    /\ GoTo(a, "dispatch", m)
    /\ UNCHANGED <<unread, up, chan, inbound, crashes, breaks>>

(* resend: the user interface offers it for failed messages only.          *)
Resend(a, m) ==
    /\ attempt[a].at = "free"
    /\ Sending(m) = "failed"
    /\ SetMessageState(From[m], m, "sending")
    /\ GoTo(a, "dispatch", m)
    /\ UNCHANGED <<unread, up, chan, inbound, crashes, breaks>>

(* transport::send_to_peer found or dialed a connection (Connect) and      *)
(* queued the frame.                                                       *)
Dispatch(a) ==
    LET m == attempt[a].id IN
    /\ attempt[a].at = "dispatch"
    /\ To[m] \in up[From[m]]
    /\ Queue(From[m], To[m], [type |-> "msg", id |-> m])
    /\ GoTo(a, "queued", m)
    /\ UNCHANGED <<row, unread, up, inbound, crashes, breaks>>

(* The dial failed, or the connection was gone again before the frame was  *)
(* queued.                                                                 *)
DispatchFails(a) ==
    /\ attempt[a].at = "dispatch"
    /\ To[attempt[a].id] \notin up[From[attempt[a].id]]
    /\ GoTo(a, "refused", attempt[a].id)
    /\ UNCHANGED <<row, unread, up, chan, inbound, crashes, breaks>>

(* Mutant: a dispatch that takes a queued frame for a delivered one.       *)
MarkDelivered(a) ==
    /\ attempt[a].at = "queued"
    /\ SetMessageState(From[attempt[a].id], attempt[a].id, "delivered")
    /\ GoTo(a, "done", attempt[a].id)
    /\ UNCHANGED <<unread, up, chan, inbound, crashes, breaks>>

(* Whatever happened to the message since the frame was queued, the state  *)
(* is set to "sent", and the timer is spawned.                             *)
MarkSent(a) ==
    /\ attempt[a].at = "queued"
    /\ SetMessageState(From[attempt[a].id], attempt[a].id, "sent")
    /\ GoTo(a, "timer", attempt[a].id)
    /\ UNCHANGED <<unread, up, chan, inbound, crashes, breaks>>

MarkFailed(a) ==
    /\ attempt[a].at = "refused"
    /\ SetMessageState(From[attempt[a].id], attempt[a].id, "failed")
    /\ GoTo(a, "done", attempt[a].id)
    /\ UNCHANGED <<unread, up, chan, inbound, crashes, breaks>>

(* spawn_delivery_timeout, after the sleep: read the state ...             *)
TimerFires(a) ==
    /\ attempt[a].at = "timer"
    /\ GoTo(a, IF Sending(attempt[a].id) = "sent" THEN "demote" ELSE "done",
            attempt[a].id)
    /\ UNCHANGED <<row, unread, up, chan, inbound, crashes, breaks>>

(* Mutant: the deadline is pushed back for as long as the connection is up.*)
TimerForgets(a) ==
    /\ attempt[a].at = "demote"
    /\ To[attempt[a].id] \notin up[From[attempt[a].id]]
    /\ SetMessageState(From[attempt[a].id], attempt[a].id, "failed")
    /\ GoTo(a, "done", attempt[a].id)
    /\ UNCHANGED <<unread, up, chan, inbound, crashes, breaks>>

(* ... and, in a statement of its own, write the new one.                  *)
TimerDemotes(a) ==
    /\ attempt[a].at = "demote"
    /\ SetMessageState(From[attempt[a].id], attempt[a].id, "failed")
    /\ GoTo(a, "done", attempt[a].id)
    /\ UNCHANGED <<unread, up, chan, inbound, crashes, breaks>>

-----------------------------------------------------------------------------
(* The read loop of n's connection to p.                                   *)

Receives(n, p, type) ==
    /\ p \in up[n]
    /\ inbound[n][p].step = "idle"
    /\ chan[p][n] # <<>>
    /\ Head(chan[p][n]).type = type

TakeFrame(n, p) ==
    chan' = [chan EXCEPT ![p] = [@ EXCEPT ![n] = Tail(chan[p][n])]]

Handle(n, p, step, m) ==
    inbound' = [inbound EXCEPT ![n] = [@ EXCEPT ![p] =
                                         [step |-> step, id |-> m]]]

(* Mutant: a handler that counts every delivery of an id.                  *)
TextCountedAgain(n, p) ==
    /\ Receives(n, p, "msg")
    /\ LET m == Head(chan[p][n]).id IN
       /\ row' = [row EXCEPT ![n] = [@ EXCEPT ![m] =
                                       IF @ = "none" THEN "delivered" ELSE @]]
       /\ Handle(n, p, "touch", m)
    /\ TakeFrame(n, p)
    /\ UNCHANGED <<unread, attempt, up, crashes, breaks>>

(* The first half of handle_text_msg: ensure_conversation and              *)
(* insert_message, which ignores an id it has.  Only a new row is counted. *)
TextArrives(n, p) ==
    /\ Receives(n, p, "msg")
    /\ LET m == Head(chan[p][n]).id IN
       IF row[n][m] = "none"
       THEN /\ row' = [row EXCEPT ![n] = [@ EXCEPT ![m] = "delivered"]]
            /\ Handle(n, p, "touch", m)
       ELSE /\ row' = row
            /\ Handle(n, p, "ack", m)
    /\ TakeFrame(n, p)
    /\ UNCHANGED <<unread, attempt, up, crashes, breaks>>

(* insert_message fails: logged, and acknowledged all the same.            *)
TextRefused(n, p) ==
    /\ n \in Flaky
    /\ Receives(n, p, "msg")
    /\ Handle(n, p, "ack", Head(chan[p][n]).id)
    /\ TakeFrame(n, p)
    /\ UNCHANGED <<row, unread, attempt, up, crashes, breaks>>

(* ensure_conversation fails: the handler returns without a word.          *)
ConversationRefused(n, p) ==
    /\ n \in Flaky
    /\ Receives(n, p, "msg")
    /\ TakeFrame(n, p)
    /\ UNCHANGED <<row, unread, attempt, up, inbound, crashes, breaks>>

(* Mutant: a count that is tried again after it was made.                  *)
TouchRetried(n, p) ==
    /\ inbound[n][p].step = "touch"
    /\ unread' = [unread EXCEPT ![n] = [@ EXCEPT ![p] = unread[n][p] + 1]]
    /\ inbound' \in {inbound, [inbound EXCEPT ![n] = [@ EXCEPT ![p] =
                          [step |-> "ack", id |-> inbound[n][p].id]]]}
    /\ UNCHANGED <<row, attempt, up, chan, crashes, breaks>>

(* touch_conversation, whose error is ignored.                             *)
TouchConversation(n, p) ==
    /\ inbound[n][p].step = "touch"
    /\ unread' \in {[unread EXCEPT ![n] = [@ EXCEPT ![p] = unread[n][p] + 1]]}
                   \cup {u \in {unread} : n \in Flaky}
    /\ Handle(n, p, "ack", inbound[n][p].id)
    /\ UNCHANGED <<row, attempt, up, chan, crashes, breaks>>

(* send_ack: on the connection that is registered now, if there is one.    *)
SendAck(n, p) ==
    /\ inbound[n][p].step = "ack"
    /\ IF p \in up[n]
       THEN Queue(n, p, [type |-> "ack", id |-> inbound[n][p].id])
       ELSE chan' = chan
    /\ inbound' = [inbound EXCEPT ![n] = [@ EXCEPT ![p] = NoFrame]]
    /\ UNCHANGED <<row, unread, attempt, up, crashes, breaks>>

(* handle_text_ack: no look at the state the message is in.                *)
AckArrives(n, p) ==
    /\ Receives(n, p, "ack")
    /\ SetMessageState(n, Head(chan[p][n]).id, "delivered")
    /\ TakeFrame(n, p)
    /\ UNCHANGED <<unread, attempt, up, inbound, crashes, breaks>>

(* reset_unread, when the user opens the conversation.                     *)
MarkRead(n, p) ==
    /\ unread[n][p] > 0
    /\ unread' = [unread EXCEPT ![n] = [@ EXCEPT ![p] = 0]]
    /\ UNCHANGED <<row, attempt, up, chan, inbound, crashes, breaks>>

-----------------------------------------------------------------------------
(* Connections, and the process as a whole.                                *)

(* n dials p, for a message of its own or for any other reason.            *)
Connect(n, p) ==
    /\ n # p /\ p \notin up[n] /\ n \notin up[p]
    /\ up' = [up EXCEPT ![n] = @ \cup {p}, ![p] = @ \cup {n}]
    /\ chan' = [chan EXCEPT ![n] = [@ EXCEPT ![p] = <<>>],
                            ![p] = [@ EXCEPT ![n] = <<>>]]
    /\ UNCHANGED <<row, unread, attempt, inbound, crashes, breaks>>

(* The read loop of n's end sees the end of the stream, or an error.  What *)
(* it had not read is lost.                                                *)
CloseEnd(n, p) ==
    /\ p \in up[n]
    /\ inbound[n][p].step = "idle"
    /\ IF n \in up[p] THEN breaks < MaxBreaks /\ breaks' = breaks + 1
       ELSE breaks' = breaks
    /\ up' = [up EXCEPT ![n] = @ \ {p}]
    /\ chan' = [chan EXCEPT ![p] = [@ EXCEPT ![n] = <<>>]]
    /\ UNCHANGED <<row, unread, attempt, inbound, crashes>>

(* The process of n dies and comes back: the database is all it has.  The  *)
(* frames it had sent may still arrive.                                    *)
Crash(n) ==
    /\ crashes < MaxCrashes
    /\ crashes' = crashes + 1
    /\ attempt' = [a \in Attempt |->
          IF attempt[a].at # "free" /\ From[attempt[a].id] = n
          THEN [at |-> "done", id |-> attempt[a].id] ELSE attempt[a]]
    /\ up' = [up EXCEPT ![n] = {}]
    /\ chan' = [p \in Node |-> [q \in Node |->
                                  IF q = n THEN <<>> ELSE chan[p][q]]]
    /\ inbound' = [inbound EXCEPT ![n] = [p \in Node |-> NoFrame]]
    /\ UNCHANGED <<row, unread, breaks>>

-----------------------------------------------------------------------------
AttemptStep(a) ==
    \/ Dispatch(a) \/ DispatchFails(a) \/ MarkSent(a) \/ MarkFailed(a)
    \/ TimerFires(a) \/ TimerDemotes(a)

ReadLoop(n, p) ==
    \/ TextArrives(n, p) \/ TextRefused(n, p) \/ ConversationRefused(n, p)
    \/ TouchConversation(n, p) \/ SendAck(n, p) \/ AckArrives(n, p)

Next ==
    \/ \E a \in Attempt : \/ AttemptStep(a)
                          \/ \E m \in Msg : SendText(a, m) \/ Resend(a, m)
    \/ \E n, p \in Node : \/ ReadLoop(n, p) \/ MarkRead(n, p)
                          \/ Connect(n, p) \/ CloseEnd(n, p)
    \/ \E n \in Node : Crash(n)

Spec == Init /\ [][Next]_vars

(* The runtime polls every task and fires every timer.  Nothing is assumed *)
(* of the network or of the peer.                                          *)
FairSpec == Spec /\ \A a \in Attempt : WF_vars(AttemptStep(a))

-----------------------------------------------------------------------------
(* A message shown as delivered is in the receiver's database, unless that *)
(* database refuses writes: the row is inserted before the acknowledgement *)
(* is queued, and crashes of either side, resends, timeouts and lost       *)
(* connections do not change that.                                         *)
DeliveredIsTrue ==
    \A m \in Msg : Sending(m) = "delivered" /\ To[m] \notin Flaky
                       => row[To[m]][m] # "none"

(* Duplicates that resends and timeouts produce are not counted: the       *)
(* unread counter never exceeds the messages there are from that peer.     *)
UnreadNeverOvercounts ==
    \A n, p \in Node :
        unread[n][p] + (IF inbound[n][p].step = "touch" THEN 1 ELSE 0)
            <= Cardinality({m \in Msg : /\ From[m] = p /\ To[m] = n
                                        /\ row[n][m] # "none"})

(* What the two people see of it: the messages and the counter, not the    *)
(* frames.                                                                 *)
Shown == [m \in Msg |-> Sending(m)]
Kept  == {m \in Msg : row[To[m]][m] # "none"}
Fresh == {m \in Msg : inbound[To[m]][From[m]] = [step |-> "touch", id |-> m]}

Promise == INSTANCE Mailbox WITH
    shown <- Shown, kept <- Kept, fresh <- Fresh

(* Whatever is lost, repeated, crashes or comes too late, the messenger is *)
(* a mailbox: only what was sent is kept, once, each message that is kept  *)
(* is counted at most once, also after the counter was read, and none is   *)
(* confirmed that is not kept.                                             *)
IsMailbox == Promise!Spec

(* A message whose sender neither crashed nor had a write refused.         *)
Undisturbed(m) == crashes = 0 /\ From[m] \notin Flaky

(* "`delivered` on `text-ack` or `failed` on timeout": a message that is   *)
(* being sent ends as the one or the other, whatever the network does.     *)
EventuallySettled ==
    \A m \in Msg : Sending(m) \in {"sending", "sent"} ~>
        (Undisturbed(m) => Sending(m) \in {"delivered", "failed"})
=============================================================================
