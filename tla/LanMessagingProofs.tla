------------------------- MODULE LanMessagingProofs -------------------------
(***************************************************************************)
(* Proofs about LanMessaging, for any people, any messages, any number of  *)
(* sends under way and any number of crashes and lost connections: the     *)
(* types, that "delivered" is the truth, that no message is counted twice  *)
(* as unread, and that the messenger is what Mailbox promises.             *)
(***************************************************************************)
EXTENDS LanMessaging, FiniteSetTheorems, TLAPS

-----------------------------------------------------------------------------
(* What the helpers do.                                                     *)

LEMMA Constants ==
    /\ \A m \in Msg : From[m] \in Node /\ To[m] \in Node /\ From[m] # To[m]
    /\ MaxCrashes \in Nat /\ MaxBreaks \in Nat
    /\ NoFrame \in Handling /\ NoFrame.step = "idle" /\ NoFrame.id \in Msg
<1>1. NoFrame.id \in Msg /\ NoFrame.step = "idle"
  BY ConstantsAssumption DEF ConstantsAssumption, NoFrame
<1>2. NoFrame \in Handling
  BY <1>1 DEF NoFrame, Handling
<1> QED BY <1>1, <1>2, ConstantsAssumption DEF ConstantsAssumption

(* One entry of a table of tables is replaced.                              *)
LEMMA Replaced ==
    ASSUME NEW S, NEW T, NEW V, NEW f \in [S -> [T -> V]],
           NEW s \in S, NEW t \in T, NEW v \in V
    PROVE  /\ [f EXCEPT ![s] = [@ EXCEPT ![t] = v]] \in [S -> [T -> V]]
           /\ \A x \in S, y \in T :
                 [f EXCEPT ![s] = [@ EXCEPT ![t] = v]][x][y]
                     = IF x = s /\ y = t THEN v ELSE f[x][y]
OBVIOUS

LEMMA SetEffect ==
    ASSUME TypeOK, NEW n \in Node, NEW m \in Msg,
           NEW s \in Delivery \ {"none"}, SetMessageState(n, m, s)
    PROVE  /\ row' \in [Node -> [Msg -> Delivery]]
           /\ \A x \in Node, y \in Msg :
                 \/ row'[x][y] = row[x][y]
                 \/ x = n /\ y = m /\ row[x][y] # "none" /\ row'[x][y] = s
<1>0. row \in [Node -> [Msg -> Delivery]] /\ s \in Delivery
  BY DEF TypeOK
<1>1. CASE row' = row
  BY <1>0, <1>1
<1>2. CASE /\ row[n][m] # "none"
           /\ row' = [row EXCEPT ![n] = [@ EXCEPT ![m] = s]]
  <2>1. /\ row' \in [Node -> [Msg -> Delivery]]
        /\ \A x \in Node, y \in Msg :
              row'[x][y] = IF x = n /\ y = m THEN s ELSE row[x][y]
    BY <1>0, <1>2, Replaced
  <2> QED BY <1>2, <2>1
<1> QED BY <1>1, <1>2 DEF SetMessageState

LEMMA QueueEffect ==
    ASSUME TypeOK, NEW n \in Node, NEW p \in Node, NEW f \in Frame,
           Queue(n, p, f)
    PROVE  /\ chan' \in [Node -> [Node -> Seq(Frame)]]
           /\ \A x \in Node, y \in Node :
                 chan'[x][y] = IF x = n /\ y = p THEN Append(chan[x][y], f)
                               ELSE chan[x][y]
<1>1. chan \in [Node -> [Node -> Seq(Frame)]] /\ Append(chan[n][p], f) \in Seq(Frame)
  BY DEF TypeOK
<1> DEFINE q == Append(chan[n][p], f)
<1>2. chan' = [chan EXCEPT ![n] = [@ EXCEPT ![p] = q]] /\ q \in Seq(Frame)
  BY <1>1 DEF Queue
<1> HIDE DEF q
<1>3. /\ chan' \in [Node -> [Node -> Seq(Frame)]]
      /\ \A x \in Node, y \in Node :
            chan'[x][y] = IF x = n /\ y = p THEN q ELSE chan[x][y]
  BY <1>1, <1>2, Replaced
<1> QED BY <1>3 DEF q

LEMMA TakeEffect ==
    ASSUME TypeOK, NEW n \in Node, NEW p \in Node, chan[p][n] # <<>>,
           TakeFrame(n, p)
    PROVE  /\ chan' \in [Node -> [Node -> Seq(Frame)]]
           /\ \A x \in Node, y \in Node :
                 chan'[x][y] = IF x = p /\ y = n THEN Tail(chan[x][y])
                               ELSE chan[x][y]
           /\ Head(chan[p][n]) \in Frame /\ Head(chan[p][n]).id \in Msg
<1>1. chan \in [Node -> [Node -> Seq(Frame)]] /\ chan[p][n] \in Seq(Frame)
  BY DEF TypeOK
<1> DEFINE q == Tail(chan[p][n])
<1>2. chan' = [chan EXCEPT ![p] = [@ EXCEPT ![n] = q]] /\ q \in Seq(Frame)
  BY <1>1 DEF TakeFrame
<1>3. Head(chan[p][n]) \in Frame
  BY <1>1
<1> HIDE DEF q
<1>4. /\ chan' \in [Node -> [Node -> Seq(Frame)]]
      /\ \A x \in Node, y \in Node :
            chan'[x][y] = IF x = p /\ y = n THEN q ELSE chan[x][y]
  BY <1>1, <1>2, Replaced
<1>5. Head(chan[p][n]).id \in Msg
  BY <1>3 DEF Frame
<1> QED BY <1>3, <1>4, <1>5 DEF q

LEMMA HandleEffect ==
    ASSUME TypeOK, NEW n \in Node, NEW p \in Node, NEW h \in Handling,
           inbound' = [inbound EXCEPT ![n] = [@ EXCEPT ![p] = h]]
    PROVE  /\ inbound' \in [Node -> [Node -> Handling]]
           /\ \A x \in Node, y \in Node :
                 inbound'[x][y] = IF x = n /\ y = p THEN h ELSE inbound[x][y]
<1>1. inbound \in [Node -> [Node -> Handling]]
  BY DEF TypeOK
<1> QED BY <1>1, Replaced

LEMMA GoToType ==
    ASSUME TypeOK, NEW a \in Attempt, NEW at \in AttemptAt, NEW m \in Msg,
           GoTo(a, at, m)
    PROVE  attempt' \in [Attempt -> [at : AttemptAt, id : Msg]]
<1>1. [at |-> at, id |-> m] \in [at : AttemptAt, id : Msg]
  OBVIOUS
<1> QED BY <1>1 DEF TypeOK, GoTo

(* Connections come without frames, and take their frames with them.        *)
LEMMA ConnectEffect ==
    ASSUME TypeOK, NEW n \in Node, NEW p \in Node, Connect(n, p)
    PROVE  /\ up' \in [Node -> SUBSET Node]
           /\ chan' \in [Node -> [Node -> Seq(Frame)]]
           /\ \A x \in Node, y \in Node : chan'[x][y] \in {chan[x][y], <<>>}
<1>0. /\ up \in [Node -> SUBSET Node] /\ chan \in [Node -> [Node -> Seq(Frame)]]
      /\ <<>> \in Seq(Frame)
  BY DEF TypeOK
<1> DEFINE one == [chan EXCEPT ![n] = [@ EXCEPT ![p] = <<>>]]
           two == [one EXCEPT ![p] = [@ EXCEPT ![n] = <<>>]]
<1>1. /\ one \in [Node -> [Node -> Seq(Frame)]]
      /\ \A x \in Node, y \in Node : one[x][y] \in {chan[x][y], <<>>}
  BY <1>0, Replaced
<1>2. chan' = two
  BY DEF Connect
<1>5. <<>> \in Seq(Frame) /\ one \in [Node -> [Node -> Seq(Frame)]]
  BY <1>0, <1>1
<1> HIDE DEF one
<1>3. /\ two \in [Node -> [Node -> Seq(Frame)]]
      /\ \A x \in Node, y \in Node : two[x][y] \in {one[x][y], <<>>}
  BY <1>5, Replaced
<1>4. up' \in [Node -> SUBSET Node]
  BY <1>0 DEF Connect
<1> QED BY <1>1, <1>2, <1>3, <1>4

LEMMA CloseEffect ==
    ASSUME TypeOK, NEW n \in Node, NEW p \in Node, CloseEnd(n, p)
    PROVE  /\ chan' \in [Node -> [Node -> Seq(Frame)]]
           /\ \A x \in Node, y \in Node : chan'[x][y] \in {chan[x][y], <<>>}
<1>0. chan \in [Node -> [Node -> Seq(Frame)]] /\ <<>> \in Seq(Frame)
  BY DEF TypeOK
<1>1. chan' = [chan EXCEPT ![p] = [@ EXCEPT ![n] = <<>>]]
  BY DEF CloseEnd
<1> QED BY <1>0, <1>1, Replaced

LEMMA CrashEffect ==
    ASSUME TypeOK, NEW n \in Node, Crash(n)
    PROVE  /\ chan' \in [Node -> [Node -> Seq(Frame)]]
           /\ \A x \in Node, y \in Node : chan'[x][y] \in {chan[x][y], <<>>}
           /\ inbound' \in [Node -> [Node -> Handling]]
           /\ \A x \in Node, y \in Node : inbound'[x][y] \in {inbound[x][y], NoFrame}
<1>1. chan \in [Node -> [Node -> Seq(Frame)]] /\ <<>> \in Seq(Frame)
  BY DEF TypeOK
<1>2. inbound \in [Node -> [Node -> Handling]] /\ NoFrame \in Handling
  BY Constants DEF TypeOK
<1>3. chan' = [p \in Node |-> [q \in Node |-> IF q = n THEN <<>> ELSE chan[p][q]]]
  BY DEF Crash
<1>4. inbound' = [inbound EXCEPT ![n] = [p \in Node |-> NoFrame]]
  BY DEF Crash
<1>5. /\ chan' \in [Node -> [Node -> Seq(Frame)]]
      /\ \A x \in Node, y \in Node : chan'[x][y] \in {chan[x][y], <<>>}
  BY <1>1, <1>3
<1>6. /\ inbound' \in [Node -> [Node -> Handling]]
      /\ \A x \in Node, y \in Node : inbound'[x][y] \in {inbound[x][y], NoFrame}
  BY <1>2, <1>4
<1> QED BY <1>5, <1>6

-----------------------------------------------------------------------------
(* Types.                                                                   *)

LEMMA TypeInit == Init => TypeOK
<1> SUFFICES ASSUME Init PROVE TypeOK
  OBVIOUS
<1>1. row \in [Node -> [Msg -> Delivery]] /\ unread \in [Node -> [Node -> Nat]]
  BY DEF Init, Delivery
<1>2. attempt \in [Attempt -> [at : AttemptAt, id : Msg]]
  BY Constants DEF Init, AttemptAt
<1>3. up \in [Node -> SUBSET Node] /\ chan \in [Node -> [Node -> Seq(Frame)]]
  BY DEF Init
<1>4. inbound \in [Node -> [Node -> Handling]]
  BY Constants DEF Init
<1>5. crashes \in 0..MaxCrashes /\ breaks \in 0..MaxBreaks
  BY Constants DEF Init
<1> QED BY <1>1, <1>2, <1>3, <1>4, <1>5 DEF TypeOK

LEMMA SenderType ==
    ASSUME TypeOK, NEW a \in Attempt, AttemptStep(a)
    PROVE  TypeOK'
<1> DEFINE m == attempt[a].id
<1>0. m \in Msg /\ From[m] \in Node /\ To[m] \in Node
  BY Constants DEF TypeOK
<1> HIDE DEF m
<1>1. CASE Dispatch(a)
  <2>1. [type |-> "msg", id |-> m] \in Frame
    BY <1>0 DEF Frame
  <2>2. chan' \in [Node -> [Node -> Seq(Frame)]]
    BY <1>0, <1>1, <2>1, QueueEffect DEF Dispatch, m
  <2>3. attempt' \in [Attempt -> [at : AttemptAt, id : Msg]]
    BY <1>0, <1>1, GoToType DEF Dispatch, m, AttemptAt
  <2> QED BY <1>1, <2>2, <2>3 DEF Dispatch, TypeOK
<1>2. CASE DispatchFails(a)
  <2>1. attempt' \in [Attempt -> [at : AttemptAt, id : Msg]]
    BY <1>0, <1>2, GoToType DEF DispatchFails, m, AttemptAt
  <2> QED BY <1>2, <2>1 DEF DispatchFails, TypeOK
<1>3. CASE MarkSent(a)
  <2>1. attempt' \in [Attempt -> [at : AttemptAt, id : Msg]]
    BY <1>0, <1>3, GoToType DEF MarkSent, m, AttemptAt
  <2>2. row' \in [Node -> [Msg -> Delivery]]
    BY <1>0, <1>3, SetEffect DEF MarkSent, m, Delivery
  <2> QED BY <1>3, <2>1, <2>2 DEF MarkSent, TypeOK
<1>4. CASE MarkFailed(a)
  <2>1. attempt' \in [Attempt -> [at : AttemptAt, id : Msg]]
    BY <1>0, <1>4, GoToType DEF MarkFailed, m, AttemptAt
  <2>2. row' \in [Node -> [Msg -> Delivery]]
    BY <1>0, <1>4, SetEffect DEF MarkFailed, m, Delivery
  <2> QED BY <1>4, <2>1, <2>2 DEF MarkFailed, TypeOK
<1>5. CASE TimerFires(a)
  <2>1. PICK at \in AttemptAt : GoTo(a, at, m)
    BY <1>5 DEF TimerFires, m, AttemptAt
  <2>2. attempt' \in [Attempt -> [at : AttemptAt, id : Msg]]
    BY <1>0, <2>1, GoToType
  <2> QED BY <1>5, <2>2 DEF TimerFires, TypeOK
<1>6. CASE TimerDemotes(a)
  <2>1. attempt' \in [Attempt -> [at : AttemptAt, id : Msg]]
    BY <1>0, <1>6, GoToType DEF TimerDemotes, m, AttemptAt
  <2>2. row' \in [Node -> [Msg -> Delivery]]
    BY <1>0, <1>6, SetEffect DEF TimerDemotes, m, Delivery
  <2> QED BY <1>6, <2>1, <2>2 DEF TimerDemotes, TypeOK
<1> QED BY <1>1, <1>2, <1>3, <1>4, <1>5, <1>6 DEF AttemptStep

(* What a step of a read loop does to the frame it handles: nothing, or the *)
(* message it is about goes to another half of the handler.                 *)
LEMMA ReceiverType ==
    ASSUME TypeOK, NEW n \in Node, NEW p \in Node, ReadLoop(n, p)
    PROVE  TypeOK'
<1>0. /\ row \in [Node -> [Msg -> Delivery]] /\ unread \in [Node -> [Node -> Nat]]
      /\ inbound[n][p] \in Handling /\ inbound[n][p].id \in Msg
  BY DEF TypeOK, Handling
<1>1. \A step \in {"touch", "ack"}, m \in Msg : [step |-> step, id |-> m] \in Handling
  BY DEF Handling
<1>2. CASE TextArrives(n, p)
  <2>1. chan[p][n] # <<>> /\ TakeFrame(n, p)
    BY <1>2 DEF TextArrives, Receives
  <2> DEFINE m == Head(chan[p][n]).id
  <2>2. m \in Msg /\ chan' \in [Node -> [Node -> Seq(Frame)]]
    BY <2>1, TakeEffect
  <2>3. \/ Handle(n, p, "touch", m) /\ row' = [row EXCEPT ![n] = [@ EXCEPT ![m] = "delivered"]]
        \/ Handle(n, p, "ack", m) /\ row' = row
    BY <1>2 DEF TextArrives
  <2> HIDE DEF m
  <2>4. inbound' \in [Node -> [Node -> Handling]]
    BY <1>1, <2>2, <2>3, HandleEffect DEF Handle
  <2>5. "delivered" \in Delivery
    BY DEF Delivery
  <2>6. [row EXCEPT ![n] = [@ EXCEPT ![m] = "delivered"]]
           \in [Node -> [Msg -> Delivery]]
    BY <1>0, <2>2, <2>5, Replaced
  <2>7. row' \in [Node -> [Msg -> Delivery]]
    BY <1>0, <2>3, <2>6
  <2> QED BY <1>2, <2>2, <2>4, <2>7 DEF TextArrives, TypeOK
<1>3. CASE TextRefused(n, p)
  <2>1. chan[p][n] # <<>> /\ TakeFrame(n, p) /\ Handle(n, p, "ack", Head(chan[p][n]).id)
    BY <1>3 DEF TextRefused, Receives
  <2>2. Head(chan[p][n]).id \in Msg /\ chan' \in [Node -> [Node -> Seq(Frame)]]
    BY <2>1, TakeEffect
  <2>3. inbound' \in [Node -> [Node -> Handling]]
    BY <1>1, <2>1, <2>2, HandleEffect DEF Handle
  <2> QED BY <1>3, <2>2, <2>3 DEF TextRefused, TypeOK
<1>4. CASE ConversationRefused(n, p)
  <2>1. chan' \in [Node -> [Node -> Seq(Frame)]]
    BY <1>4, TakeEffect DEF ConversationRefused, Receives
  <2> QED BY <1>4, <2>1 DEF ConversationRefused, TypeOK
<1>5. CASE TouchConversation(n, p)
  <2>1. inbound' \in [Node -> [Node -> Handling]]
    BY <1>0, <1>1, <1>5, HandleEffect DEF TouchConversation, Handle
  <2>2. unread[n][p] + 1 \in Nat
    BY <1>0
  <2>3. [unread EXCEPT ![n] = [@ EXCEPT ![p] = unread[n][p] + 1]]
           \in [Node -> [Node -> Nat]]
    BY <1>0, <2>2, Replaced
  <2>4. unread' \in [Node -> [Node -> Nat]]
    BY <1>0, <1>5, <2>3 DEF TouchConversation
  <2> QED BY <1>5, <2>1, <2>4 DEF TouchConversation, TypeOK
<1>6. CASE SendAck(n, p)
  <2>1. inbound' \in [Node -> [Node -> Handling]]
    BY <1>6, Constants, HandleEffect DEF SendAck
  <2>2. [type |-> "ack", id |-> inbound[n][p].id] \in Frame
    BY <1>0 DEF Frame
  <2>3. chan' \in [Node -> [Node -> Seq(Frame)]]
    BY <1>6, <2>2, QueueEffect DEF SendAck, TypeOK
  <2> QED BY <1>6, <2>1, <2>3 DEF SendAck, TypeOK
<1>7. CASE AckArrives(n, p)
  <2>1. Head(chan[p][n]).id \in Msg /\ chan' \in [Node -> [Node -> Seq(Frame)]]
    BY <1>7, TakeEffect DEF AckArrives, Receives
  <2>2. row' \in [Node -> [Msg -> Delivery]]
    BY <1>7, <2>1, SetEffect DEF AckArrives, Delivery
  <2> QED BY <1>7, <2>1, <2>2 DEF AckArrives, TypeOK
<1> QED BY <1>2, <1>3, <1>4, <1>5, <1>6, <1>7 DEF ReadLoop

LEMMA TypeStep == TypeOK /\ [Next]_vars => TypeOK'
<1> SUFFICES ASSUME TypeOK, [Next]_vars PROVE TypeOK'
  OBVIOUS
<1>0. /\ row \in [Node -> [Msg -> Delivery]] /\ unread \in [Node -> [Node -> Nat]]
      /\ up \in [Node -> SUBSET Node] /\ chan \in [Node -> [Node -> Seq(Frame)]]
      /\ inbound \in [Node -> [Node -> Handling]]
      /\ attempt \in [Attempt -> [at : AttemptAt, id : Msg]]
      /\ crashes \in 0..MaxCrashes /\ breaks \in 0..MaxBreaks
  BY DEF TypeOK
<1>1. CASE UNCHANGED vars
  BY <1>1 DEF vars, TypeOK
<1>2. ASSUME NEW a \in Attempt, AttemptStep(a) PROVE TypeOK'
  BY <1>2, SenderType
<1>3. ASSUME NEW a \in Attempt, NEW m \in Msg, SendText(a, m) PROVE TypeOK'
  <2>1. attempt' \in [Attempt -> [at : AttemptAt, id : Msg]]
    BY <1>3, GoToType DEF SendText, AttemptAt
  <2>2. row' \in [Node -> [Msg -> Delivery]]
    BY <1>0, <1>3, Constants, Replaced DEF SendText, Delivery
  <2> QED BY <1>3, <2>1, <2>2 DEF SendText, TypeOK
<1>4. ASSUME NEW a \in Attempt, NEW m \in Msg, Resend(a, m) PROVE TypeOK'
  <2>1. attempt' \in [Attempt -> [at : AttemptAt, id : Msg]]
    BY <1>4, GoToType DEF Resend, AttemptAt
  <2>2. row' \in [Node -> [Msg -> Delivery]]
    BY <1>4, Constants, SetEffect DEF Resend, Delivery
  <2> QED BY <1>4, <2>1, <2>2 DEF Resend, TypeOK
<1>5. ASSUME NEW n \in Node, NEW p \in Node, ReadLoop(n, p) PROVE TypeOK'
  BY <1>5, ReceiverType
<1>6. ASSUME NEW n \in Node, NEW p \in Node, MarkRead(n, p) PROVE TypeOK'
  <2>1. [unread EXCEPT ![n] = [@ EXCEPT ![p] = 0]] \in [Node -> [Node -> Nat]]
    BY <1>0
  <2>2. unread' \in [Node -> [Node -> Nat]]
    BY <1>6, <2>1 DEF MarkRead
  <2> QED BY <1>6, <2>2 DEF MarkRead, TypeOK
<1>7. ASSUME NEW n \in Node, NEW p \in Node, Connect(n, p) PROVE TypeOK'
  <2>1. up' \in [Node -> SUBSET Node] /\ chan' \in [Node -> [Node -> Seq(Frame)]]
    BY <1>0, <1>7, ConnectEffect
  <2> QED BY <1>7, <2>1 DEF Connect, TypeOK
<1>8. ASSUME NEW n \in Node, NEW p \in Node, CloseEnd(n, p) PROVE TypeOK'
  <2>1. up' \in [Node -> SUBSET Node]
    BY <1>0, <1>8 DEF CloseEnd
  <2>2. chan' \in [Node -> [Node -> Seq(Frame)]]
    BY <1>8, CloseEffect
  <2>3. breaks' \in 0..MaxBreaks
    BY <1>0, <1>8, Constants DEF CloseEnd
  <2> QED BY <1>8, <2>1, <2>2, <2>3 DEF CloseEnd, TypeOK
<1>9. ASSUME NEW n \in Node, Crash(n) PROVE TypeOK'
  <2>1. crashes' \in 0..MaxCrashes
    BY <1>0, <1>9, Constants DEF Crash
  <2>2. attempt' \in [Attempt -> [at : AttemptAt, id : Msg]]
    BY <1>0, <1>9 DEF Crash, AttemptAt
  <2>3. up' \in [Node -> SUBSET Node]
    BY <1>0, <1>9 DEF Crash
  <2>4. /\ chan' \in [Node -> [Node -> Seq(Frame)]]
        /\ inbound' \in [Node -> [Node -> Handling]]
    BY <1>9, CrashEffect
  <2> QED BY <1>9, <2>1, <2>2, <2>3, <2>4 DEF Crash, TypeOK
<1> QED BY <1>1, <1>2, <1>3, <1>4, <1>5, <1>6, <1>7, <1>8, <1>9 DEF Next

(* Rows, counters, sends, connections, frames and handlers keep their       *)
(* types: in particular an unread counter never falls below zero.           *)
THEOREM TypeCorrect == Spec => []TypeOK
BY TypeInit, TypeStep, PTL DEF Spec

-----------------------------------------------------------------------------
(* "Delivered" is the truth.                                                *)

(* What n may say of m, given the rows: it has it, unless its database      *)
(* refuses writes.                                                          *)
Holds(rows, n, m) == n \in Flaky \/ rows[n][m] # "none"

(* A text is under way from its sender to its receiver, and what is         *)
(* acknowledged is in the database of the one who acknowledges it.          *)
FrameTrue(rows, x, y, f) ==
    /\ f.type = "msg" => From[f.id] = x /\ To[f.id] = y /\ rows[x][f.id] # "none"
    /\ f.type = "ack" => From[f.id] = y /\ To[f.id] = x /\ Holds(rows, x, f.id)
FramesTrue ==
    \A x, y \in Node : \A i \in 1..Len(chan[x][y]) : FrameTrue(row, x, y, chan[x][y][i])
HandlerTrue(rows, n, p, h) ==
    h.step # "idle" =>
        /\ From[h.id] = p /\ To[h.id] = n
        /\ h.step = "touch" => rows[n][h.id] # "none"
        /\ h.step = "ack" => Holds(rows, n, h.id)
HandlingTrue == \A n, p \in Node : HandlerTrue(row, n, p, inbound[n][p])

(* A message was written down by its sender before it is dispatched.        *)
AttemptsKnown ==
    \A a \in Attempt : attempt[a].at # "free" => Sending(attempt[a].id) # "none"

Truthful ==
    TypeOK /\ AttemptsKnown /\ FramesTrue /\ HandlingTrue /\ DeliveredIsTrue

(* What every step does: no row goes.  What all but an acknowledgement do:  *)
(* no message becomes delivered for its sender.                             *)
RowsKeep == \A n \in Node, m \in Msg : row[n][m] # "none" => row'[n][m] # "none"
SendersKeep ==
    \A m \in Msg : row'[From[m]][m] = "delivered" => row[From[m]][m] = "delivered"

(* What may happen to the frames between two nodes.                         *)
FramesStep(x, y) ==
    \/ chan'[x][y] \in {chan[x][y], <<>>}
    \/ chan[x][y] # <<>> /\ chan'[x][y] = Tail(chan[x][y])
    \/ \E f \in Frame : FrameTrue(row', x, y, f) /\ chan'[x][y] = Append(chan[x][y], f)

LEMMA RowsNeverGo ==
    ASSUME TypeOK, [Next]_vars
    PROVE  RowsKeep
<1>0. row \in [Node -> [Msg -> Delivery]]
  BY DEF TypeOK
<1>1. ASSUME NEW n \in Node, NEW m \in Msg, NEW s \in Delivery \ {"none"},
             SetMessageState(n, m, s)
      PROVE  RowsKeep
  BY <1>1, SetEffect DEF RowsKeep
<1>2. ASSUME NEW n \in Node, NEW m \in Msg, NEW s \in Delivery \ {"none"},
             row' = [row EXCEPT ![n] = [@ EXCEPT ![m] = s]]
      PROVE  RowsKeep
  <2>1. \A x \in Node, y \in Msg :
            row'[x][y] = IF x = n /\ y = m THEN s ELSE row[x][y]
    BY <1>0, <1>2, Replaced
  <2> QED BY <2>1 DEF RowsKeep
<1>3. CASE UNCHANGED row
  BY <1>3 DEF RowsKeep
<1>s. {"sending", "sent", "failed", "delivered"} \subseteq Delivery \ {"none"}
  BY DEF Delivery
<1>4. ASSUME NEW a \in Attempt, AttemptStep(a) PROVE RowsKeep
  <2> DEFINE m == attempt[a].id
  <2>1. m \in Msg /\ From[m] \in Node
    BY Constants DEF TypeOK
  <2>2. \/ UNCHANGED row
        \/ SetMessageState(From[m], m, "sent")
        \/ SetMessageState(From[m], m, "failed")
    BY <1>4 DEF AttemptStep, Dispatch, DispatchFails, MarkSent, MarkFailed,
                TimerFires, TimerDemotes
  <2> HIDE DEF m
  <2> QED BY <1>1, <1>3, <1>s, <2>1, <2>2
<1>5. ASSUME NEW a \in Attempt, NEW m \in Msg, SendText(a, m) \/ Resend(a, m)
      PROVE  RowsKeep
  BY <1>1, <1>2, <1>s, <1>5, Constants DEF SendText, Resend
<1>6. ASSUME NEW n \in Node, NEW p \in Node, ReadLoop(n, p) PROVE RowsKeep
  <2> DEFINE m == Head(chan[p][n]).id
  <2>1. CASE TextArrives(n, p)
    <3>1. m \in Msg
      BY <2>1, TakeEffect DEF TextArrives, Receives
    <3>2. row' = [row EXCEPT ![n] = [@ EXCEPT ![m] = "delivered"]] \/ UNCHANGED row
      BY <2>1 DEF TextArrives
    <3> HIDE DEF m
    <3> QED BY <1>2, <1>3, <1>s, <3>1, <3>2
  <2>2. CASE AckArrives(n, p)
    <3>1. m \in Msg /\ SetMessageState(n, m, "delivered")
      BY <2>2, TakeEffect DEF AckArrives, Receives
    <3> HIDE DEF m
    <3> QED BY <1>1, <1>s, <3>1
  <2>3. CASE ~TextArrives(n, p) /\ ~AckArrives(n, p)
    BY <1>3, <1>6, <2>3 DEF ReadLoop, TextRefused, ConversationRefused,
                            TouchConversation, SendAck
  <2> QED BY <2>1, <2>2, <2>3
<1> QED BY <1>3, <1>4, <1>5, <1>6
        DEF Next, vars, MarkRead, Connect, CloseEnd, Crash

LEMMA AttemptsStayKnown ==
    ASSUME TypeOK, AttemptsKnown, [Next]_vars
    PROVE  AttemptsKnown'
<1> SUFFICES ASSUME NEW a \in Attempt, attempt'[a].at # "free"
             PROVE  row'[From[attempt'[a].id]][attempt'[a].id] # "none"
  BY DEF AttemptsKnown, Sending
<1>0. /\ attempt \in [Attempt -> [at : AttemptAt, id : Msg]] /\ attempt[a].id \in Msg
      /\ RowsKeep
  BY RowsNeverGo DEF TypeOK
<1>1. ASSUME attempt[a].at # "free", attempt'[a].id = attempt[a].id
      PROVE  row'[From[attempt'[a].id]][attempt'[a].id] # "none"
  BY <1>0, <1>1, Constants DEF AttemptsKnown, Sending, RowsKeep
<1>2. CASE UNCHANGED attempt
  BY <1>1, <1>2
<1>3. ASSUME NEW b \in Attempt, AttemptStep(b)
      PROVE  row'[From[attempt'[a].id]][attempt'[a].id] # "none"
  <2>1. /\ attempt[b].at # "free"
        /\ \E at \in AttemptAt : GoTo(b, at, attempt[b].id)
    BY <1>3 DEF AttemptStep, Dispatch, DispatchFails, MarkSent, MarkFailed,
                TimerFires, TimerDemotes, AttemptAt
  <2>2. PICK at \in AttemptAt : GoTo(b, at, attempt[b].id)
    BY <2>1
  <2>3. attempt'[a] = IF a = b THEN [at |-> at, id |-> attempt[a].id] ELSE attempt[a]
    BY <1>0, <2>2 DEF GoTo
  <2> QED BY <1>1, <2>1, <2>3
<1>4. ASSUME NEW b \in Attempt, NEW m \in Msg, SendText(b, m) \/ Resend(b, m)
      PROVE  row'[From[attempt'[a].id]][attempt'[a].id] # "none"
  <2>1. attempt'[a] = IF a = b THEN [at |-> "dispatch", id |-> m] ELSE attempt[a]
    BY <1>0, <1>4 DEF SendText, Resend, GoTo
  <2>2. row'[From[m]][m] # "none"
    <3>1. CASE SendText(b, m)
      BY <3>1, Constants DEF SendText, TypeOK
    <3>2. CASE Resend(b, m)
      BY <1>0, <3>2, Constants DEF Resend, Sending, RowsKeep
    <3> QED BY <1>4, <3>1, <3>2
  <2>3. CASE a = b
    BY <2>1, <2>2, <2>3
  <2>4. CASE a # b
    BY <1>1, <2>1, <2>4
  <2> QED BY <2>3, <2>4
<1>5. ASSUME NEW n \in Node, Crash(n)
      PROVE  row'[From[attempt'[a].id]][attempt'[a].id] # "none"
  <2>1. \/ attempt'[a] = attempt[a]
        \/ attempt[a].at # "free" /\ attempt'[a] = [at |-> "done", id |-> attempt[a].id]
    BY <1>0, <1>5 DEF Crash
  <2> QED BY <1>1, <2>1
<1>6. ASSUME NEW n \in Node, NEW p \in Node,
             ReadLoop(n, p) \/ MarkRead(n, p) \/ Connect(n, p) \/ CloseEnd(n, p)
      PROVE  UNCHANGED attempt
  BY <1>6 DEF ReadLoop, TextArrives, TextRefused, ConversationRefused,
              TouchConversation, SendAck, AckArrives, MarkRead, Connect, CloseEnd
<1> QED BY <1>2, <1>3, <1>4, <1>5, <1>6 DEF Next, vars

LEMMA SendersStayTrue ==
    ASSUME TypeOK, DeliveredIsTrue, RowsKeep, SendersKeep
    PROVE  DeliveredIsTrue'
BY Constants DEF DeliveredIsTrue, RowsKeep, SendersKeep, Sending

LEMMA FramesStayTrue ==
    ASSUME TypeOK, FramesTrue, RowsKeep, \A x, y \in Node : FramesStep(x, y)
    PROVE  FramesTrue'
<1> SUFFICES ASSUME NEW x \in Node, NEW y \in Node, NEW i \in 1..Len(chan'[x][y])
             PROVE  FrameTrue(row', x, y, chan'[x][y][i])
  BY DEF FramesTrue
<1>0. chan[x][y] \in Seq(Frame)
  BY DEF TypeOK
<1>1. ASSUME NEW j \in 1..Len(chan[x][y]) PROVE FrameTrue(row', x, y, chan[x][y][j])
  <2>1. chan[x][y][j] \in Frame
    BY <1>0
  <2>2. chan[x][y][j].id \in Msg
    BY <2>1 DEF Frame
  <2> QED BY <2>2 DEF FramesTrue, FrameTrue, Holds, RowsKeep
<1>2. CASE chan'[x][y] = chan[x][y]
  BY <1>1, <1>2
<1>3. CASE chan'[x][y] = <<>>
  BY <1>3
<1>4. CASE chan[x][y] # <<>> /\ chan'[x][y] = Tail(chan[x][y])
  <2>1. i + 1 \in 1..Len(chan[x][y]) /\ chan'[x][y][i] = chan[x][y][i + 1]
    BY <1>0, <1>4
  <2> QED BY <1>1, <2>1
<1>5. ASSUME NEW f \in Frame, FrameTrue(row', x, y, f), chan'[x][y] = Append(chan[x][y], f)
      PROVE  FrameTrue(row', x, y, chan'[x][y][i])
  <2>1. \/ i \in 1..Len(chan[x][y]) /\ chan'[x][y][i] = chan[x][y][i]
        \/ chan'[x][y][i] = f
    BY <1>0, <1>5
  <2> QED BY <1>1, <1>5, <2>1
<1>6. FramesStep(x, y)
  OBVIOUS
<1> QED BY <1>2, <1>3, <1>4, <1>5, <1>6 DEF FramesStep

LEMMA HandlersStayTrue ==
    ASSUME TypeOK, HandlingTrue, RowsKeep,
           \A x, y \in Node : \/ inbound'[x][y] \in {inbound[x][y], NoFrame}
                              \/ HandlerTrue(row', x, y, inbound'[x][y])
    PROVE  HandlingTrue'
<1> SUFFICES ASSUME NEW n \in Node, NEW p \in Node,
                    inbound'[n][p] \in {inbound[n][p], NoFrame}
             PROVE  HandlerTrue(row', n, p, inbound'[n][p])
  BY DEF HandlingTrue
<1>1. CASE inbound'[n][p] = inbound[n][p]
  <2>1. inbound[n][p].id \in Msg
    BY DEF TypeOK, Handling
  <2> QED BY <1>1, <2>1 DEF HandlingTrue, HandlerTrue, RowsKeep, Holds
<1>2. CASE inbound'[n][p] = NoFrame
  BY <1>2, Constants DEF HandlerTrue
<1> QED BY <1>1, <1>2

(* A write of a state that is not "delivered" to a row that exists.         *)
LEMMA SetStaysTrue ==
    ASSUME Truthful, NEW m \in Msg, NEW s \in Delivery \ {"none", "delivered"},
           SetMessageState(From[m], m, s), UNCHANGED <<chan, inbound>>
    PROVE  FramesTrue' /\ HandlingTrue' /\ DeliveredIsTrue'
<1>1. \A x \in Node, y \in Msg :
          \/ row'[x][y] = row[x][y]
          \/ row[x][y] # "none" /\ row'[x][y] = s
  BY Constants, SetEffect DEF Truthful
<1>2. RowsKeep
  BY <1>1 DEF RowsKeep
<1>3. SendersKeep
  BY <1>1, Constants DEF SendersKeep
<1> QED BY <1>2, <1>3, SendersStayTrue, FramesStayTrue, HandlersStayTrue
        DEF Truthful, FramesStep

LEMMA RowsStayTrue ==
    ASSUME Truthful, UNCHANGED row,
           \A x, y \in Node : FramesStep(x, y),
           \A x, y \in Node : \/ inbound'[x][y] \in {inbound[x][y], NoFrame}
                              \/ HandlerTrue(row', x, y, inbound'[x][y])
    PROVE  FramesTrue' /\ HandlingTrue' /\ DeliveredIsTrue'
<1>1. RowsKeep /\ SendersKeep
  BY DEF RowsKeep, SendersKeep
<1> QED BY <1>1, SendersStayTrue, FramesStayTrue, HandlersStayTrue DEF Truthful

LEMMA SenderStaysTrue ==
    ASSUME Truthful, NEW a \in Attempt, AttemptStep(a)
    PROVE  FramesTrue' /\ HandlingTrue' /\ DeliveredIsTrue'
<1> DEFINE m == attempt[a].id
<1>0. m \in Msg /\ From[m] \in Node /\ To[m] \in Node /\ TypeOK
  BY Constants DEF Truthful, TypeOK
<1>s. {"sending", "sent", "failed"} \subseteq Delivery \ {"none", "delivered"}
  BY DEF Delivery
<1> HIDE DEF m
<1>1. CASE Dispatch(a)
  <2> DEFINE f == [type |-> "msg", id |-> m]
  <2>1. f \in Frame /\ Queue(From[m], To[m], f) /\ UNCHANGED <<row, inbound>>
    BY <1>0, <1>1 DEF Dispatch, m, Frame
  <2>2. FrameTrue(row', From[m], To[m], f)
    BY <1>1, <2>1 DEF FrameTrue, Truthful, AttemptsKnown, Sending, Dispatch, m
  <2> HIDE DEF f
  <2>3. \A x, y \in Node :
            chan'[x][y] = IF x = From[m] /\ y = To[m] THEN Append(chan[x][y], f)
                          ELSE chan[x][y]
    BY <1>0, <2>1, QueueEffect
  <2>4. \A x, y \in Node : FramesStep(x, y)
    BY <2>1, <2>2, <2>3 DEF FramesStep
  <2> QED BY <2>1, <2>4, RowsStayTrue
<1>2. CASE DispatchFails(a)
  BY <1>2, RowsStayTrue DEF DispatchFails, FramesStep
<1>3. CASE MarkSent(a)
  BY <1>0, <1>s, <1>3, SetStaysTrue DEF MarkSent, m
<1>4. CASE MarkFailed(a)
  BY <1>0, <1>s, <1>4, SetStaysTrue DEF MarkFailed, m
<1>5. CASE TimerFires(a)
  BY <1>5, RowsStayTrue DEF TimerFires, FramesStep
<1>6. CASE TimerDemotes(a)
  BY <1>0, <1>s, <1>6, SetStaysTrue DEF TimerDemotes, m
<1> QED BY <1>1, <1>2, <1>3, <1>4, <1>5, <1>6 DEF AttemptStep

(* The frame a read loop takes is what its peer may say.                    *)
LEMMA TakenIsTrue ==
    ASSUME Truthful, NEW n \in Node, NEW p \in Node, chan[p][n] # <<>>
    PROVE  FrameTrue(row, p, n, Head(chan[p][n])) /\ Head(chan[p][n]).id \in Msg
<1>1. chan[p][n] \in Seq(Frame) /\ Head(chan[p][n]) \in Frame
  BY DEF Truthful, TypeOK
<1>2. 1 \in 1..Len(chan[p][n]) /\ Head(chan[p][n]) = chan[p][n][1]
  BY <1>1
<1> QED BY <1>1, <1>2 DEF Truthful, FramesTrue, Frame

LEMMA TakeStep ==
    ASSUME TypeOK, NEW n \in Node, NEW p \in Node, chan[p][n] # <<>>,
           TakeFrame(n, p)
    PROVE  \A x, y \in Node : FramesStep(x, y)
BY TakeEffect DEF FramesStep

LEMMA HandleStep ==
    ASSUME TypeOK, NEW n \in Node, NEW p \in Node, NEW step \in {"touch", "ack"},
           NEW m \in Msg, Handle(n, p, step, m),
           HandlerTrue(row', n, p, [step |-> step, id |-> m])
    PROVE  \A x, y \in Node : \/ inbound'[x][y] \in {inbound[x][y], NoFrame}
                              \/ HandlerTrue(row', x, y, inbound'[x][y])
<1> DEFINE h == [step |-> step, id |-> m]
<1>1. h \in Handling /\ inbound' = [inbound EXCEPT ![n] = [@ EXCEPT ![p] = h]]
  BY DEF Handle, Handling
<1>2. HandlerTrue(row', n, p, h)
  OBVIOUS
<1> HIDE DEF h
<1>3. \A x, y \in Node :
          inbound'[x][y] = IF x = n /\ y = p THEN h ELSE inbound[x][y]
  BY <1>1, HandleEffect
<1> QED BY <1>2, <1>3

LEMMA ReceiverStaysTrue ==
    ASSUME Truthful, NEW n \in Node, NEW p \in Node, ReadLoop(n, p)
    PROVE  FramesTrue' /\ HandlingTrue' /\ DeliveredIsTrue'
<1> DEFINE m == Head(chan[p][n]).id
           i == inbound[n][p].id
<1>0. TypeOK /\ row \in [Node -> [Msg -> Delivery]] /\ i \in Msg
  BY DEF Truthful, TypeOK, Handling
<1>h. HandlerTrue(row, n, p, inbound[n][p])
  BY DEF Truthful, HandlingTrue
<1>1. CASE TextArrives(n, p)
  <2>1. /\ chan[p][n] # <<>> /\ TakeFrame(n, p)
        /\ Head(chan[p][n]).type = "msg"
    BY <1>1 DEF TextArrives, Receives
  <2>2. m \in Msg /\ From[m] = p /\ To[m] = n /\ n # p
    BY <2>1, TakenIsTrue, Constants DEF FrameTrue
  <2>3. \A x, y \in Node : FramesStep(x, y)
    BY <1>0, <2>1, TakeStep
  <2>4. CASE row[n][m] # "none"
    <3>1. row' = row /\ Handle(n, p, "ack", m)
      BY <1>1, <2>4 DEF TextArrives
    <3> HIDE DEF m
    <3>2. HandlerTrue(row', n, p, [step |-> "ack", id |-> m])
      BY <2>2, <2>4, <3>1 DEF HandlerTrue, Holds
    <3> QED BY <1>0, <2>2, <2>3, <3>1, <3>2, HandleStep, RowsStayTrue
  <2>5. CASE row[n][m] = "none"
    <3>1. /\ row' = [row EXCEPT ![n] = [@ EXCEPT ![m] = "delivered"]]
          /\ Handle(n, p, "touch", m)
      BY <1>1, <2>5 DEF TextArrives
    <3> HIDE DEF m
    <3>2. \A x \in Node, y \in Msg :
              row'[x][y] = IF x = n /\ y = m THEN "delivered" ELSE row[x][y]
      BY <1>0, <2>2, <3>1, Replaced DEF Delivery
    <3>3. RowsKeep
      BY <3>2 DEF RowsKeep
    <3>4. SendersKeep
      BY <2>2, <3>2, Constants DEF SendersKeep
    <3>5. HandlerTrue(row', n, p, [step |-> "touch", id |-> m])
      BY <2>2, <3>2 DEF HandlerTrue
    <3>6. \A x, y \in Node : \/ inbound'[x][y] \in {inbound[x][y], NoFrame}
                             \/ HandlerTrue(row', x, y, inbound'[x][y])
      BY <1>0, <2>2, <3>1, <3>5, HandleStep
    <3> QED BY <2>3, <3>3, <3>4, <3>6, SendersStayTrue, FramesStayTrue,
               HandlersStayTrue DEF Truthful
  <2> QED BY <2>4, <2>5
<1>2. CASE TextRefused(n, p)
  <2>1. /\ chan[p][n] # <<>> /\ TakeFrame(n, p) /\ n \in Flaky
        /\ Head(chan[p][n]).type = "msg" /\ Handle(n, p, "ack", m)
        /\ row' = row
    BY <1>2 DEF TextRefused, Receives
  <2>2. m \in Msg /\ From[m] = p /\ To[m] = n
    BY <2>1, TakenIsTrue DEF FrameTrue
  <2>3. \A x, y \in Node : FramesStep(x, y)
    BY <1>0, <2>1, TakeStep
  <2> HIDE DEF m
  <2>4. HandlerTrue(row', n, p, [step |-> "ack", id |-> m])
    BY <2>1, <2>2 DEF HandlerTrue, Holds
  <2> QED BY <1>0, <2>1, <2>2, <2>3, <2>4, HandleStep, RowsStayTrue
<1>3. CASE ConversationRefused(n, p)
  <2>1. chan[p][n] # <<>> /\ TakeFrame(n, p) /\ UNCHANGED <<row, inbound>>
    BY <1>3 DEF ConversationRefused, Receives
  <2>2. \A x, y \in Node : FramesStep(x, y)
    BY <1>0, <2>1, TakeStep
  <2> QED BY <2>1, <2>2, RowsStayTrue
<1>4. CASE TouchConversation(n, p)
  <2>1. /\ inbound[n][p].step = "touch" /\ Handle(n, p, "ack", i)
        /\ UNCHANGED <<row, chan>>
    BY <1>4 DEF TouchConversation
  <2>2. HandlerTrue(row', n, p, [step |-> "ack", id |-> i])
    BY <1>h, <2>1 DEF HandlerTrue, Holds
  <2>3. \A x, y \in Node : FramesStep(x, y)
    BY <2>1 DEF FramesStep
  <2> HIDE DEF i
  <2> QED BY <1>0, <2>1, <2>2, <2>3, HandleStep, RowsStayTrue
<1>5. CASE SendAck(n, p)
  <2> DEFINE f == [type |-> "ack", id |-> i]
  <2>1. /\ inbound' = [inbound EXCEPT ![n] = [@ EXCEPT ![p] = NoFrame]]
        /\ Queue(n, p, f) \/ chan' = chan
        /\ row' = row /\ inbound[n][p].step = "ack"
    BY <1>5 DEF SendAck
  <2>2. \A x, y \in Node : inbound'[x][y] \in {inbound[x][y], NoFrame}
    BY <1>0, <2>1, Constants, HandleEffect
  <2>3. f \in Frame /\ FrameTrue(row', n, p, f)
    BY <1>0, <1>h, <2>1 DEF HandlerTrue, FrameTrue, Frame
  <2> HIDE DEF f
  <2>4. CASE Queue(n, p, f)
    <3>1. \A x, y \in Node :
              chan'[x][y] = IF x = n /\ y = p THEN Append(chan[x][y], f)
                            ELSE chan[x][y]
      BY <1>0, <2>3, <2>4, QueueEffect
    <3>2. \A x, y \in Node : FramesStep(x, y)
      BY <2>3, <3>1 DEF FramesStep
    <3> QED BY <2>1, <2>2, <3>2, RowsStayTrue
  <2>5. CASE chan' = chan
    BY <2>1, <2>2, <2>5, RowsStayTrue DEF FramesStep
  <2> QED BY <2>1, <2>4, <2>5
<1>6. CASE AckArrives(n, p)
  <2>1. /\ chan[p][n] # <<>> /\ TakeFrame(n, p) /\ inbound' = inbound
        /\ Head(chan[p][n]).type = "ack" /\ SetMessageState(n, m, "delivered")
    BY <1>6 DEF AckArrives, Receives
  <2>2. m \in Msg /\ To[m] = p /\ Holds(row, p, m)
    BY <2>1, TakenIsTrue DEF FrameTrue
  <2>3. \A x, y \in Node : FramesStep(x, y)
    BY <1>0, <2>1, TakeStep
  <2> HIDE DEF m
  <2>4. "delivered" \in Delivery \ {"none"}
    BY DEF Delivery
  <2>5. \A x \in Node, y \in Msg :
            \/ row'[x][y] = row[x][y]
            \/ x = n /\ y = m /\ row[x][y] # "none" /\ row'[x][y] = "delivered"
    BY <1>0, <2>1, <2>2, <2>4, SetEffect
  <2>6. RowsKeep
    BY <2>5 DEF RowsKeep
  <2>7. DeliveredIsTrue'
    BY <2>2, <2>5, <2>6, Constants
       DEF DeliveredIsTrue, Truthful, Sending, Holds, RowsKeep
  <2> QED BY <2>1, <2>3, <2>6, <2>7, FramesStayTrue, HandlersStayTrue DEF Truthful
<1> QED BY <1>1, <1>2, <1>3, <1>4, <1>5, <1>6 DEF ReadLoop

LEMMA TruthStep == Truthful /\ [Next]_vars => Truthful'
<1> SUFFICES ASSUME Truthful, [Next]_vars
             PROVE  FramesTrue' /\ HandlingTrue' /\ DeliveredIsTrue'
  BY TypeStep, AttemptsStayKnown DEF Truthful
<1>0. TypeOK /\ row \in [Node -> [Msg -> Delivery]]
  BY DEF Truthful, TypeOK
<1>1. CASE UNCHANGED vars
  BY <1>1, RowsStayTrue DEF vars, FramesStep
<1>2. ASSUME NEW a \in Attempt, AttemptStep(a)
      PROVE  FramesTrue' /\ HandlingTrue' /\ DeliveredIsTrue'
  BY <1>2, SenderStaysTrue
<1>3. ASSUME NEW a \in Attempt, NEW m \in Msg, SendText(a, m)
      PROVE  FramesTrue' /\ HandlingTrue' /\ DeliveredIsTrue'
  <2>1. "sending" \in Delivery
    BY DEF Delivery
  <2>2. row' = [row EXCEPT ![From[m]] = [@ EXCEPT ![m] = "sending"]]
    BY <1>3 DEF SendText
  <2>3. \A x \in Node, y \in Msg :
            row'[x][y] = IF x = From[m] /\ y = m THEN "sending" ELSE row[x][y]
    BY <1>0, <2>1, <2>2, Constants, Replaced
  <2>4. RowsKeep /\ SendersKeep
    BY <2>3, Constants DEF RowsKeep, SendersKeep
  <2> QED BY <1>3, <2>4, SendersStayTrue, FramesStayTrue, HandlersStayTrue
          DEF SendText, Truthful, FramesStep
<1>4. ASSUME NEW a \in Attempt, NEW m \in Msg, Resend(a, m)
      PROVE  FramesTrue' /\ HandlingTrue' /\ DeliveredIsTrue'
  BY <1>4, SetStaysTrue DEF Resend, Delivery
<1>5. ASSUME NEW n \in Node, NEW p \in Node, ReadLoop(n, p)
      PROVE  FramesTrue' /\ HandlingTrue' /\ DeliveredIsTrue'
  BY <1>5, ReceiverStaysTrue
<1>6. ASSUME NEW n \in Node, NEW p \in Node, MarkRead(n, p)
      PROVE  FramesTrue' /\ HandlingTrue' /\ DeliveredIsTrue'
  BY <1>6, RowsStayTrue DEF MarkRead, FramesStep
<1>7. ASSUME NEW n \in Node, NEW p \in Node, Connect(n, p)
      PROVE  FramesTrue' /\ HandlingTrue' /\ DeliveredIsTrue'
  <2>1. \A x, y \in Node : FramesStep(x, y)
    BY <1>0, <1>7, ConnectEffect DEF FramesStep
  <2> QED BY <1>7, <2>1, RowsStayTrue DEF Connect
<1>8. ASSUME NEW n \in Node, NEW p \in Node, CloseEnd(n, p)
      PROVE  FramesTrue' /\ HandlingTrue' /\ DeliveredIsTrue'
  <2>1. \A x, y \in Node : FramesStep(x, y)
    BY <1>0, <1>8, CloseEffect DEF FramesStep
  <2> QED BY <1>8, <2>1, RowsStayTrue DEF CloseEnd
<1>9. ASSUME NEW n \in Node, Crash(n)
      PROVE  FramesTrue' /\ HandlingTrue' /\ DeliveredIsTrue'
  <2>1. \A x, y \in Node : /\ FramesStep(x, y)
                           /\ inbound'[x][y] \in {inbound[x][y], NoFrame}
    BY <1>0, <1>9, CrashEffect DEF FramesStep
  <2> QED BY <1>9, <2>1, RowsStayTrue DEF Crash
<1> QED BY <1>1, <1>2, <1>3, <1>4, <1>5, <1>6, <1>7, <1>8, <1>9 DEF Next

LEMMA TruthInit == Init => Truthful
<1> SUFFICES ASSUME Init PROVE FramesTrue /\ HandlingTrue /\ DeliveredIsTrue
  BY TypeInit DEF Truthful, Init, AttemptsKnown
<1>1. FramesTrue
  BY DEF Init, FramesTrue
<1>2. HandlingTrue
  BY Constants DEF Init, HandlingTrue, HandlerTrue
<1>3. DeliveredIsTrue
  BY Constants DEF Init, DeliveredIsTrue, Sending
<1> QED BY <1>1, <1>2, <1>3

(* A message shown to its sender as delivered is in its receiver's          *)
(* database, unless that database refuses writes.                           *)
THEOREM DeliveredCorrect == Spec => []DeliveredIsTrue
<1>1. Truthful => DeliveredIsTrue
  BY DEF Truthful
<1> QED BY <1>1, TruthInit, TruthStep, PTL DEF Spec

-----------------------------------------------------------------------------
(* No message is counted twice.                                             *)

Known(rows, n, p) ==
    {m \in Msg : From[m] = p /\ To[m] = n /\ rows[n][m] # "none"}

(* What the counter shows, and what is about to be added to it.             *)
Count(counters, handlers, n, p) ==
    counters[n][p] + (IF handlers[n][p].step = "touch" THEN 1 ELSE 0)

(* n inserts a message of p that it did not have.                           *)
Inserts(n, p) ==
    /\ TextArrives(n, p)
    /\ row[n][Head(chan[p][n]).id] = "none"

LEMMA KnownIsFinite ==
    ASSUME NEW rows, NEW n, NEW p
    PROVE  IsFiniteSet(Known(rows, n, p)) /\ Cardinality(Known(rows, n, p)) \in Nat
<1>1. Known(rows, n, p) \subseteq Msg
  BY DEF Known
<1>2. IsFiniteSet(Msg)
  BY ConstantsAssumption DEF ConstantsAssumption
<1> QED BY <1>1, <1>2, FS_Subset, FS_CardinalityType

LEMMA CountType ==
    ASSUME TypeOK, NEW n \in Node, NEW p \in Node
    PROVE  Count(unread, inbound, n, p) \in Nat
<1>1. unread[n][p] \in Nat
  BY DEF TypeOK
<1> QED BY <1>1 DEF Count

(* Only a message that is inserted makes the count grow.                    *)
LEMMA CountStep ==
    ASSUME TypeOK, [Next]_vars, NEW n \in Node, NEW p \in Node, ~Inserts(n, p)
    PROVE  Count(unread', inbound', n, p) <= Count(unread, inbound, n, p)
<1>0. /\ unread \in [Node -> [Node -> Nat]] /\ inbound \in [Node -> [Node -> Handling]]
      /\ unread[n][p] \in Nat
  BY DEF TypeOK
<1>1. ASSUME unread' = unread,
             \/ inbound'[n][p] = inbound[n][p]
             \/ inbound'[n][p].step # "touch"
      PROVE  Count(unread', inbound', n, p) <= Count(unread, inbound, n, p)
  BY <1>0, <1>1 DEF Count
<1>2. CASE UNCHANGED <<unread, inbound>>
  BY <1>1, <1>2
<1>3. ASSUME NEW x \in Node, NEW y \in Node, ReadLoop(x, y)
      PROVE  Count(unread', inbound', n, p) <= Count(unread, inbound, n, p)
  <2> DEFINE m == Head(chan[y][x]).id
  <2>1. ASSUME NEW step \in {"touch", "ack"}, NEW i \in Msg, Handle(x, y, step, i)
        PROVE  inbound'[n][p] = IF n = x /\ p = y THEN [step |-> step, id |-> i]
                                ELSE inbound[n][p]
    <3>1. [step |-> step, id |-> i] \in Handling
      BY DEF Handling
    <3> QED BY <2>1, <3>1, HandleEffect DEF Handle
  <2>6. ASSUME NEW i \in Msg, Handle(x, y, "ack", i)
        PROVE  inbound'[n][p] = inbound[n][p] \/ inbound'[n][p].step # "touch"
    <3>1. inbound'[n][p] = IF n = x /\ p = y THEN [step |-> "ack", id |-> i]
                           ELSE inbound[n][p]
      BY <2>1, <2>6
    <3>2. [step |-> "ack", id |-> i].step # "touch"
      OBVIOUS
    <3> QED BY <3>1, <3>2
  <2>2. CASE TextArrives(x, y)
    <3>1. m \in Msg /\ unread' = unread
      BY <2>2, TakeEffect DEF TextArrives, Receives
    <3>2. \/ Handle(x, y, "ack", m)
          \/ Handle(x, y, "touch", m) /\ Inserts(x, y)
      BY <2>2 DEF TextArrives, Inserts
    <3> HIDE DEF m
    <3>3. CASE Handle(x, y, "ack", m)
      BY <1>1, <2>6, <3>1, <3>3
    <3>4. CASE Handle(x, y, "touch", m) /\ Inserts(x, y)
      <4>1. ~(n = x /\ p = y)
        BY <3>4
      <4>2. inbound'[n][p] = inbound[n][p]
        BY <2>1, <3>1, <3>4, <4>1
      <4> QED BY <1>1, <3>1, <4>2
    <3> QED BY <3>2, <3>3, <3>4
  <2>3. CASE TextRefused(x, y)
    <3>1. m \in Msg /\ unread' = unread /\ Handle(x, y, "ack", m)
      BY <2>3, TakeEffect DEF TextRefused, Receives
    <3> HIDE DEF m
    <3> QED BY <1>1, <2>6, <3>1
  <2>4. CASE TouchConversation(x, y)
    <3> DEFINE i == inbound[x][y].id
    <3>1. i \in Msg /\ Handle(x, y, "ack", i) /\ inbound[x][y].step = "touch"
      BY <2>4 DEF TouchConversation, TypeOK, Handling
    <3>2. \/ unread' = unread
          \/ unread' = [unread EXCEPT ![x] = [@ EXCEPT ![y] = unread[x][y] + 1]]
      BY <2>4 DEF TouchConversation
    <3>3. \/ unread'[n][p] = unread[n][p]
          \/ n = x /\ p = y /\ unread'[n][p] = unread[n][p] + 1
      <4>1. unread[x][y] + 1 \in Nat
        BY <1>0
      <4> QED BY <1>0, <3>2, <4>1
    <3> HIDE DEF i
    <3>4. inbound'[n][p] = IF n = x /\ p = y THEN [step |-> "ack", id |-> i]
                           ELSE inbound[n][p]
      BY <2>1, <3>1
    <3> QED BY <1>0, <3>1, <3>3, <3>4 DEF Count
  <2>5. CASE SendAck(x, y)
    <3>1. /\ unread' = unread
          /\ inbound' = [inbound EXCEPT ![x] = [@ EXCEPT ![y] = NoFrame]]
      BY <2>5 DEF SendAck
    <3>2. \A a, b \in Node : inbound'[a][b] \in {inbound[a][b], NoFrame}
      BY <3>1, Constants, HandleEffect
    <3>3. inbound'[n][p] \in {inbound[n][p], NoFrame}
      BY <3>2
    <3> QED BY <1>1, <3>1, <3>3, Constants
  <2> QED BY <1>2, <1>3, <2>2, <2>3, <2>4, <2>5
          DEF ReadLoop, ConversationRefused, AckArrives
<1>4. ASSUME NEW x \in Node, NEW y \in Node, MarkRead(x, y)
      PROVE  Count(unread', inbound', n, p) <= Count(unread, inbound, n, p)
  <2>1. unread'[n][p] = IF n = x /\ p = y THEN 0 ELSE unread[n][p]
    BY <1>0, <1>4 DEF MarkRead
  <2> QED BY <1>0, <1>4, <2>1 DEF MarkRead, Count
<1>5. ASSUME NEW x \in Node, Crash(x)
      PROVE  Count(unread', inbound', n, p) <= Count(unread, inbound, n, p)
  <2>1. unread' = unread /\ inbound'[n][p] \in {inbound[n][p], NoFrame}
    BY <1>5, CrashEffect DEF Crash
  <2> QED BY <1>1, <2>1, Constants
<1>6. CASE \E a \in Attempt : \/ AttemptStep(a)
                              \/ \E m \in Msg : SendText(a, m) \/ Resend(a, m)
  BY <1>2, <1>6 DEF AttemptStep, Dispatch, DispatchFails, MarkSent, MarkFailed,
                    TimerFires, TimerDemotes, SendText, Resend
<1> QED BY <1>2, <1>3, <1>4, <1>5, <1>6 DEF Next, vars, Connect, CloseEnd

(* However often a message arrives, the unread counter of its conversation  *)
(* never exceeds the messages there are from that peer.                     *)
THEOREM UnreadCorrect == Spec => []UnreadNeverOvercounts
<1> DEFINE Inv == Truthful /\ UnreadNeverOvercounts
<1>d. UnreadNeverOvercounts <=>
        \A n, p \in Node : Count(unread, inbound, n, p) <= Cardinality(Known(row, n, p))
  BY DEF UnreadNeverOvercounts, Count, Known
<1>1. Init => Inv
  <2> SUFFICES ASSUME Init PROVE UnreadNeverOvercounts
    BY TruthInit
  <2> SUFFICES ASSUME NEW n \in Node, NEW p \in Node
               PROVE  Count(unread, inbound, n, p) <= Cardinality(Known(row, n, p))
    BY <1>d
  <2>1. Count(unread, inbound, n, p) = 0
    BY Constants DEF Init, Count
  <2> QED BY <2>1, KnownIsFinite
<1>2. Inv /\ [Next]_vars => Inv'
  <2> SUFFICES ASSUME Inv, [Next]_vars, NEW n \in Node, NEW p \in Node
               PROVE  Count(unread', inbound', n, p) <= Cardinality(Known(row', n, p))
    BY <1>d, TruthStep DEF UnreadNeverOvercounts, Count, Known
  <2>0. TypeOK /\ TypeOK' /\ RowsKeep
    BY TypeStep, RowsNeverGo DEF Truthful
  <2>1. /\ Count(unread, inbound, n, p) \in Nat
        /\ Count(unread', inbound', n, p) \in Nat
    <3>1. unread[n][p] \in Nat /\ unread'[n][p] \in Nat
      BY <2>0 DEF TypeOK
    <3> QED BY <3>1 DEF Count
  <2>2. /\ IsFiniteSet(Known(row, n, p)) /\ IsFiniteSet(Known(row', n, p))
        /\ Cardinality(Known(row, n, p)) \in Nat
        /\ Cardinality(Known(row', n, p)) \in Nat
    BY KnownIsFinite
  <2>3. Known(row, n, p) \subseteq Known(row', n, p)
    BY <2>0 DEF Known, RowsKeep
  <2>4. Cardinality(Known(row, n, p)) <= Cardinality(Known(row', n, p))
    BY <2>2, <2>3, FS_Subset
  <2>5. Count(unread, inbound, n, p) <= Cardinality(Known(row, n, p))
    BY <1>d
  <2>6. CASE ~Inserts(n, p)
    <3>1. Count(unread', inbound', n, p) <= Count(unread, inbound, n, p)
      BY <2>0, <2>6, CountStep
    <3> QED BY <2>1, <2>2, <2>4, <2>5, <3>1
  <2>7. CASE Inserts(n, p)
    <3> DEFINE m == Head(chan[p][n]).id
    <3>1. /\ chan[p][n] # <<>> /\ Head(chan[p][n]).type = "msg" /\ unread' = unread
          /\ inbound[n][p].step = "idle" /\ row[n][m] = "none"
          /\ row' = [row EXCEPT ![n] = [@ EXCEPT ![m] = "delivered"]]
          /\ Handle(n, p, "touch", m)
      BY <2>7 DEF Inserts, TextArrives, Receives
    <3>2. m \in Msg /\ From[m] = p /\ To[m] = n
      BY <3>1, TakenIsTrue DEF FrameTrue
    <3> HIDE DEF m
    <3>3. row'[n][m] # "none"
      BY <2>0, <3>1, <3>2 DEF TypeOK
    <3>4. m \in Known(row', n, p) /\ m \notin Known(row, n, p)
      BY <3>1, <3>2, <3>3 DEF Known
    <3>5. Cardinality(Known(row, n, p) \cup {m}) = Cardinality(Known(row, n, p)) + 1
      BY <2>2, <3>4, FS_AddElement
    <3>6. Known(row, n, p) \cup {m} \subseteq Known(row', n, p)
      BY <2>3, <3>4
    <3>7. Cardinality(Known(row, n, p)) + 1 <= Cardinality(Known(row', n, p))
      BY <2>2, <3>5, <3>6, FS_Subset
    <3>8. Count(unread', inbound', n, p) <= Count(unread, inbound, n, p) + 1
      <4>1. unread[n][p] \in Nat
        BY <2>0 DEF TypeOK
      <4> QED BY <3>1, <4>1 DEF Count
    <3> QED BY <2>1, <2>2, <2>5, <3>7, <3>8
  <2> QED BY <2>6, <2>7
<1>3. Inv => UnreadNeverOvercounts
  OBVIOUS
<1> QED BY <1>1, <1>2, <1>3, PTL DEF Spec

-----------------------------------------------------------------------------
(* The messenger is a mailbox.                                              *)

(* Nothing of what the two people see changes.                              *)
Unseen == Shown' = Shown /\ Kept' = Kept /\ Fresh' = Fresh /\ unread' = unread

LEMMA StutterUnseen ==
    ASSUME UNCHANGED <<row, inbound, unread>>
    PROVE  Unseen
BY DEF Unseen, Shown, Sending, Kept, Fresh

(* The sender's row of a message is written.                                *)
LEMMA WriteIsSeen ==
    ASSUME Truthful, NEW m \in Msg, NEW s \in Delivery \ {"none"},
           SetMessageState(From[m], m, s), UNCHANGED <<unread, inbound>>
    PROVE  \/ Unseen
           \/ /\ Shown[m] # "none" /\ Shown' = [Shown EXCEPT ![m] = s]
              /\ Kept' = Kept /\ Fresh' = Fresh /\ unread' = unread
<1>0. row \in [Node -> [Msg -> Delivery]] /\ TypeOK
  BY DEF Truthful, TypeOK
<1>1. CASE row' = row
  BY <1>1, StutterUnseen
<1>2. CASE /\ row[From[m]][m] # "none"
           /\ row' = [row EXCEPT ![From[m]] = [@ EXCEPT ![m] = s]]
  <2>1. \A x \in Node, y \in Msg :
            row'[x][y] = IF x = From[m] /\ y = m THEN s ELSE row[x][y]
    BY <1>0, <1>2, Constants, Replaced
  <2>2. Shown' = [Shown EXCEPT ![m] = s] /\ Shown[m] # "none"
    <3>1. Shown = [k \in Msg |-> row[From[k]][k]]
      BY DEF Shown, Sending
    <3>2. Shown' = [k \in Msg |-> row'[From[k]][k]]
      BY DEF Shown, Sending
    <3>3. \A k \in Msg : row'[From[k]][k] = IF k = m THEN s ELSE row[From[k]][k]
      BY <2>1, Constants
    <3> QED BY <1>2, <3>1, <3>2, <3>3
  <2>3. Kept' = Kept
    BY <2>1, Constants DEF Kept
  <2>4. Fresh' = Fresh
    BY DEF Fresh
  <2> QED BY <2>2, <2>3, <2>4
<1> QED BY <1>1, <1>2 DEF SetMessageState

(* A read loop that had nothing to count, and has nothing to count now.     *)
LEMMA FreshUnchanged ==
    ASSUME TypeOK, NEW n \in Node, NEW p \in Node, NEW h \in Handling,
           inbound' = [inbound EXCEPT ![n] = [@ EXCEPT ![p] = h]],
           inbound[n][p].step # "touch", h.step # "touch"
    PROVE  Fresh' = Fresh
<1>1. \A x, y \in Node :
          inbound'[x][y] = IF x = n /\ y = p THEN h ELSE inbound[x][y]
  BY HandleEffect
<1>2. ASSUME NEW k \in Msg
      PROVE  inbound'[To[k]][From[k]] = [step |-> "touch", id |-> k]
             <=> inbound[To[k]][From[k]] = [step |-> "touch", id |-> k]
  BY <1>1, Constants
<1> QED BY <1>2 DEF Fresh

(* A text is read for the first time.                                       *)
LEMMA ArrivalIsKept ==
    ASSUME Truthful, NEW n \in Node, NEW p \in Node, Inserts(n, p)
    PROVE  \E m \in Msg : Promise!Keep(m)
<1> DEFINE m == Head(chan[p][n]).id
           h == [step |-> "touch", id |-> m]
<1>0. row \in [Node -> [Msg -> Delivery]] /\ TypeOK
  BY DEF Truthful, TypeOK
<1>1. /\ chan[p][n] # <<>> /\ Head(chan[p][n]).type = "msg" /\ unread' = unread
      /\ inbound[n][p].step = "idle" /\ row[n][m] = "none"
      /\ row' = [row EXCEPT ![n] = [@ EXCEPT ![m] = "delivered"]]
      /\ inbound' = [inbound EXCEPT ![n] = [@ EXCEPT ![p] = h]]
  BY DEF Inserts, TextArrives, Receives, Handle
<1>2. m \in Msg /\ From[m] = p /\ To[m] = n /\ row[p][m] # "none"
  BY <1>1, TakenIsTrue DEF FrameTrue
<1> HIDE DEF m
<1>3. \A x \in Node, y \in Msg :
          row'[x][y] = IF x = n /\ y = m THEN "delivered" ELSE row[x][y]
  BY <1>0, <1>1, <1>2, Replaced DEF Delivery
<1>4. \A x, y \in Node :
          inbound'[x][y] = IF x = n /\ y = p THEN h ELSE inbound[x][y]
  BY <1>0, <1>1, <1>2, HandleEffect DEF Handling
<1>5. Shown' = Shown
  BY <1>2, <1>3, Constants DEF Shown, Sending
<1>6. Kept' = Kept \cup {m} /\ m \notin Kept
  BY <1>1, <1>2, <1>3, Constants DEF Kept
<1>7. Fresh' = Fresh \cup {m}
  <2>1. ASSUME NEW k \in Msg, k # m
        PROVE  inbound'[To[k]][From[k]] = [step |-> "touch", id |-> k]
               <=> inbound[To[k]][From[k]] = [step |-> "touch", id |-> k]
    <3>1. CASE To[k] = n /\ From[k] = p
      <4>1. inbound'[n][p].id = m /\ inbound[n][p].step = "idle"
        BY <1>1, <1>2, <1>4
      <4> QED BY <2>1, <3>1, <4>1
    <3>2. CASE ~(To[k] = n /\ From[k] = p)
      BY <1>4, <3>2, Constants
    <3> QED BY <3>1, <3>2
  <2>2. inbound'[To[m]][From[m]] = [step |-> "touch", id |-> m]
    BY <1>2, <1>4
  <2> QED BY <1>2, <2>1, <2>2 DEF Fresh
<1>8. Shown[m] # "none"
  BY <1>2 DEF Shown, Sending
<1>9. Promise!Keep(m)
  BY <1>1, <1>5, <1>6, <1>7, <1>8 DEF Promise!Keep
<1> QED BY <1>2, <1>9

LEMMA CountIsNoticed ==
    ASSUME Truthful, NEW n \in Node, NEW p \in Node, TouchConversation(n, p)
    PROVE  \E m \in Msg : Promise!Notice(m)
<1> DEFINE m == inbound[n][p].id
           h == [step |-> "ack", id |-> m]
<1>0. TypeOK /\ inbound[n][p] \in Handling
  BY DEF Truthful, TypeOK
<1>1. /\ inbound[n][p].step = "touch" /\ row' = row
      /\ inbound' = [inbound EXCEPT ![n] = [@ EXCEPT ![p] = h]]
      /\ \/ unread' = [unread EXCEPT ![n] = [@ EXCEPT ![p] = unread[n][p] + 1]]
         \/ n \in Flaky /\ unread' = unread
  BY DEF TouchConversation, Handle
<1>2. m \in Msg /\ From[m] = p /\ To[m] = n
  BY <1>0, <1>1 DEF Truthful, HandlingTrue, HandlerTrue, Handling
<1>3. inbound[n][p] = [step |-> "touch", id |-> m]
  BY <1>0, <1>1 DEF Handling
<1> HIDE DEF m
<1>4. \A x, y \in Node :
          inbound'[x][y] = IF x = n /\ y = p THEN h ELSE inbound[x][y]
  <2>1. h \in Handling
    BY <1>2 DEF Handling
  <2> HIDE DEF h
  <2> QED BY <1>0, <1>1, <2>1, HandleEffect
<1>5. Fresh' = Fresh \ {m} /\ m \in Fresh
  <2>1. ASSUME NEW k \in Msg, k # m
        PROVE  inbound'[To[k]][From[k]] = [step |-> "touch", id |-> k]
               <=> inbound[To[k]][From[k]] = [step |-> "touch", id |-> k]
    <3>1. CASE To[k] = n /\ From[k] = p
      <4>1. inbound'[n][p].step = "ack" /\ inbound[n][p].id = m
        BY <1>3, <1>4
      <4> QED BY <2>1, <3>1, <4>1
    <3>2. CASE ~(To[k] = n /\ From[k] = p)
      BY <1>4, <3>2, Constants
    <3> QED BY <3>1, <3>2
  <2>2. inbound'[To[m]][From[m]].step # "touch"
    BY <1>2, <1>4
  <2>3. inbound'[To[m]][From[m]] # [step |-> "touch", id |-> m]
    BY <2>2
  <2>4. m \in Fresh
    BY <1>2, <1>3 DEF Fresh
  <2> QED BY <1>2, <2>1, <2>3, <2>4 DEF Fresh
<1>6. Shown' = Shown /\ Kept' = Kept
  BY <1>1 DEF Shown, Sending, Kept
<1>7. Promise!Notice(m)
  BY <1>1, <1>2, <1>5, <1>6 DEF Promise!Notice
<1> QED BY <1>2, <1>7

LEMMA AckIsConfirmed ==
    ASSUME Truthful, NEW n \in Node, NEW p \in Node, AckArrives(n, p)
    PROVE  Unseen \/ \E m \in Msg : Promise!Confirm(m)
<1> DEFINE m == Head(chan[p][n]).id
<1>1. /\ chan[p][n] # <<>> /\ UNCHANGED <<unread, inbound>>
      /\ Head(chan[p][n]).type = "ack" /\ SetMessageState(n, m, "delivered")
  BY DEF AckArrives, Receives
<1>2. m \in Msg /\ From[m] = n /\ To[m] = p /\ Holds(row, p, m)
  BY <1>1, TakenIsTrue DEF FrameTrue
<1> HIDE DEF m
<1>3. "delivered" \in Delivery \ {"none"}
  BY DEF Delivery
<1>4. \/ Unseen
      \/ /\ Shown[m] # "none" /\ Shown' = [Shown EXCEPT ![m] = "delivered"]
         /\ Kept' = Kept /\ Fresh' = Fresh /\ unread' = unread
  BY <1>1, <1>2, <1>3, WriteIsSeen
<1>5. m \in Kept \/ To[m] \in Flaky
  BY <1>2 DEF Holds, Kept
<1> QED BY <1>2, <1>4, <1>5 DEF Promise!Confirm, Promise!Show

LEMMA ReadLoopIsSeen ==
    ASSUME Truthful, NEW n \in Node, NEW p \in Node, ReadLoop(n, p)
    PROVE  \/ Unseen
           \/ \E m \in Msg : Promise!Keep(m) \/ Promise!Notice(m) \/ Promise!Confirm(m)
<1>0. TypeOK
  BY DEF Truthful
<1>1. ASSUME NEW m \in Msg, Handle(n, p, "ack", m), inbound[n][p].step = "idle",
             UNCHANGED <<row, unread>>
      PROVE  Unseen
  <2> DEFINE h == [step |-> "ack", id |-> m]
  <2>1. /\ h \in Handling /\ h.step # "touch"
        /\ inbound' = [inbound EXCEPT ![n] = [@ EXCEPT ![p] = h]]
    BY <1>1 DEF Handling, Handle
  <2> HIDE DEF h
  <2>2. Fresh' = Fresh
    BY <1>0, <1>1, <2>1, FreshUnchanged
  <2> QED BY <1>1, <2>2 DEF Unseen, Shown, Sending, Kept
<1>2. CASE TextArrives(n, p)
  <2> DEFINE m == Head(chan[p][n]).id
  <2>1. m \in Msg /\ inbound[n][p].step = "idle" /\ unread' = unread
    BY <1>2, TakenIsTrue DEF TextArrives, Receives
  <2>2. Inserts(n, p) \/ (Handle(n, p, "ack", m) /\ row' = row)
    BY <1>2 DEF TextArrives, Inserts
  <2> HIDE DEF m
  <2> QED BY <1>1, <2>1, <2>2, ArrivalIsKept
<1>3. CASE TextRefused(n, p)
  <2> DEFINE m == Head(chan[p][n]).id
  <2>1. /\ m \in Msg /\ inbound[n][p].step = "idle"
        /\ UNCHANGED <<row, unread>> /\ Handle(n, p, "ack", m)
    BY <1>3, TakenIsTrue DEF TextRefused, Receives
  <2> HIDE DEF m
  <2> QED BY <1>1, <2>1
<1>4. CASE ConversationRefused(n, p)
  BY <1>4, StutterUnseen DEF ConversationRefused
<1>5. CASE TouchConversation(n, p)
  BY <1>5, CountIsNoticed
<1>6. CASE SendAck(n, p)
  <2>1. /\ inbound[n][p].step # "touch" /\ UNCHANGED <<row, unread>>
        /\ inbound' = [inbound EXCEPT ![n] = [@ EXCEPT ![p] = NoFrame]]
        /\ NoFrame \in Handling /\ NoFrame.step # "touch"
    BY <1>6, Constants DEF SendAck
  <2>2. Fresh' = Fresh
    BY <1>0, <2>1, FreshUnchanged
  <2> QED BY <2>1, <2>2 DEF Unseen, Shown, Sending, Kept
<1>7. CASE AckArrives(n, p)
  BY <1>7, AckIsConfirmed
<1> QED BY <1>2, <1>3, <1>4, <1>5, <1>6, <1>7 DEF ReadLoop

LEMMA SenderIsSeen ==
    ASSUME Truthful, NEW a \in Attempt,
           \/ AttemptStep(a)
           \/ \E m \in Msg : SendText(a, m) \/ Resend(a, m)
    PROVE  \/ Unseen
           \/ \E m \in Msg : \/ Promise!Send(m)
                             \/ \E s \in {"sending", "sent", "failed"} : Promise!Update(m, s)
<1>0. TypeOK /\ attempt[a].id \in Msg /\ row \in [Node -> [Msg -> Delivery]]
  BY DEF Truthful, TypeOK
<1>1. ASSUME NEW m \in Msg, NEW s \in {"sending", "sent", "failed"},
             SetMessageState(From[m], m, s), UNCHANGED <<unread, inbound>>
      PROVE  Unseen \/ Promise!Update(m, s)
  <2>1. s \in Delivery \ {"none"}
    BY DEF Delivery
  <2>2. \/ Unseen
        \/ /\ Shown[m] # "none" /\ Shown' = [Shown EXCEPT ![m] = s]
           /\ Kept' = Kept /\ Fresh' = Fresh /\ unread' = unread
    BY <1>1, <2>1, WriteIsSeen
  <2> QED BY <2>2 DEF Promise!Update, Promise!Show
<1>2. CASE Dispatch(a) \/ DispatchFails(a) \/ TimerFires(a)
  BY <1>2, StutterUnseen DEF Dispatch, DispatchFails, TimerFires
<1>3. CASE MarkSent(a) \/ MarkFailed(a) \/ TimerDemotes(a)
  <2> DEFINE m == attempt[a].id
  <2>1. /\ SetMessageState(From[m], m, "sent") \/ SetMessageState(From[m], m, "failed")
        /\ UNCHANGED <<unread, inbound>>
    BY <1>3 DEF MarkSent, MarkFailed, TimerDemotes
  <2>2. m \in Msg
    BY <1>0
  <2> HIDE DEF m
  <2> QED BY <1>1, <2>1, <2>2
<1>4. ASSUME NEW m \in Msg, Resend(a, m)
      PROVE  Unseen \/ Promise!Update(m, "sending")
  BY <1>1, <1>4 DEF Resend
<1>5. ASSUME NEW m \in Msg, SendText(a, m) PROVE Promise!Send(m)
  <2>1. /\ row[From[m]][m] = "none" /\ UNCHANGED <<unread, inbound>>
        /\ row' = [row EXCEPT ![From[m]] = [@ EXCEPT ![m] = "sending"]]
    BY <1>5 DEF SendText, Sending
  <2>2. \A x \in Node, y \in Msg :
            row'[x][y] = IF x = From[m] /\ y = m THEN "sending" ELSE row[x][y]
    BY <1>0, <2>1, Constants, Replaced DEF Delivery
  <2>3. Shown' = [Shown EXCEPT ![m] = "sending"] /\ Shown[m] = "none"
    <3>1. Shown = [k \in Msg |-> row[From[k]][k]]
      BY DEF Shown, Sending
    <3>2. Shown' = [k \in Msg |-> row'[From[k]][k]]
      BY DEF Shown, Sending
    <3>3. \A k \in Msg : row'[From[k]][k] = IF k = m THEN "sending" ELSE row[From[k]][k]
      BY <2>2, Constants
    <3> QED BY <2>1, <3>1, <3>2, <3>3
  <2>4. Kept' = Kept
    BY <2>2, Constants DEF Kept
  <2>5. Fresh' = Fresh
    BY <2>1 DEF Fresh
  <2> QED BY <2>1, <2>3, <2>4, <2>5 DEF Promise!Send, Promise!Show
<1> QED BY <1>2, <1>3, <1>4, <1>5 DEF AttemptStep

LEMMA CrashForgets ==
    ASSUME Truthful, NEW n \in Node, Crash(n)
    PROVE  Promise!Forget(n)
<1>0. inbound \in [Node -> [Node -> Handling]]
  BY DEF Truthful, TypeOK
<1>1. /\ UNCHANGED <<row, unread>>
      /\ inbound' = [inbound EXCEPT ![n] = [p \in Node |-> NoFrame]]
  BY DEF Crash
<1>2. \A x, y \in Node :
          inbound'[x][y] = IF x = n THEN NoFrame ELSE inbound[x][y]
  BY <1>0, <1>1
<1>3. \A k \in Msg : NoFrame # [step |-> "touch", id |-> k]
  <2>1. NoFrame.step # "touch"
    BY Constants
  <2> QED BY <2>1
<1>4. Fresh' = {m \in Fresh : To[m] # n}
  BY <1>2, <1>3, Constants DEF Fresh
<1> QED BY <1>1, <1>4 DEF Promise!Forget, Shown, Sending, Kept

(* Every step of the messenger is one of a mailbox, or none.                *)
LEMMA MailStep ==
    ASSUME Truthful, [Next]_vars
    PROVE  Unseen \/ Promise!Next
<1>1. CASE UNCHANGED vars
  BY <1>1, StutterUnseen DEF vars
<1>2. ASSUME NEW a \in Attempt,
             \/ AttemptStep(a)
             \/ \E m \in Msg : SendText(a, m) \/ Resend(a, m)
      PROVE  Unseen \/ Promise!Next
  BY <1>2, SenderIsSeen DEF Promise!Next
<1>3. ASSUME NEW n \in Node, NEW p \in Node, ReadLoop(n, p)
      PROVE  Unseen \/ Promise!Next
  BY <1>3, ReadLoopIsSeen DEF Promise!Next
<1>4. ASSUME NEW n \in Node, NEW p \in Node, MarkRead(n, p)
      PROVE  Promise!Next
  <2>1. Promise!Read(n, p)
    BY <1>4 DEF MarkRead, Promise!Read, Shown, Sending, Kept, Fresh
  <2> QED BY <2>1 DEF Promise!Next
<1>5. ASSUME NEW n \in Node, NEW p \in Node, Connect(n, p) \/ CloseEnd(n, p)
      PROVE  Unseen
  BY <1>5, StutterUnseen DEF Connect, CloseEnd
<1>6. ASSUME NEW n \in Node, Crash(n) PROVE Promise!Next
  BY <1>6, CrashForgets DEF Promise!Next
<1> QED BY <1>1, <1>2, <1>3, <1>4, <1>5, <1>6 DEF Next

(* Resends, timeouts, crashes and connections that come and go do not show: *)
(* the messenger implements a mailbox that keeps what was sent, once, that  *)
(* counts each message it keeps at most once, and confirms no other.        *)
THEOREM MailboxCorrect == Spec => IsMailbox
<1>1. Init => Promise!Init
  <2> SUFFICES ASSUME Init PROVE Promise!Init
    OBVIOUS
  <2>1. Shown = [m \in Msg |-> "none"] /\ Kept = {}
    BY Constants DEF Init, Shown, Sending, Kept
  <2>2. Fresh = {}
    <3>1. \A k \in Msg : NoFrame # [step |-> "touch", id |-> k]
      <4>1. NoFrame.step # "touch"
        BY Constants
      <4> QED BY <4>1
    <3>2. \A k \in Msg : inbound[To[k]][From[k]] = NoFrame
      BY Constants DEF Init
    <3> QED BY <3>1, <3>2 DEF Fresh
  <2> QED BY <2>1, <2>2 DEF Init, Promise!Init
<1>2. Truthful /\ [Next]_vars => [Promise!Next]_(Promise!box)
  BY MailStep DEF Unseen, Promise!box
<1> QED BY <1>1, <1>2, TruthInit, TruthStep, PTL DEF Spec, IsMailbox, Promise!Spec
=============================================================================
