-------------------------- MODULE ChatQueueProofs --------------------------
(***************************************************************************)
(* ChatQueue for any number of messages, stops and failures, and a queue   *)
(* of any length: the variables keep their types, a parked message has an  *)
(* executor unless a message was sent past the queue, turns do not race    *)
(* before Stop is pressed, and what is taken is sent once and in order.    *)
(***************************************************************************)
EXTENDS ChatQueue, SequenceTheorems, TLAPS

-----------------------------------------------------------------------------
(* Types.                                                                   *)

(* The beginning of a turn keeps the types of what it changes.              *)
LEMMA BeginType ==
    ASSUME TypeOK, NEW m \in Message, NEW t \in [Message -> Phase], Begin(m, t)
    PROVE  sending' \in BOOLEAN /\ turn' \in [Message -> Phase]
           /\ begun' \in Seq(Message)
BY DEF TypeOK, Begin, Phase, LivePhase

(* So does the end of one, which takes a message out of the queue at most.  *)
LEMMA FinishType ==
    ASSUME TypeOK, NEW m \in Message, Finish(m)
    PROVE  sending' \in BOOLEAN /\ turn' \in [Message -> Phase]
           /\ begun' \in Seq(Message) /\ queue' \in Seq(Message \ Direct)
<1> DEFINE t == [turn EXCEPT ![m] = "over"]
<1>1. t \in [Message -> Phase]
  BY DEF TypeOK, Phase
<1>2. CASE m \notin Direct /\ queue # <<>>
  <2>1. Begin(Head(queue), t) /\ queue' = Tail(queue)
    BY <1>2 DEF Finish
  <2>2. Head(queue) \in Message \ Direct /\ Tail(queue) \in Seq(Message \ Direct)
    BY <1>2 DEF TypeOK
  <2> QED BY <2>1, <2>2, <1>1, BeginType DEF TypeOK
<1>3. CASE ~(m \notin Direct /\ queue # <<>>)
  <2>1. sending' = FALSE /\ turn' = t /\ UNCHANGED <<queue, begun>>
    BY <1>3 DEF Finish
  <2> QED BY <2>1, <1>1 DEF TypeOK
<1> QED BY <1>2, <1>3

(* Taking a message out leaves a queue of messages.                         *)
LEMMA WithoutType ==
    ASSUME NEW S, NEW s \in Seq(S), NEW i \in 1 .. Len(s)
    PROVE  Without(s, i) \in Seq(S)
<1>1. Len(s) \in Nat /\ \A j \in 1 .. Len(s) : s[j] \in S
  OBVIOUS
<1>2. Len(s) - 1 \in Nat
  BY <1>1
<1>3. \A j \in 1 .. Len(s) - 1 : (IF j < i THEN s[j] ELSE s[j + 1]) \in S
  BY <1>1
<1> QED BY <1>2, <1>3 DEF Without

(* Every step keeps the types.                                              *)
LEMMA TypeStep == TypeOK /\ [Next]_vars => TypeOK'
<1> SUFFICES ASSUME TypeOK, [Next]_vars PROVE TypeOK'
  OBVIOUS
<1>1. ASSUME NEW m \in Message, Enqueue(m) PROVE TypeOK'
  <2>1. CASE ~sending
    <3>1. Begin(m, turn) /\ accepted' = Append(accepted, m) /\ UNCHANGED queue
      BY <1>1, <2>1 DEF Enqueue
    <3>2. turn \in [Message -> Phase]
      BY DEF TypeOK
    <3> QED BY <1>1, <3>1, <3>2, BeginType DEF TypeOK, Enqueue
  <2>2. CASE sending
    <3>1. Park(m) /\ UNCHANGED <<sending, begun>>
      BY <1>1, <2>2 DEF Enqueue
    <3>2. queue' \in Seq(Message \ Direct) /\ accepted' \in Seq(Message)
          /\ turn' \in [Message -> Phase]
      <4>1. m \in Message \ Direct /\ queue \in Seq(Message \ Direct)
            /\ accepted \in Seq(Message)
        BY <1>1 DEF TypeOK, Enqueue
      <4>2. turn' \in [Message -> Phase]
        BY <3>1 DEF TypeOK, Park, Goto, Phase
      <4>3. queue' \in {queue, Append(queue, m)}
            /\ accepted' \in {accepted, Append(accepted, m)}
        BY <3>1 DEF Park
      <4>4. Append(queue, m) \in Seq(Message \ Direct)
            /\ Append(accepted, m) \in Seq(Message)
        BY <4>1
      <4> QED BY <4>1, <4>2, <4>3, <4>4
    <3> QED BY <1>1, <3>1, <3>2 DEF TypeOK, Enqueue
  <2> QED BY <2>1, <2>2 DEF TypeOK
<1>2. ASSUME NEW m \in Message, SendDirect(m) PROVE TypeOK'
  <2>1. turn \in [Message -> Phase]
    BY DEF TypeOK
  <2> QED BY <1>2, <2>1, BeginType DEF TypeOK, SendDirect
<1>3. ASSUME NEW m \in Message, Remove(m) PROVE TypeOK'
  <2>1. queue' \in Seq(Message \ Direct)
    BY <1>3, WithoutType DEF TypeOK, Remove
  <2> QED BY <1>3, <2>1 DEF TypeOK, Remove, Goto, Phase
<1>4. ASSUME NEW m \in Message, TurnStep(m) PROVE TypeOK'
  <2>1. CASE Answered(m)
    BY <2>1, FinishType DEF TypeOK, Answered
  <2>2. CASE FallbackEnds(m)
    BY <2>2, FinishType DEF TypeOK, FallbackEnds
  <2>3. CASE Refused(m)
    <3>1. CASE Finish(m)
      BY <2>3, <3>1, FinishType DEF TypeOK, Refused
    <3>2. CASE Goto(m, "fallback") /\ UNCHANGED <<sending, queue, begun>>
      BY <2>3, <3>2 DEF TypeOK, Refused, Goto, Phase, LivePhase
    <3> QED BY <2>3, <3>1, <3>2 DEF Refused
  <2>4. CASE Prepare(m) \/ StoreQuestion(m)
    BY <2>4 DEF TypeOK, Prepare, StoreQuestion, Goto, Fault, Phase, LivePhase
  <2>5. CASE Register(m)
    BY <2>5 DEF TypeOK, Register, Goto, Fault, Phase, LivePhase
  <2>6. CASE StreamEnds(m)
    BY <2>6 DEF TypeOK, StreamEnds, Goto, Phase, LivePhase
  <2>7. CASE StreamCancelled(m)
    BY <2>7 DEF TypeOK, StreamCancelled, Goto, Phase, LivePhase
  <2> QED BY <1>4, <2>1, <2>2, <2>3, <2>4, <2>5, <2>6, <2>7 DEF TurnStep
<1>5. CASE Stop \/ Delete
  <2>1. stopper' \in [{"stop", "delete"} -> Stopper]
    BY <1>5 DEF TypeOK, Stop, Delete, Stopper
  <2>2. stops' \in Nat
    BY <1>5 DEF TypeOK, Stop, Delete
  <2> QED BY <1>5, <2>1, <2>2 DEF TypeOK, Stop, Delete
<1>6. CASE StopStep
  <2>1. CASE Erase \/ Stopped
    BY <2>1 DEF TypeOK, Erase, Stopped, Stopper
  <2>2. CASE Deleted
    <3>1. turn' \in [Message -> Phase]
      BY <2>2 DEF TypeOK, Deleted, Phase
    <3> QED BY <2>2, <3>1 DEF TypeOK, Deleted
  <2>3. ASSUME NEW w \in {"stop", "delete"}, TakeHandle(w) PROVE TypeOK'
    BY <2>3 DEF TypeOK, TakeHandle, Stopper
  <2>4. ASSUME NEW w \in {"stop", "delete"}, Cancel(w) PROVE TypeOK'
    <3>1. stopper[w].hand \in Message \cup {None}
      BY DEF TypeOK, Stopper
    <3>2. cancelled' \subseteq Message
      BY <2>4, <3>1 DEF TypeOK, Cancel
    <3> QED BY <2>4, <3>2 DEF TypeOK, Cancel, Stopper
  <2> QED BY <1>6, <2>1, <2>2, <2>3, <2>4 DEF StopStep
<1>7. CASE UNCHANGED vars
  BY <1>7 DEF TypeOK, vars
<1> QED BY <1>1, <1>2, <1>3, <1>4, <1>5, <1>6, <1>7 DEF Next

(* The initial state has them.                                              *)
LEMMA TypeInit == Init => TypeOK
<1> SUFFICES ASSUME Init PROVE TypeOK
  OBVIOUS
<1>1. <<>> \in Seq(Message \ Direct) /\ <<>> \in Seq(Message)
  OBVIOUS
<1>2. turn \in [Message -> Phase]
  BY DEF Init, Phase
<1>3. stopper \in [{"stop", "delete"} -> Stopper]
  BY DEF Init, Stopper
<1> QED BY <1>1, <1>2, <1>3 DEF Init, TypeOK

(* The flags, the queue, the phases and the handles keep their types.       *)
THEOREM TypeCorrect == Spec => []TypeOK
BY TypeInit, TypeStep, PTL DEF Spec

-----------------------------------------------------------------------------
(* What the steps do.                                                       *)

(* A turn that goes on stays under way; only its own steps touch it, and    *)
(* the handle it leaves is its own or none.                                 *)
Advances(m) ==
    /\ \E p \in LivePhase :
         /\ Goto(m, p)
         /\ \/ p = "running" /\ runs' = m
            \/ p # "running" /\ runs' \in {runs, None}
    /\ turn[m] # "running" => UNCHANGED runs \/ runs' = m
    /\ UNCHANGED <<sending, queue, cancelled, stopper, stops, accepted, begun>>

(* The end of a turn, as the flag, the queue and the phases see it.         *)
Ends(m) ==
    /\ Finish(m)
    /\ UNCHANGED <<runs, cancelled, stopper, stops, accepted>>

LEMMA TurnEffect ==
    ASSUME NEW m \in Message, TurnStep(m)
    PROVE  Live(m) /\ (Advances(m) \/ Ends(m))
<1>1. CASE Prepare(m) \/ StoreQuestion(m)
  BY <1>1 DEF Prepare, StoreQuestion, Advances, Live, LivePhase
<1>2. CASE Register(m)
  BY <1>2 DEF Register, Advances, Live, LivePhase
<1>3. CASE StreamEnds(m) \/ StreamCancelled(m)
  BY <1>3 DEF StreamEnds, StreamCancelled, Advances, Live, LivePhase
<1>4. CASE Answered(m) \/ FallbackEnds(m)
  BY <1>4 DEF Answered, FallbackEnds, Ends, Live, LivePhase
<1>5. CASE Refused(m)
  BY <1>5 DEF Refused, Advances, Ends, Live, LivePhase
<1> QED BY <1>1, <1>2, <1>3, <1>4, <1>5 DEF TurnStep

(* The end of a turn begins at most one other, which is not new then.       *)
LEMMA FinishEffect ==
    ASSUME TypeOK, NEW m \in Message, Finish(m)
    PROVE  \/ \E n \in Message \ Direct :
                /\ sending'
                /\ \A x \in Message :
                     turn'[x] = IF x = n THEN "preparing"
                                ELSE IF x = m THEN "over" ELSE turn[x]
           \/ /\ m \in Direct \/ queue = <<>>
              /\ ~sending' /\ queue' = queue
              /\ \A x \in Message : turn'[x] = IF x = m THEN "over" ELSE turn[x]
<1> DEFINE t == [turn EXCEPT ![m] = "over"]
<1>1. t \in [Message -> Phase]
  BY DEF TypeOK, Phase
<1>2. CASE m \notin Direct /\ queue # <<>>
  <2>1. Begin(Head(queue), t)
    BY <1>2 DEF Finish
  <2>2. Head(queue) \in Message \ Direct
    BY <1>2 DEF TypeOK
  <2>3. \A x \in Message : t[x] = IF x = m THEN "over" ELSE turn[x]
    BY DEF TypeOK
  <2>4. sending' /\ turn' = [t EXCEPT ![Head(queue)] = "preparing"]
    BY <2>1 DEF Begin
  <2> HIDE DEF t
  <2>5. \A x \in Message : turn'[x] = IF x = Head(queue) THEN "preparing" ELSE t[x]
    BY <2>2, <2>4, <1>1
  <2> QED BY <1>2, <2>2, <2>3, <2>4, <2>5
<1>3. CASE ~(m \notin Direct /\ queue # <<>>)
  BY <1>3 DEF Finish, TypeOK
<1> QED BY <1>2, <1>3

-----------------------------------------------------------------------------
(* A parked message has an executor.                                        *)

(* While the flag is set a turn is under way: that is what lets a message   *)
(* be parked.                                                               *)
Driven ==
    /\ TypeOK
    /\ sending => \E m \in Message : Live(m)
    /\ QueueIsDriven

(* No message becomes new again, and those under way stay so but for the    *)
(* ends of their turns.                                                     *)
LEMMA DrivenStep == Driven /\ [Next]_vars => Driven'
<1> SUFFICES ASSUME Driven, [Next]_vars PROVE Driven'
  OBVIOUS
<1> USE DEF Driven
<1>0. TypeOK'
  BY TypeStep
<1>1. ASSUME NEW m \in Message, Enqueue(m) PROVE Driven'
  <2>1. CASE ~sending
    <3>1. turn' = [turn EXCEPT ![m] = "preparing"] /\ m \notin Direct
      BY <1>1, <2>1 DEF Enqueue, Begin
    <3>2. Live(m)'
      BY <3>1 DEF Live, LivePhase, TypeOK
    <3> QED BY <1>0, <3>1, <3>2 DEF QueueIsDriven
  <2>2. CASE sending
    <3>1. Park(m) /\ UNCHANGED sending /\ turn[m] = "new"
      BY <1>1, <2>2 DEF Enqueue
    <3>2. \A x \in Message : x # m => turn'[x] = turn[x]
      BY <3>1 DEF Park, Goto, TypeOK
    <3>3. PICK x \in Message : Live(x)
      BY <2>2
    <3>4. x # m /\ turn'[x] = turn[x]
      BY <3>1, <3>2, <3>3 DEF Live, LivePhase
    <3>5. Live(x)' /\ Sent(x)'
      BY <3>3, <3>4 DEF Live, Sent, LivePhase
    <3> QED BY <1>0, <3>5 DEF QueueIsDriven
  <2> QED BY <2>1, <2>2 DEF TypeOK
<1>2. ASSUME NEW m \in Message, SendDirect(m) PROVE Driven'
  <2>1. turn' = [turn EXCEPT ![m] = "preparing"] /\ m \in Direct
    BY <1>2 DEF SendDirect, Begin
  <2>2. Live(m)' /\ Sent(m)'
    BY <2>1 DEF Live, LivePhase, Sent, TypeOK
  <2> QED BY <1>0, <2>1, <2>2 DEF QueueIsDriven
<1>3. ASSUME NEW m \in Message, Remove(m) PROVE Driven'
  <2>1. turn[m] = "parked" /\ turn' = [turn EXCEPT ![m] = "removed"]
        /\ UNCHANGED sending /\ queue # <<>>
    BY <1>3 DEF Remove, Goto, TypeOK
  <2>2. \A x \in Message : (Live(x) => Live(x)') /\ (Sent(x) => Sent(x)')
    BY <2>1 DEF Live, LivePhase, Sent, TypeOK
  <2> QED BY <1>0, <2>1, <2>2, ChatAssumption DEF QueueIsDriven, ChatAssumption
<1>4. ASSUME NEW m \in Message, TurnStep(m) PROVE Driven'
  <2>1. CASE Advances(m)
    <3>1. PICK p \in LivePhase : Goto(m, p)
      BY <2>1 DEF Advances
    <3>2. \A x \in Message : (Live(x) => Live(x)') /\ (Sent(x) => Sent(x)')
      BY <3>1 DEF Goto, Live, LivePhase, Sent, TypeOK
    <3> QED BY <1>0, <2>1, <3>2, ChatAssumption
            DEF Advances, QueueIsDriven, ChatAssumption
  <2>2. CASE Ends(m)
    <3>1. Finish(m)
      BY <2>2 DEF Ends
    <3>2. ASSUME NEW n \in Message \ Direct, sending',
                 \A x \in Message :
                    turn'[x] = IF x = n THEN "preparing"
                               ELSE IF x = m THEN "over" ELSE turn[x]
          PROVE  Driven'
      <4>1. Live(n)'
        BY <3>2 DEF Live, LivePhase
      <4> QED BY <1>0, <4>1 DEF QueueIsDriven
    <3>3. CASE /\ m \in Direct \/ queue = <<>>
               /\ ~sending' /\ queue' = queue
               /\ \A x \in Message : turn'[x] = IF x = m THEN "over" ELSE turn[x]
      <4>1. Sent(m)'
        BY <3>3 DEF Sent
      <4> QED BY <1>0, <3>3, <4>1 DEF QueueIsDriven
    <3> QED BY <3>1, <3>2, <3>3, FinishEffect
  <2> QED BY <1>4, <2>1, <2>2, TurnEffect
<1>5. CASE Deleted
  <2>1. \A x \in Message : Live(x) => Live(x)'
    BY <1>5 DEF Deleted, Live, LivePhase, TypeOK
  <2> QED BY <1>0, <1>5, <2>1 DEF Deleted, QueueIsDriven
<1>6. CASE Stopped
  BY <1>0, <1>6 DEF Stopped, QueueIsDriven, Live, Sent
<1>7. CASE UNCHANGED <<sending, queue, turn>>
  BY <1>0, <1>7 DEF QueueIsDriven, Live, Sent
<1>8. CASE Stop \/ Delete \/ Erase \/ UNCHANGED vars
  BY <1>7, <1>8 DEF Stop, Delete, Erase, vars
<1>9. ASSUME NEW w \in {"stop", "delete"}, TakeHandle(w) \/ Cancel(w) PROVE Driven'
  BY <1>7, <1>9 DEF TakeHandle, Cancel
<1> QED BY <1>1, <1>2, <1>3, <1>4, <1>5, <1>6, <1>8, <1>9 DEF Next, StopStep

(* A failed turn strands nothing behind it.                                 *)
THEOREM QueueCorrect == Spec => []QueueIsDriven
<1>1. Init => Driven
  <2>1. Init => TypeOK
    BY TypeInit
  <2> QED BY <2>1 DEF Init, Driven, QueueIsDriven
<1>2. Driven => QueueIsDriven
  BY DEF Driven
<1> QED BY <1>1, <1>2, DrivenStep, PTL DEF Spec

-----------------------------------------------------------------------------
(* Turns do not race.                                                       *)

(* Stop has done nothing before it was pressed, and a stop holds a handle   *)
(* only between taking it and ending its turn.                              *)
StopIsIdle == stops = 0 => stopper["stop"].at = "idle"
HandIsTaken == \A w \in {"stop", "delete"} : stopper[w].at # "taken" => stopper[w].hand = None

(* The three parts of TurnsDoNotRace.                                       *)
OneTurn == \A m, n \in Message : Live(m) /\ Live(n) => m = n
FlagIsSet == \A m \in Message : Live(m) => sending
CanBeStopped ==
    \A m \in Message : turn[m] = "running" /\ m \notin cancelled =>
        runs = m \/ stopper["delete"].hand = m

Ordered ==
    /\ TypeOK /\ StopIsIdle /\ HandIsTaken
    /\ Calm => OneTurn /\ FlagIsSet /\ CanBeStopped

(* Only the stops change their own calls.                                   *)
LEMMA StopperStep == TypeOK /\ StopIsIdle /\ HandIsTaken /\ [Next]_vars
                     => StopIsIdle' /\ HandIsTaken'
<1> SUFFICES ASSUME TypeOK, StopIsIdle, HandIsTaken, [Next]_vars
             PROVE  StopIsIdle' /\ HandIsTaken'
  OBVIOUS
<1>1. CASE UNCHANGED <<stopper, stops>>
  BY <1>1 DEF StopIsIdle, HandIsTaken
<1>2. ASSUME NEW m \in Message, Enqueue(m) \/ SendDirect(m) \/ Remove(m)
      PROVE  StopIsIdle' /\ HandIsTaken'
  BY <1>1, <1>2 DEF Enqueue, SendDirect, Remove
<1>3. ASSUME NEW m \in Message, TurnStep(m) PROVE StopIsIdle' /\ HandIsTaken'
  BY <1>1, <1>3, TurnEffect DEF Advances, Ends
<1>4. CASE Stop
  BY <1>4 DEF Stop, StopIsIdle, HandIsTaken, TypeOK, Stopper
<1>5. CASE Delete \/ Erase
  BY <1>5 DEF Delete, Erase, StopIsIdle, HandIsTaken, TypeOK, Stopper
<1>6. CASE Stopped
  BY <1>6 DEF Stopped, StopIsIdle, HandIsTaken, TypeOK, Stopper
<1>7. CASE Deleted \/ UNCHANGED vars
  BY <1>1, <1>7 DEF Deleted, vars
<1>8. ASSUME NEW w \in {"stop", "delete"}, TakeHandle(w)
      PROVE  StopIsIdle' /\ HandIsTaken'
  BY <1>8 DEF TakeHandle, StopIsIdle, HandIsTaken, TypeOK, Stopper
<1>9. ASSUME NEW w \in {"stop", "delete"}, Cancel(w)
      PROVE  StopIsIdle' /\ HandIsTaken'
  BY <1>9 DEF Cancel, StopIsIdle, HandIsTaken, TypeOK, Stopper
<1> QED BY <1>2, <1>3, <1>4, <1>5, <1>6, <1>7, <1>8, <1>9 DEF Next, StopStep

(* A message that was sent stays so, and presses of Stop are not taken back. *)
LEMMA CalmBefore == TypeOK /\ [Next]_vars /\ Calm' => Calm
<1> SUFFICES ASSUME TypeOK, [Next]_vars PROVE Calm' => Calm
  OBVIOUS
<1>1. ASSUME \A x \in Message : Sent(x) => Sent(x)', stops' = stops
      PROVE  Calm' => Calm
  BY <1>1, ChatAssumption DEF Calm, ChatAssumption
<1>2. ASSUME UNCHANGED <<turn, stops>> PROVE Calm' => Calm
  BY <1>1, <1>2 DEF Sent
<1>3. ASSUME NEW m \in Message, Enqueue(m) \/ SendDirect(m) \/ Remove(m)
      PROVE  Calm' => Calm
  <2>1. turn' \in {[turn EXCEPT ![m] = p] : p \in {"preparing", "parked", "rejected", "removed"}}
    BY <1>3 DEF Enqueue, SendDirect, Remove, Begin, Park, Goto
  <2>2. \A x \in Message : Sent(x) => Sent(x)'
    BY <2>1 DEF Sent, TypeOK
  <2>3. stops' = stops
    BY <1>3 DEF Enqueue, SendDirect, Remove
  <2> QED BY <1>1, <2>2, <2>3
<1>4. ASSUME NEW m \in Message, TurnStep(m) PROVE Calm' => Calm
  <2>1. stops' = stops
    BY <1>4, TurnEffect DEF Advances, Ends
  <2>2. CASE Advances(m)
    <3>1. PICK p \in LivePhase : Goto(m, p)
      BY <2>2 DEF Advances
    <3>2. \A x \in Message : Sent(x) => Sent(x)'
      BY <3>1 DEF Goto, LivePhase, Sent, TypeOK
    <3> QED BY <1>1, <2>1, <3>2
  <2>3. CASE Ends(m)
    <3>1. \A x \in Message : Sent(x) => Sent(x)'
      BY <2>3, FinishEffect DEF Ends, Sent
    <3> QED BY <1>1, <2>1, <3>1
  <2> QED BY <1>4, <2>2, <2>3, TurnEffect
<1>5. CASE Stop
  BY <1>5 DEF Stop, Calm, TypeOK
<1>6. CASE Deleted
  <2>1. \A x \in Message : Sent(x) => Sent(x)'
    BY <1>6 DEF Deleted, Sent, TypeOK
  <2> QED BY <1>1, <1>6, <2>1 DEF Deleted
<1>7. CASE Delete \/ Erase \/ Stopped \/ UNCHANGED vars
  BY <1>2, <1>7 DEF Delete, Erase, Stopped, vars
<1>8. ASSUME NEW w \in {"stop", "delete"}, TakeHandle(w) \/ Cancel(w)
      PROVE  Calm' => Calm
  BY <1>2, <1>8 DEF TakeHandle, Cancel
<1> QED BY <1>3, <1>4, <1>5, <1>6, <1>7, <1>8 DEF Next, StopStep

(* Every step before Stop is pressed keeps the turns apart.                 *)
LEMMA OrderedStep == Ordered /\ [Next]_vars => Ordered'
<1> SUFFICES ASSUME Ordered, [Next]_vars, Calm'
             PROVE  OneTurn' /\ FlagIsSet' /\ CanBeStopped'
  BY TypeStep, StopperStep DEF Ordered
<1>0. /\ Calm /\ TypeOK /\ StopIsIdle /\ HandIsTaken
      /\ OneTurn /\ FlagIsSet /\ CanBeStopped
  BY CalmBefore DEF Ordered
<1>1. stopper["stop"].at = "idle"
  BY <1>0 DEF StopIsIdle, Calm
<1>2. ASSUME UNCHANGED <<sending, turn, runs, cancelled, stopper>>
      PROVE  OneTurn' /\ FlagIsSet' /\ CanBeStopped'
  BY <1>0, <1>2 DEF OneTurn, FlagIsSet, CanBeStopped, Live
<1>3. ASSUME NEW m \in Message, Enqueue(m)
      PROVE  OneTurn' /\ FlagIsSet' /\ CanBeStopped'
  <2>1. UNCHANGED <<runs, cancelled, stopper>> /\ turn[m] = "new"
    BY <1>3 DEF Enqueue
  <2>2. CASE ~sending
    <3>1. turn' = [turn EXCEPT ![m] = "preparing"] /\ sending' = TRUE
      BY <1>3, <2>2 DEF Enqueue, Begin
    <3>2. \A x \in Message : ~Live(x)
      BY <1>0, <2>2 DEF FlagIsSet
    <3>3. \A x \in Message : x # m => turn'[x] = turn[x]
      BY <3>1, <1>0 DEF TypeOK
    <3>4. \A x \in Message : Live(x)' => x = m
      BY <3>2, <3>3 DEF Live
    <3>5. turn'[m] = "preparing"
      BY <3>1, <1>0 DEF TypeOK
    <3>6. \A x \in Message : turn'[x] = "running" => Live(x)'
      BY DEF Live, LivePhase
    <3> QED BY <3>1, <3>4, <3>5, <3>6 DEF OneTurn, FlagIsSet, CanBeStopped
  <2>3. CASE sending
    <3>1. turn' \in {[turn EXCEPT ![m] = p] : p \in {"parked", "rejected"}}
          /\ sending' = sending
      BY <1>3, <2>3 DEF Enqueue, Park, Goto
    <3>2. \A x \in Message : turn'[x] = turn[x] \/ turn'[x] \in {"parked", "rejected"}
      BY <3>1, <1>0 DEF TypeOK
    <3>3. \A x \in Message : Live(x)' => Live(x)
      BY <3>2 DEF Live, LivePhase
    <3> QED BY <2>1, <3>1, <3>2, <3>3, <1>0 DEF OneTurn, FlagIsSet, CanBeStopped
  <2> QED BY <2>2, <2>3, <1>0 DEF TypeOK
<1>4. ASSUME NEW m \in Message, SendDirect(m) PROVE FALSE
  <2>1. turn'[m] = "preparing" /\ m \in Direct
    BY <1>4, <1>0 DEF SendDirect, Begin, TypeOK
  <2> QED BY <2>1 DEF Calm, Sent
<1>5. ASSUME NEW m \in Message, Remove(m)
      PROVE  OneTurn' /\ FlagIsSet' /\ CanBeStopped'
  <2>1. UNCHANGED <<sending, runs, cancelled, stopper>>
        /\ turn' = [turn EXCEPT ![m] = "removed"]
    BY <1>5 DEF Remove, Goto
  <2>2. \A x \in Message : turn'[x] = turn[x] \/ turn'[x] = "removed"
    BY <2>1, <1>0 DEF TypeOK
  <2>3. \A x \in Message : Live(x)' => Live(x)
    BY <2>2 DEF Live, LivePhase
  <2> QED BY <2>1, <2>2, <2>3, <1>0 DEF OneTurn, FlagIsSet, CanBeStopped
<1>6. ASSUME NEW m \in Message, TurnStep(m)
      PROVE  OneTurn' /\ FlagIsSet' /\ CanBeStopped'
  <2>0. Live(m) /\ \A x \in Message : x # m => ~Live(x)
    BY <1>6, <1>0, TurnEffect DEF OneTurn
  <2>1. CASE Advances(m)
    <3>1. PICK p \in LivePhase :
            /\ Goto(m, p)
            /\ \/ p = "running" /\ runs' = m
               \/ p # "running" /\ runs' \in {runs, None}
      BY <2>1 DEF Advances
    <3>2. turn'[m] = p /\ \A x \in Message : x # m => turn'[x] = turn[x]
      BY <3>1, <1>0 DEF Goto, TypeOK
    <3>3. \A x \in Message : Live(x)' => x = m
      BY <2>0, <3>2 DEF Live
    <3>4. \A x \in Message : turn'[x] = "running" => x = m /\ runs' = m
      BY <3>1, <3>2, <3>3 DEF Live, LivePhase
    <3>5. sending /\ sending' = sending
      BY <2>0, <2>1, <1>0 DEF FlagIsSet, Advances
    <3> QED BY <3>3, <3>4, <3>5 DEF OneTurn, FlagIsSet, CanBeStopped
  <2>2. CASE Ends(m)
    <3>1. Finish(m)
      BY <2>2 DEF Ends
    <3>2. ASSUME NEW n \in Message \ Direct, sending',
                 \A x \in Message :
                    turn'[x] = IF x = n THEN "preparing"
                               ELSE IF x = m THEN "over" ELSE turn[x]
          PROVE  OneTurn' /\ FlagIsSet' /\ CanBeStopped'
      <4>1. \A x \in Message : Live(x)' => x = n
        BY <2>0, <3>2 DEF Live, LivePhase
      <4>2. \A x \in Message : turn'[x] # "running"
        BY <2>0, <3>2 DEF Live, LivePhase
      <4> QED BY <3>2, <4>1, <4>2 DEF OneTurn, FlagIsSet, CanBeStopped
    <3>3. ASSUME \A x \in Message : turn'[x] = IF x = m THEN "over" ELSE turn[x]
          PROVE  OneTurn' /\ FlagIsSet' /\ CanBeStopped'
      <4>1. \A x \in Message : ~Live(x)'
        BY <2>0, <3>3 DEF Live, LivePhase
      <4>2. \A x \in Message : turn'[x] # "running"
        BY <4>1 DEF Live, LivePhase
      <4> QED BY <4>1, <4>2 DEF OneTurn, FlagIsSet, CanBeStopped
    <3> QED BY <3>1, <3>2, <3>3, <1>0, FinishEffect
  <2> QED BY <1>6, <2>1, <2>2, TurnEffect
<1>7. CASE Stop
  BY <1>0, <1>7 DEF Stop, Calm
<1>8. CASE Stopped
  BY <1>1, <1>8 DEF Stopped
<1>9. CASE Delete \/ Erase
  <2>1. stopper'["delete"].hand = stopper["delete"].hand
        /\ UNCHANGED <<sending, turn, runs, cancelled>>
    BY <1>0, <1>9 DEF Delete, Erase, TypeOK, Stopper
  <2> QED BY <2>1, <1>0 DEF OneTurn, FlagIsSet, CanBeStopped, Live
<1>10. CASE Deleted
  <2>1. UNCHANGED <<sending, runs, cancelled, stopper>>
        /\ \A x \in Message : turn'[x] = turn[x] \/ turn'[x] = "removed"
    BY <1>0, <1>10 DEF Deleted, TypeOK
  <2>2. \A x \in Message : Live(x)' => Live(x)
    BY <2>1 DEF Live, LivePhase
  <2> QED BY <2>1, <2>2, <1>0 DEF OneTurn, FlagIsSet, CanBeStopped
<1>11. ASSUME NEW w \in {"stop", "delete"}, TakeHandle(w)
       PROVE  OneTurn' /\ FlagIsSet' /\ CanBeStopped'
  <2>1. w = "delete" /\ stopper["delete"].at = "asked"
    BY <1>1, <1>11 DEF TakeHandle
  <2>2. stopper["delete"].hand = None
    BY <1>0, <2>1 DEF HandIsTaken
  <2>3. stopper'["delete"].hand = runs /\ UNCHANGED <<sending, turn, cancelled>>
    BY <1>0, <1>11, <2>1 DEF TakeHandle, TypeOK
  <2>4. None \notin Message
    BY ChatAssumption DEF ChatAssumption
  <2> QED BY <2>2, <2>3, <2>4, <1>0 DEF OneTurn, FlagIsSet, CanBeStopped, Live
<1>12. ASSUME NEW w \in {"stop", "delete"}, Cancel(w)
       PROVE  OneTurn' /\ FlagIsSet' /\ CanBeStopped'
  <2>1. w = "delete" /\ stopper["delete"].at = "taken"
    BY <1>1, <1>12 DEF Cancel
  <2>2. cancelled' = cancelled \cup ({stopper["delete"].hand} \ {None})
        /\ UNCHANGED <<sending, turn, runs>>
    BY <1>12, <2>1 DEF Cancel
  <2>3. None \notin Message
    BY ChatAssumption DEF ChatAssumption
  <2> QED BY <2>2, <2>3, <1>0 DEF OneTurn, FlagIsSet, CanBeStopped, Live
<1>13. CASE UNCHANGED vars
  BY <1>2, <1>13 DEF vars
<1> QED BY <1>3, <1>4, <1>5, <1>6, <1>7, <1>8, <1>9, <1>10, <1>11, <1>12, <1>13
        DEF Next, StopStep

(* Until Stop is pressed one turn is under way at a time, the flag says so, *)
(* and a turn that answers can be stopped.                                  *)
THEOREM TurnsCorrect == Spec => []TurnsDoNotRace
<1>1. Init => Ordered
  <2> SUFFICES ASSUME Init PROVE Ordered
    OBVIOUS
  <2>1. TypeOK
    BY TypeInit
  <2>2. \A m \in Message : turn[m] = "new"
    BY DEF Init
  <2>3. \A m \in Message : ~Live(m) /\ turn[m] # "running"
    BY <2>2 DEF Live, LivePhase
  <2>4. StopIsIdle /\ HandIsTaken
    BY DEF Init, StopIsIdle, HandIsTaken
  <2> QED BY <2>1, <2>3, <2>4 DEF Ordered, OneTurn, FlagIsSet, CanBeStopped
<1>2. Ordered => TurnsDoNotRace
  BY DEF Ordered, TurnsDoNotRace, OneTurn, FlagIsSet, CanBeStopped
<1> QED BY <1>1, <1>2, OrderedStep, PTL DEF Spec

-----------------------------------------------------------------------------
(* What is taken is sent once: lemmas about sequences.                      *)

(* A new element at the end.                                                *)
LEMMA AppendElements ==
    ASSUME NEW S, NEW s \in Seq(S), NEW e \in S
    PROVE  /\ Elements(Append(s, e)) = Elements(s) \cup {e}
           /\ NoneTwice(s) /\ e \notin Elements(s) => NoneTwice(Append(s, e))
<1>1. /\ Len(s) \in Nat /\ Len(Append(s, e)) = Len(s) + 1
      /\ \A i \in 1 .. Len(s) : Append(s, e)[i] = s[i]
      /\ Append(s, e)[Len(s) + 1] = e
  BY AppendProperties
<1>2. 1 .. (Len(s) + 1) = (1 .. Len(s)) \cup {Len(s) + 1}
  BY <1>1
<1>3. Elements(Append(s, e)) = Elements(s) \cup {e}
  BY <1>1, <1>2 DEF Elements
<1>4. ASSUME NoneTwice(s), e \notin Elements(s) PROVE NoneTwice(Append(s, e))
  BY <1>1, <1>2, <1>4 DEF NoneTwice, Elements
<1> QED BY <1>3, <1>4

(* s without its k-th element.                                              *)
Lacks(w, s, k) ==
    /\ Len(w) = Len(s) - 1
    /\ \A j \in 1 .. Len(s) - 1 : w[j] = IF j < k THEN s[j] ELSE s[j + 1]

LEMMA WithoutLacks ==
    ASSUME NEW S, NEW s \in Seq(S), NEW k \in 1 .. Len(s)
    PROVE  Lacks(Without(s, k), s, k)
<1>1. Len(s) \in Nat /\ Len(s) > 0
  OBVIOUS
<1> QED BY <1>1 DEF Without, Lacks

LEMMA TailLacks ==
    ASSUME NEW S, NEW s \in Seq(S), s # <<>>
    PROVE  Lacks(Tail(s), s, 1) /\ 1 \in 1 .. Len(s) /\ Head(s) = s[1]
<1>1. Len(s) \in Nat /\ Len(s) > 0
  OBVIOUS
<1>2. Len(Tail(s)) = Len(s) - 1 /\ \A i \in 1 .. Len(Tail(s)) : Tail(s)[i] = s[i + 1]
  BY HeadTailProperties
<1>3. \A i \in 1 .. Len(s) - 1 : ~(i < 1)
  BY <1>1
<1> QED BY <1>1, <1>2, <1>3 DEF Lacks

(* What is left is all but that element, still once.                        *)
LEMMA LackingElements ==
    ASSUME NEW S, NEW s \in Seq(S), NEW k \in 1 .. Len(s), NEW w \in Seq(S),
           Lacks(w, s, k), NoneTwice(s)
    PROVE  /\ Elements(w) = Elements(s) \ {s[k]}
           /\ NoneTwice(w)
<1>1. Len(s) \in Nat /\ Len(s) > 0 /\ k \in Nat
  OBVIOUS
<1>2. Len(w) = Len(s) - 1
  BY DEF Lacks
<1>3. \A j \in 1 .. Len(s) - 1 : w[j] = IF j < k THEN s[j] ELSE s[j + 1]
  BY DEF Lacks
<1>4. Elements(w) \subseteq Elements(s) \ {s[k]}
  <2> SUFFICES ASSUME NEW j \in 1 .. Len(s) - 1
               PROVE  w[j] \in Elements(s) /\ w[j] # s[k]
    BY <1>2 DEF Elements
  <2>1. CASE j < k
    <3>1. w[j] = s[j] /\ j \in 1 .. Len(s) /\ j # k
      BY <1>1, <1>3, <2>1
    <3> QED BY <3>1 DEF Elements, NoneTwice
  <2>2. CASE ~(j < k)
    <3>1. w[j] = s[j + 1] /\ j + 1 \in 1 .. Len(s) /\ j + 1 # k
      BY <1>1, <1>3, <2>2
    <3> QED BY <3>1 DEF Elements, NoneTwice
  <2> QED BY <2>1, <2>2
<1>5. Elements(s) \ {s[k]} \subseteq Elements(w)
  <2> SUFFICES ASSUME NEW j \in 1 .. Len(s), j # k PROVE s[j] \in Elements(w)
    BY DEF Elements
  <2>1. CASE j < k
    <3>1. w[j] = s[j] /\ j \in 1 .. Len(w)
      BY <1>1, <1>2, <1>3, <2>1
    <3> QED BY <3>1 DEF Elements
  <2>2. CASE ~(j < k)
    <3>1. j - 1 \in 1 .. Len(s) - 1 /\ ~(j - 1 < k) /\ (j - 1) + 1 = j
      BY <1>1, <2>2
    <3>2. w[j - 1] = s[j]
      BY <1>3, <3>1
    <3> QED BY <1>2, <3>1, <3>2 DEF Elements
  <2> QED BY <2>1, <2>2
<1>6. NoneTwice(w)
  <2> SUFFICES ASSUME NEW i \in 1 .. Len(s) - 1, NEW j \in 1 .. Len(s) - 1,
                      w[i] = w[j]
               PROVE  i = j
    BY <1>2 DEF NoneTwice
  <2> DEFINE f(x) == IF x < k THEN x ELSE x + 1
  <2>1. w[i] = s[f(i)] /\ w[j] = s[f(j)]
    BY <1>3
  <2>2. f(i) \in 1 .. Len(s) /\ f(j) \in 1 .. Len(s)
    BY <1>1
  <2>3. f(i) = f(j)
    <3> HIDE DEF f
    <3> QED BY <2>1, <2>2 DEF NoneTwice
  <2> QED BY <1>1, <2>3
<1> QED BY <1>4, <1>5, <1>6

(* What is left keeps its order, and comes after the head when that is what *)
(* was taken out.                                                           *)
LEMMA LackingOrder ==
    ASSUME NEW S, NEW s \in Seq(S), NEW k \in 1 .. Len(s), NEW w \in Seq(S),
           Lacks(w, s, k), NEW all, InOrderOf(s, all)
    PROVE  /\ InOrderOf(w, all)
           /\ k = 1 => \A x \in Elements(w) : Before(all, s[1], x)
<1>1. Len(s) \in Nat /\ Len(s) > 0 /\ k \in Nat
  OBVIOUS
<1>2. Len(w) = Len(s) - 1
      /\ \A j \in 1 .. Len(s) - 1 : w[j] = IF j < k THEN s[j] ELSE s[j + 1]
  BY DEF Lacks
<1>3. ASSUME NEW i \in 1 .. Len(w), NEW j \in 1 .. Len(w), i < j
      PROVE  Before(all, w[i], w[j])
  <2> DEFINE f(x) == IF x < k THEN x ELSE x + 1
  <2>1. w[i] = s[f(i)] /\ w[j] = s[f(j)]
    BY <1>2
  <2>2. f(i) \in 1 .. Len(s) /\ f(j) \in 1 .. Len(s) /\ f(i) < f(j)
    BY <1>1, <1>2, <1>3
  <2> HIDE DEF f
  <2> QED BY <2>1, <2>2 DEF InOrderOf
<1>4. ASSUME k = 1, NEW j \in 1 .. Len(w) PROVE Before(all, s[1], w[j])
  <2>1. w[j] = s[j + 1] /\ 1 \in 1 .. Len(s) /\ j + 1 \in 1 .. Len(s) /\ 1 < j + 1
    BY <1>1, <1>2, <1>4
  <2> QED BY <2>1 DEF InOrderOf
<1> QED BY <1>3, <1>4 DEF InOrderOf, Elements

(* What came before another element still does when one more is taken, and  *)
(* everything comes before that one.                                        *)
LEMMA AppendBefore ==
    ASSUME NEW S, NEW s \in Seq(S), NEW e \in S
    PROVE  /\ \A x, y \in S : Before(s, x, y) => Before(Append(s, e), x, y)
           /\ \A x \in Elements(s) : Before(Append(s, e), x, e)
<1>1. /\ Len(s) \in Nat /\ Len(Append(s, e)) = Len(s) + 1
      /\ \A i \in 1 .. Len(s) : Append(s, e)[i] = s[i]
      /\ Append(s, e)[Len(s) + 1] = e
  BY AppendProperties
<1>2. \A i \in 1 .. Len(s) : i \in 1 .. (Len(s) + 1) /\ i < Len(s) + 1
  BY <1>1
<1>3. Len(s) + 1 \in 1 .. (Len(s) + 1)
  BY <1>1
<1>4. ASSUME NEW x \in S, NEW y \in S, Before(s, x, y)
      PROVE  Before(Append(s, e), x, y)
  BY <1>1, <1>2, <1>4 DEF Before
<1>5. ASSUME NEW i \in 1 .. Len(s) PROVE Before(Append(s, e), s[i], e)
  BY <1>1, <1>2, <1>3 DEF Before
<1> QED BY <1>4, <1>5 DEF Elements

(* Sequences in order stay so when what is taken in grows.                  *)
LEMMA OrderGrows ==
    ASSUME NEW S, NEW all \in Seq(S), NEW e \in S, NEW s \in Seq(S),
           InOrderOf(s, all)
    PROVE  InOrderOf(s, Append(all, e))
<1>1. \A i \in 1 .. Len(s) : s[i] \in S
  OBVIOUS
<1> QED BY <1>1, AppendBefore DEF InOrderOf

(* One more element at the end, which comes after all the others.           *)
LEMMA OrderAppends ==
    ASSUME NEW S, NEW all, NEW s \in Seq(S), NEW e \in S, InOrderOf(s, all),
           \A x \in Elements(s) : Before(all, x, e)
    PROVE  InOrderOf(Append(s, e), all)
<1>1. /\ Len(s) \in Nat /\ Len(Append(s, e)) = Len(s) + 1
      /\ \A i \in 1 .. Len(s) : Append(s, e)[i] = s[i]
      /\ Append(s, e)[Len(s) + 1] = e
  BY AppendProperties
<1> SUFFICES ASSUME NEW i \in 1 .. (Len(s) + 1), NEW j \in 1 .. (Len(s) + 1), i < j
             PROVE  Before(all, Append(s, e)[i], Append(s, e)[j])
  BY <1>1 DEF InOrderOf
<1>2. i \in 1 .. Len(s)
  BY <1>1
<1>3. CASE j = Len(s) + 1
  BY <1>1, <1>2, <1>3 DEF Elements
<1>4. CASE j # Len(s) + 1
  <2>1. j \in 1 .. Len(s)
    BY <1>1, <1>4
  <2> QED BY <1>1, <1>2, <2>1 DEF InOrderOf
<1> QED BY <1>3, <1>4

(* Two sequences one after the other.                                       *)
LEMMA ConcatElements ==
    ASSUME NEW S, NEW s \in Seq(S), NEW t \in Seq(S)
    PROVE  /\ Elements(s \o t) = Elements(s) \cup Elements(t)
           /\ NoneTwice(s) /\ NoneTwice(t) /\ Elements(s) \cap Elements(t) = {}
              => NoneTwice(s \o t)
           /\ \A all : /\ InOrderOf(s, all) /\ InOrderOf(t, all)
                       /\ \A x \in Elements(s), y \in Elements(t) : Before(all, x, y)
                       => InOrderOf(s \o t, all)
<1> DEFINE u == s \o t
<1>1. /\ Len(s) \in Nat /\ Len(t) \in Nat /\ Len(u) = Len(s) + Len(t)
      /\ \A i \in 1 .. Len(s) + Len(t) :
           u[i] = IF i <= Len(s) THEN s[i] ELSE t[i - Len(s)]
  BY ConcatProperties
<1> HIDE DEF u
<1>2. \A i \in 1 .. Len(s) : i \in 1 .. Len(u) /\ u[i] = s[i]
  BY <1>1
<1>3. \A i \in 1 .. Len(t) : Len(s) + i \in 1 .. Len(u) /\ u[Len(s) + i] = t[i]
  BY <1>1
<1>4. \A i \in 1 .. Len(u) : \/ i \in 1 .. Len(s)
                             \/ i - Len(s) \in 1 .. Len(t) /\ i = Len(s) + (i - Len(s))
  BY <1>1
<1>5. \A i \in 1 .. Len(u) : \/ i \in 1 .. Len(s) /\ u[i] = s[i]
                             \/ i - Len(s) \in 1 .. Len(t) /\ u[i] = t[i - Len(s)]
  BY <1>1, <1>2, <1>3, <1>4
<1>6. Elements(u) = Elements(s) \cup Elements(t)
  <2>1. Elements(s) \subseteq Elements(u)
    BY <1>2 DEF Elements
  <2>2. Elements(t) \subseteq Elements(u)
    BY <1>3 DEF Elements
  <2>3. Elements(u) \subseteq Elements(s) \cup Elements(t)
    BY <1>5 DEF Elements
  <2> QED BY <2>1, <2>2, <2>3
<1>7. ASSUME NoneTwice(s), NoneTwice(t), Elements(s) \cap Elements(t) = {},
             NEW i \in 1 .. Len(u), NEW j \in 1 .. Len(u), u[i] = u[j]
      PROVE  i = j
  <2>1. CASE i \in 1 .. Len(s) /\ j \in 1 .. Len(s)
    BY <1>2, <1>7, <2>1 DEF NoneTwice
  <2>2. CASE i - Len(s) \in 1 .. Len(t) /\ j - Len(s) \in 1 .. Len(t)
    <3>1. t[i - Len(s)] = t[j - Len(s)]
      BY <1>1, <1>7, <2>2
    <3>2. i - Len(s) = j - Len(s)
      BY <3>1, <2>2, <1>7 DEF NoneTwice
    <3> QED BY <3>2, <1>1
  <2>3. CASE i \in 1 .. Len(s) /\ j - Len(s) \in 1 .. Len(t)
    <3>1. u[i] = s[i] /\ u[j] = t[j - Len(s)]
      BY <1>1, <2>3
    <3> QED BY <3>1, <2>3, <1>7 DEF Elements
  <2>4. CASE j \in 1 .. Len(s) /\ i - Len(s) \in 1 .. Len(t)
    <3>1. u[j] = s[j] /\ u[i] = t[i - Len(s)]
      BY <1>1, <2>4
    <3> QED BY <3>1, <2>4, <1>7 DEF Elements
  <2> QED BY <1>4, <2>1, <2>2, <2>3, <2>4
<1>8. ASSUME NEW all, InOrderOf(s, all), InOrderOf(t, all),
             \A x \in Elements(s), y \in Elements(t) : Before(all, x, y),
             NEW i \in 1 .. Len(u), NEW j \in 1 .. Len(u), i < j
      PROVE  Before(all, u[i], u[j])
  <2>1. CASE i \in 1 .. Len(s) /\ j \in 1 .. Len(s)
    BY <1>2, <1>8, <2>1 DEF InOrderOf
  <2>2. CASE i - Len(s) \in 1 .. Len(t) /\ j - Len(s) \in 1 .. Len(t)
    <3>1. u[i] = t[i - Len(s)] /\ u[j] = t[j - Len(s)] /\ i - Len(s) < j - Len(s)
      BY <1>1, <1>8, <2>2
    <3> QED BY <3>1, <2>2, <1>8 DEF InOrderOf
  <2>3. CASE i \in 1 .. Len(s) /\ j - Len(s) \in 1 .. Len(t)
    <3>1. u[i] = s[i] /\ u[j] = t[j - Len(s)]
      BY <1>1, <2>3
    <3> QED BY <3>1, <2>3, <1>8 DEF Elements
  <2>4. CASE j \in 1 .. Len(s) /\ i - Len(s) \in 1 .. Len(t)
    BY <1>1, <1>8, <2>4
  <2> QED BY <1>4, <2>1, <2>2, <2>3, <2>4
<1>9. NoneTwice(s) /\ NoneTwice(t) /\ Elements(s) \cap Elements(t) = {}
      => NoneTwice(u)
  BY <1>7 DEF NoneTwice
<1>10. \A all : /\ InOrderOf(s, all) /\ InOrderOf(t, all)
                /\ \A x \in Elements(s), y \in Elements(t) : Before(all, x, y)
                => InOrderOf(u, all)
  BY <1>8 DEF InOrderOf
<1> QED BY <1>6, <1>9, <1>10 DEF u

-----------------------------------------------------------------------------
(* What is taken is sent once.                                              *)

(* Every message is in the sequences its phase says, and in none of them    *)
(* twice.                                                                   *)
Counted ==
    /\ NoneTwice(accepted) /\ NoneTwice(begun) /\ NoneTwice(queue)
    /\ \A m \in Message :
         /\ m \in Elements(accepted) <=> turn[m] \notin {"new", "rejected"}
         /\ m \in Elements(begun) <=> turn[m] \in LivePhase \cup {"over"}
         /\ m \in Elements(queue) <=> turn[m] = "parked"

(* The turns began, and the messages wait, in the order they were taken in; *)
(* what waits was taken in later than what began.                           *)
InLine ==
    /\ InOrderOf(begun, accepted) /\ InOrderOf(queue, accepted)
    /\ \A x \in Elements(begun), y \in Elements(queue) : Before(accepted, x, y)

(* The sequences as the lemmas take them.                                   *)
LEMMA Sequences ==
    ASSUME TypeOK
    PROVE  /\ accepted \in Seq(Message) /\ begun \in Seq(Message)
           /\ queue \in Seq(Message)
           /\ Elements(accepted) \subseteq Message /\ Elements(begun) \subseteq Message
           /\ Elements(queue) \subseteq Message \ Direct
<1>1. /\ accepted \in Seq(Message) /\ begun \in Seq(Message)
      /\ queue \in Seq(Message \ Direct)
  BY DEF TypeOK
<1>2. queue \in Seq(Message)
  BY <1>1
<1>3. Elements(queue) \subseteq Message \ Direct
  BY <1>1 DEF Elements
<1> QED BY <1>1, <1>2, <1>3 DEF Elements

(* A message is taken in and its turn begins.                               *)
Starts(m) ==
    /\ turn[m] = "new" /\ turn' = [turn EXCEPT ![m] = "preparing"]
    /\ accepted' = Append(accepted, m) /\ begun' = Append(begun, m)
    /\ queue' = queue

(* A message is taken in and waits.                                         *)
Parks(m) ==
    /\ turn[m] = "new" /\ turn' = [turn EXCEPT ![m] = "parked"]
    /\ accepted' = Append(accepted, m) /\ queue' = Append(queue, m)
    /\ begun' = begun

(* A turn ends and that of the next message begins.                         *)
GoesOn(m) ==
    /\ queue # <<>> /\ Live(m)
    /\ turn' = [[turn EXCEPT ![m] = "over"] EXCEPT ![Head(queue)] = "preparing"]
    /\ begun' = Append(begun, Head(queue)) /\ queue' = Tail(queue)
    /\ accepted' = accepted

(* A message is taken out of the queue.                                     *)
LeavesQueue(m) ==
    /\ \E i \in 1 .. Len(queue) : queue[i] = m /\ queue' = Without(queue, i)
    /\ turn' = [turn EXCEPT ![m] = "removed"]
    /\ UNCHANGED <<accepted, begun>>

(* The phase changes and no sequence does.                                  *)
Turns(m) ==
    /\ \/ turn[m] = "new" /\ turn' = [turn EXCEPT ![m] = "rejected"]
       \/ Live(m) /\ \E p \in LivePhase \cup {"over"} : turn' = [turn EXCEPT ![m] = p]
    /\ UNCHANGED <<accepted, begun, queue>>

(* Nothing else happens to the sequences.                                   *)
LEMMA SequenceEffect ==
    ASSUME [Next]_vars
    PROVE  \/ \E m \in Message :
                \/ Starts(m) /\ (m \in Direct \/ ~sending)
                \/ Parks(m) \/ GoesOn(m) \/ LeavesQueue(m) \/ Turns(m)
           \/ Deleted
           \/ UNCHANGED <<turn, accepted, begun, queue>>
<1>1. ASSUME NEW m \in Message, Enqueue(m)
      PROVE  (Starts(m) /\ ~sending) \/ Parks(m) \/ Turns(m)
  BY <1>1 DEF Enqueue, Begin, Park, Goto, Starts, Parks, Turns
<1>2. ASSUME NEW m \in Message, SendDirect(m) PROVE Starts(m) /\ m \in Direct
  BY <1>2 DEF SendDirect, Begin, Starts
<1>3. ASSUME NEW m \in Message, Remove(m) PROVE LeavesQueue(m)
  BY <1>3 DEF Remove, Goto, LeavesQueue
<1>4. ASSUME NEW m \in Message, TurnStep(m) PROVE GoesOn(m) \/ Turns(m)
  <2>1. Live(m)
    BY <1>4, TurnEffect
  <2>2. CASE Advances(m)
    BY <2>1, <2>2 DEF Advances, Goto, Turns
  <2>3. CASE Ends(m)
    BY <2>1, <2>3 DEF Ends, Finish, Begin, GoesOn, Turns
  <2> QED BY <1>4, <2>2, <2>3, TurnEffect
<1>5. CASE Stop \/ Delete \/ Erase \/ Stopped \/ UNCHANGED vars
  BY <1>5 DEF Stop, Delete, Erase, Stopped, vars
<1>6. ASSUME NEW w \in {"stop", "delete"}, TakeHandle(w) \/ Cancel(w)
      PROVE  UNCHANGED <<turn, accepted, begun, queue>>
  BY <1>6 DEF TakeHandle, Cancel
<1> QED BY <1>1, <1>2, <1>3, <1>4, <1>5, <1>6 DEF Next, StopStep

(* The message at the head waits; what is behind it is the rest.            *)
LEMMA HeadWaits ==
    ASSUME TypeOK, Counted, queue # <<>>
    PROVE  /\ Head(queue) \in Message /\ turn[Head(queue)] = "parked"
           /\ Head(queue) \in Elements(queue)
           /\ Tail(queue) \in Seq(Message) /\ NoneTwice(Tail(queue))
           /\ Elements(Tail(queue)) = Elements(queue) \ {Head(queue)}
<1>1. queue \in Seq(Message) /\ Elements(queue) \subseteq Message
  BY Sequences
<1>2. Lacks(Tail(queue), queue, 1) /\ 1 \in 1 .. Len(queue) /\ Head(queue) = queue[1]
  BY <1>1, TailLacks
<1>3. Tail(queue) \in Seq(Message)
  BY <1>1, HeadTailProperties
<1>4. Head(queue) \in Elements(queue)
  BY <1>2 DEF Elements
<1>5. NoneTwice(Tail(queue)) /\ Elements(Tail(queue)) = Elements(queue) \ {queue[1]}
  <2>1. PICK k \in 1 .. Len(queue) : k = 1
    BY <1>2
  <2>2. Lacks(Tail(queue), queue, k) /\ NoneTwice(queue)
    BY <1>2, <2>1 DEF Counted
  <2>3. NoneTwice(Tail(queue)) /\ Elements(Tail(queue)) = Elements(queue) \ {queue[k]}
    BY <1>1, <1>3, <2>2, LackingElements
  <2> QED BY <2>1, <2>3
<1> QED BY <1>1, <1>2, <1>3, <1>4, <1>5 DEF Counted

(* Every step keeps the count.                                              *)
LEMMA CountedStep == TypeOK /\ Counted /\ [Next]_vars => Counted'
<1> SUFFICES ASSUME TypeOK, Counted, [Next]_vars PROVE Counted'
  OBVIOUS
<1>0. /\ accepted \in Seq(Message) /\ begun \in Seq(Message) /\ queue \in Seq(Message)
      /\ NoneTwice(accepted) /\ NoneTwice(begun) /\ NoneTwice(queue)
      /\ turn \in [Message -> Phase]
  BY Sequences DEF Counted, TypeOK
<1>1. \A m \in Message :
         /\ m \in Elements(accepted) <=> turn[m] \notin {"new", "rejected"}
         /\ m \in Elements(begun) <=> turn[m] \in LivePhase \cup {"over"}
         /\ m \in Elements(queue) <=> turn[m] = "parked"
  BY DEF Counted
<1>2. ASSUME NEW m \in Message, Starts(m) PROVE Counted'
  <2>1. m \notin Elements(accepted) /\ m \notin Elements(begun)
    BY <1>1, <1>2 DEF Starts, LivePhase
  <2>2. /\ Elements(accepted') = Elements(accepted) \cup {m} /\ NoneTwice(accepted')
        /\ Elements(begun') = Elements(begun) \cup {m} /\ NoneTwice(begun')
        /\ queue' = queue
    BY <1>0, <1>2, <2>1, AppendElements DEF Starts
  <2>3. \A x \in Message : turn'[x] = IF x = m THEN "preparing" ELSE turn[x]
    BY <1>0, <1>2 DEF Starts
  <2> QED BY <1>0, <1>1, <1>2, <2>2, <2>3 DEF Counted, LivePhase, Starts
<1>3. ASSUME NEW m \in Message, Parks(m) PROVE Counted'
  <2>1. m \notin Elements(accepted) /\ m \notin Elements(queue)
    BY <1>1, <1>3 DEF Parks
  <2>2. /\ Elements(accepted') = Elements(accepted) \cup {m} /\ NoneTwice(accepted')
        /\ Elements(queue') = Elements(queue) \cup {m} /\ NoneTwice(queue')
        /\ begun' = begun
    BY <1>0, <1>3, <2>1, AppendElements DEF Parks
  <2>3. \A x \in Message : turn'[x] = IF x = m THEN "parked" ELSE turn[x]
    BY <1>0, <1>3 DEF Parks
  <2> QED BY <1>0, <1>1, <1>3, <2>2, <2>3 DEF Counted, LivePhase, Parks
<1>4. ASSUME NEW m \in Message, GoesOn(m) PROVE Counted'
  <2> DEFINE h == Head(queue)
  <2>1. /\ h \in Message /\ turn[h] = "parked" /\ NoneTwice(Tail(queue))
        /\ Elements(Tail(queue)) = Elements(queue) \ {h}
    BY <1>4, HeadWaits DEF GoesOn
  <2>2. h \notin Elements(begun)
    BY <1>1, <2>1 DEF LivePhase
  <2>3. Elements(begun') = Elements(begun) \cup {h} /\ NoneTwice(begun')
    BY <1>0, <1>4, <2>1, <2>2, AppendElements DEF GoesOn
  <2>4. m # h /\ turn[m] \in LivePhase
    BY <1>4, <2>1 DEF GoesOn, Live, LivePhase
  <2>5. \A x \in Message :
           turn'[x] = IF x = h THEN "preparing" ELSE IF x = m THEN "over" ELSE turn[x]
    BY <1>0, <1>4 DEF GoesOn
  <2> HIDE DEF h
  <2>6. queue' = Tail(queue) /\ accepted' = accepted
    BY <1>4 DEF GoesOn
  <2> QED BY <1>0, <1>1, <2>1, <2>3, <2>4, <2>5, <2>6 DEF Counted, LivePhase
<1>5. ASSUME NEW m \in Message, LeavesQueue(m) PROVE Counted'
  <2>1. PICK i \in 1 .. Len(queue) : queue[i] = m /\ queue' = Without(queue, i)
    BY <1>5 DEF LeavesQueue
  <2>2. queue' \in Seq(Message)
    BY <1>0, <2>1, WithoutType
  <2>3. Lacks(queue', queue, i)
    BY <1>0, <2>1, WithoutLacks
  <2>4. Elements(queue') = Elements(queue) \ {m} /\ NoneTwice(queue')
    BY <1>0, <2>1, <2>2, <2>3, LackingElements
  <2>5. turn[m] = "parked"
    BY <1>1, <2>1 DEF Elements
  <2>6. \A x \in Message : turn'[x] = IF x = m THEN "removed" ELSE turn[x]
    BY <1>0, <1>5 DEF LeavesQueue
  <2>7. accepted' = accepted /\ begun' = begun
    BY <1>5 DEF LeavesQueue
  <2> QED BY <1>0, <1>1, <2>4, <2>5, <2>6, <2>7 DEF Counted, LivePhase
<1>6. ASSUME NEW m \in Message, Turns(m) PROVE Counted'
  <2>1. accepted' = accepted /\ begun' = begun /\ queue' = queue
    BY <1>6 DEF Turns
  <2>2. \A x \in Message :
           \/ turn'[x] = turn[x]
           \/ turn[x] = "new" /\ turn'[x] = "rejected"
           \/ turn[x] \in LivePhase /\ turn'[x] \in LivePhase \cup {"over"}
    BY <1>0, <1>6 DEF Turns, Live
  <2> QED BY <1>0, <1>1, <2>1, <2>2 DEF Counted, LivePhase
<1>7. CASE Deleted
  <2>1. queue' = <<>> /\ accepted' = accepted /\ begun' = begun
    BY <1>7 DEF Deleted
  <2>2. Elements(queue') = {} /\ NoneTwice(queue')
    BY <2>1 DEF Elements, NoneTwice
  <2>3. \A x \in Message : turn'[x] = IF turn[x] = "parked" THEN "removed" ELSE turn[x]
    BY <1>7 DEF Deleted
  <2> QED BY <1>0, <1>1, <2>1, <2>2, <2>3 DEF Counted, LivePhase
<1>8. CASE UNCHANGED <<turn, accepted, begun, queue>>
  BY <1>8 DEF Counted
<1> QED BY <1>2, <1>3, <1>4, <1>5, <1>6, <1>7, <1>8, SequenceEffect

(* Every step keeps the order until Stop is pressed: the flag is down only  *)
(* when nothing waits.                                                      *)
LEMMA InLineStep ==
    ASSUME TypeOK, Driven, Ordered, Counted, Calm => InLine, [Next]_vars, Calm'
    PROVE  InLine'
<1>0. /\ Calm /\ InOrderOf(begun, accepted) /\ InOrderOf(queue, accepted)
      /\ \A x \in Elements(begun), y \in Elements(queue) : Before(accepted, x, y)
  BY CalmBefore DEF InLine
<1>1. /\ accepted \in Seq(Message) /\ begun \in Seq(Message) /\ queue \in Seq(Message)
      /\ turn \in [Message -> Phase]
      /\ Elements(accepted) \subseteq Message /\ Elements(begun) \subseteq Message
      /\ Elements(queue) \subseteq Message
  BY Sequences DEF TypeOK
<1>2. Elements(begun) \subseteq Elements(accepted)
      /\ Elements(queue) \subseteq Elements(accepted)
  BY <1>1 DEF Counted, LivePhase
<1>3. ASSUME NEW m \in Message, accepted' = Append(accepted, m)
      PROVE  /\ InOrderOf(begun, accepted') /\ InOrderOf(queue, accepted')
             /\ \A x \in Message, y \in Message :
                  Before(accepted, x, y) => Before(accepted', x, y)
             /\ \A x \in Elements(accepted) : Before(accepted', x, m)
  BY <1>0, <1>1, <1>3, OrderGrows, AppendBefore
<1>4. ASSUME NEW m \in Message, Starts(m), m \in Direct \/ ~sending PROVE InLine'
  <2>1. m \notin Direct
    <3>1. turn'[m] = "preparing"
      BY <1>1, <1>4 DEF Starts
    <3> QED BY <3>1 DEF Calm, Sent
  <2>2. \A x \in Message : ~Live(x)
    BY <1>0, <1>4, <2>1 DEF Ordered, FlagIsSet
  <2>3. queue = <<>>
    BY <1>0, <2>2 DEF Driven, QueueIsDriven, Calm
  <2>4. Elements(queue) = {}
    BY <2>3 DEF Elements
  <2>5. InOrderOf(Append(begun, m), accepted')
    BY <1>1, <1>2, <1>3, <1>4, OrderAppends DEF Starts
  <2>6. begun' = Append(begun, m) /\ queue' = queue
    BY <1>4 DEF Starts
  <2> QED BY <1>3, <1>4, <2>4, <2>5, <2>6 DEF InLine, Starts
<1>5. ASSUME NEW m \in Message, Parks(m) PROVE InLine'
  <2>1. /\ accepted' = Append(accepted, m) /\ queue' = Append(queue, m)
        /\ begun' = begun
    BY <1>5 DEF Parks
  <2>2. InOrderOf(queue', accepted')
    BY <1>1, <1>2, <1>3, <2>1, OrderAppends
  <2>3. Elements(queue') = Elements(queue) \cup {m}
    BY <1>1, <2>1, AppendElements
  <2>4. \A x \in Elements(begun), y \in Elements(queue') : Before(accepted', x, y)
    BY <1>0, <1>1, <1>2, <1>3, <2>1, <2>3
  <2> QED BY <1>3, <2>1, <2>2, <2>4 DEF InLine
<1>6. ASSUME NEW m \in Message, GoesOn(m) PROVE InLine'
  <2> DEFINE h == Head(queue)
  <2>1. /\ queue # <<>> /\ begun' = Append(begun, h) /\ queue' = Tail(queue)
        /\ accepted' = accepted
    BY <1>6 DEF GoesOn
  <2>2. /\ h \in Message /\ h \in Elements(queue) /\ Tail(queue) \in Seq(Message)
        /\ Elements(Tail(queue)) = Elements(queue) \ {h}
    BY <2>1, HeadWaits
  <2>3. Lacks(Tail(queue), queue, 1) /\ 1 \in 1 .. Len(queue) /\ h = queue[1]
    BY <1>1, <2>1, TailLacks
  <2>4. InOrderOf(queue', accepted')
        /\ \A y \in Elements(queue') : Before(accepted', h, y)
    <3>1. PICK k \in 1 .. Len(queue) : k = 1
      BY <2>3
    <3>2. Lacks(Tail(queue), queue, k)
      BY <2>3, <3>1
    <3>3. InOrderOf(Tail(queue), accepted)
          /\ \A y \in Elements(Tail(queue)) : Before(accepted, queue[1], y)
      BY <1>0, <1>1, <2>2, <3>1, <3>2, LackingOrder
    <3> QED BY <2>1, <2>3, <3>3
  <2> HIDE DEF h
  <2>5. InOrderOf(begun', accepted')
    BY <1>0, <1>1, <2>1, <2>2, OrderAppends
  <2>6. Elements(begun') = Elements(begun) \cup {h}
    BY <1>1, <2>1, <2>2, AppendElements
  <2>7. \A x \in Elements(begun'), y \in Elements(queue') : Before(accepted', x, y)
    BY <1>0, <2>1, <2>2, <2>4, <2>6
  <2> QED BY <2>4, <2>5, <2>7 DEF InLine
<1>7. ASSUME NEW m \in Message, LeavesQueue(m) PROVE InLine'
  <2>1. PICK i \in 1 .. Len(queue) : queue[i] = m /\ queue' = Without(queue, i)
    BY <1>7 DEF LeavesQueue
  <2>2. queue' \in Seq(Message)
    BY <1>1, <2>1, WithoutType
  <2>3. Lacks(queue', queue, i)
    BY <1>1, <2>1, WithoutLacks
  <2>4. Elements(queue') \subseteq Elements(queue)
    BY <1>1, <2>1, <2>2, <2>3, LackingElements DEF Counted
  <2>5. InOrderOf(queue', accepted)
    BY <1>0, <1>1, <2>2, <2>3, LackingOrder
  <2>6. accepted' = accepted /\ begun' = begun
    BY <1>7 DEF LeavesQueue
  <2> QED BY <1>0, <2>4, <2>5, <2>6 DEF InLine
<1>8. CASE Deleted
  <2>1. queue' = <<>> /\ accepted' = accepted /\ begun' = begun
    BY <1>8 DEF Deleted
  <2>2. Elements(queue') = {} /\ InOrderOf(queue', accepted)
    BY <2>1 DEF Elements, InOrderOf
  <2> QED BY <1>0, <2>1, <2>2 DEF InLine
<1>9. CASE UNCHANGED <<accepted, begun, queue>>
  BY <1>0, <1>9 DEF InLine
<1>10. ASSUME NEW m \in Message, Turns(m) PROVE InLine'
  BY <1>9, <1>10 DEF Turns
<1> QED BY <1>4, <1>5, <1>6, <1>7, <1>8, <1>9, <1>10, SequenceEffect

(* The invariant of the queue, complete.                                    *)
IInv == TypeOK /\ Driven /\ Ordered /\ Counted /\ (Calm => InLine)

LEMMA IInvInit == Init => IInv
<1> SUFFICES ASSUME Init PROVE IInv
  OBVIOUS
<1>1. TypeOK
  BY TypeInit
<1>2. \A m \in Message : ~Live(m) /\ turn[m] = "new"
  BY DEF Init, Live, LivePhase
<1>3. Driven
  BY <1>1 DEF Init, Driven, QueueIsDriven
<1>4. Ordered
  BY <1>1, <1>2 DEF Init, Ordered, StopIsIdle, HandIsTaken, OneTurn, FlagIsSet,
                    CanBeStopped
<1>5. /\ accepted = <<>> /\ begun = <<>> /\ queue = <<>>
      /\ Elements(<<>>) = {} /\ NoneTwice(<<>>)
  BY DEF Init, Elements, NoneTwice
<1>6. Counted
  BY <1>2, <1>5 DEF Counted, LivePhase
<1>7. InLine
  BY <1>5 DEF InLine, InOrderOf
<1> QED BY <1>1, <1>3, <1>4, <1>6, <1>7 DEF IInv

LEMMA IInvStep == IInv /\ [Next]_vars => IInv'
BY TypeStep, DrivenStep, OrderedStep, CountedStep, InLineStep DEF IInv

(* A message that was taken is parked or sent, once, unless it was removed; *)
(* and until Stop is pressed the messages go out in the order they came.    *)
THEOREM MessagesSentOnce == Spec => []SentOnce
<1>1. IInv => SentOnce
  <2> SUFFICES ASSUME IInv PROVE SentOnce
    OBVIOUS
  <2> DEFINE all == begun \o queue
  <2>1. TypeOK /\ Counted /\ (Calm => InLine)
    BY DEF IInv
  <2>2. /\ begun \in Seq(Message) /\ queue \in Seq(Message)
        /\ Elements(accepted) \subseteq Message /\ Elements(begun) \subseteq Message
        /\ Elements(queue) \subseteq Message /\ turn \in [Message -> Phase]
    BY <2>1, Sequences DEF TypeOK
  <2>3. Elements(begun) \cap Elements(queue) = {}
    BY <2>1, <2>2 DEF Counted, LivePhase
  <2>4. Elements(all) = Elements(begun) \cup Elements(queue) /\ NoneTwice(all)
    BY <2>1, <2>2, <2>3, ConcatElements DEF Counted
  <2>5. Calm => InOrderOf(all, accepted)
    BY <2>1, <2>2, ConcatElements DEF InLine
  <2>6. \A m \in Message : turn[m] \in LivePhase \cup {"over", "parked"}
                           <=> turn[m] \notin {"new", "rejected", "removed"}
    BY <2>2 DEF Phase, LivePhase
  <2>7. Elements(all) = {m \in Elements(accepted) : turn[m] # "removed"}
    BY <2>1, <2>2, <2>4, <2>6 DEF Counted
  <2> HIDE DEF all
  <2> QED BY <2>4, <2>5, <2>7 DEF SentOnce, all
<1> QED BY <1>1, IInvInit, IInvStep, PTL DEF Spec

-----------------------------------------------------------------------------
(* The thread is a conversation.                                            *)

Active == {m \in Message : Live(m)}
Talks == [Talk!Next]_<<queue, Active, begun>>

(* A turn that goes on, or a message that does not fit, is no step of it.   *)
LEMMA TalkStays ==
    ASSUME queue' = queue, begun' = begun, \A x \in Message : Live(x)' <=> Live(x)
    PROVE  Talks
BY DEF Talks, Active

(* A message is taken: it begins when no turn is under way, and waits when  *)
(* one is.                                                                  *)
LEMMA TalkTakes ==
    ASSUME IInv, Calm, NEW m \in Message, Enqueue(m)
    PROVE  Talks
<1>0. /\ turn \in [Message -> Phase] /\ turn[m] = "new" /\ TypeOK
      /\ (\E x \in Message : Live(x)) <=> sending
      /\ queue # <<>> => \E x \in Message : Live(x)
  BY DEF IInv, TypeOK, Driven, Ordered, FlagIsSet, QueueIsDriven, Calm, Enqueue
<1>1. Talk!Fresh(m)
  BY <1>0 DEF IInv, Counted, Elements, LivePhase, Talk!Fresh, Talk!In
<1>2. CASE ~sending
  <2>1. /\ turn' = [turn EXCEPT ![m] = "preparing"] /\ begun' = Append(begun, m)
        /\ queue' = queue
    BY <1>2 DEF Enqueue, Begin
  <2>2. \A x \in Message : Live(x)' <=> x = m
    BY <1>0, <1>2, <2>1 DEF Live, LivePhase
  <2>3. Active = {} /\ Active' = {m}
    BY <1>0, <1>2, <2>2 DEF Active
  <2>4. queue = <<>>
    BY <1>0, <1>2
  <2> QED BY <1>1, <2>1, <2>3, <2>4 DEF Talks, Active, Talk!Next, Talk!Begin
<1>3. CASE sending
  <2>1. Park(m) /\ begun' = begun
    BY <1>3 DEF Enqueue
  <2>2. \A x \in Message : Live(x)' <=> Live(x)
    BY <1>0, <2>1 DEF Park, Goto, Live, LivePhase
  <2>3. CASE Len(queue) < MaxQueued
    <3>1. queue' = Append(queue, m)
      BY <2>1, <2>3 DEF Park
    <3>2. Active' = Active /\ Active # {}
      BY <1>0, <1>3, <2>2 DEF Active
    <3> QED BY <1>1, <2>1, <2>3, <3>1, <3>2 DEF Talks, Active, Talk!Next, Talk!Wait
  <2>4. CASE ~(Len(queue) < MaxQueued)
    BY <2>1, <2>2, <2>4, TalkStays DEF Park
  <2> QED BY <2>3, <2>4
<1> QED BY <1>2, <1>3

(* A turn goes on, or ends and hands over to the next.                      *)
LEMMA TalkTurns ==
    ASSUME IInv, Calm, NEW m \in Message, TurnStep(m)
    PROVE  Talks
<1>0. /\ TypeOK /\ turn \in [Message -> Phase] /\ Live(m) /\ m \notin Direct
      /\ \A x \in Message : Live(x) => x = m
  BY TurnEffect DEF IInv, TypeOK, Ordered, OneTurn, Calm, Sent, Live, LivePhase
<1>1. CASE Advances(m)
  <2>1. PICK p \in LivePhase : turn' = [turn EXCEPT ![m] = p]
    BY <1>1 DEF Advances, Goto
  <2>2. \A x \in Message : Live(x)' <=> Live(x)
    BY <1>0, <2>1 DEF Live
  <2> QED BY <1>1, <2>2, TalkStays DEF Advances
<1>2. CASE Ends(m)
  <2>1. CASE queue # <<>>
    <3> DEFINE h == Head(queue)
    <3>1. h \in Message /\ turn[h] = "parked"
      BY <1>0, <2>1, HeadWaits DEF IInv
    <3>2. /\ turn' = [[turn EXCEPT ![m] = "over"] EXCEPT ![h] = "preparing"]
          /\ begun' = Append(begun, h) /\ queue' = Tail(queue)
      BY <1>0, <1>2, <2>1 DEF Ends, Finish, Begin
    <3> HIDE DEF h
    <3>3. \A x \in Message : Live(x)' <=> x = h
      BY <1>0, <3>1, <3>2 DEF Live, LivePhase
    <3>4. Active # {} /\ Active' = {h}
      BY <1>0, <3>1, <3>3 DEF Active
    <3> QED BY <2>1, <3>2, <3>4 DEF Talks, Active, Talk!Next, Talk!GoOn, h
  <2>2. CASE queue = <<>>
    <3>1. turn' = [turn EXCEPT ![m] = "over"] /\ UNCHANGED <<queue, begun>>
      BY <1>0, <1>2, <2>2 DEF Ends, Finish
    <3>2. \A x \in Message : ~Live(x)'
      BY <1>0, <3>1 DEF Live, LivePhase
    <3>3. Active # {} /\ Active' = {}
      BY <1>0, <3>2 DEF Active
    <3> QED BY <2>2, <3>1, <3>3 DEF Talks, Active, Talk!Next, Talk!Rest
  <2> QED BY <2>1, <2>2
<1> QED BY <1>1, <1>2, TurnEffect

(* Every step, until Stop is pressed.                                       *)
LEMMA TalkStep ==
    ASSUME IInv, [Next]_vars, Calm'
    PROVE  Talks
<1>0. Calm /\ TypeOK /\ turn \in [Message -> Phase]
  BY CalmBefore DEF IInv, TypeOK
<1>1. ASSUME NEW m \in Message, Enqueue(m) PROVE Talks
  BY <1>0, <1>1, TalkTakes
<1>2. ASSUME NEW m \in Message, SendDirect(m) PROVE Talks
  <2>1. turn'[m] = "preparing" /\ m \in Direct
    BY <1>0, <1>2 DEF SendDirect, Begin
  <2> QED BY <2>1 DEF Calm, Sent
<1>3. ASSUME NEW m \in Message, Remove(m) PROVE Talks
  <2>1. \A x \in Message : Live(x)' <=> Live(x)
    BY <1>0, <1>3 DEF Remove, Goto, Live, LivePhase
  <2>2. Active' = Active /\ begun' = begun
    BY <1>3, <2>1 DEF Active, Remove
  <2> QED BY <1>3, <2>2 DEF Remove, Without, Talks, Active, Talk!Next, Talk!Withdraw
<1>4. ASSUME NEW m \in Message, TurnStep(m) PROVE Talks
  BY <1>0, <1>4, TalkTurns
<1>5. CASE Deleted
  <2>1. \A x \in Message : Live(x)' <=> Live(x)
    BY <1>0, <1>5 DEF Deleted, Live, LivePhase
  <2>2. Active' = Active /\ begun' = begun /\ queue' = <<>>
    BY <1>5, <2>1 DEF Active, Deleted
  <2> QED BY <2>2 DEF Talks, Active, Talk!Next, Talk!Clear
<1>6. CASE UNCHANGED <<queue, turn, begun>>
  BY <1>6, TalkStays DEF Live
<1>7. CASE Stop \/ Delete \/ Erase \/ Stopped \/ UNCHANGED vars
  BY <1>6, <1>7 DEF Stop, Delete, Erase, Stopped, vars
<1>8. ASSUME NEW w \in {"stop", "delete"}, TakeHandle(w) \/ Cancel(w) PROVE Talks
  BY <1>6, <1>8 DEF TakeHandle, Cancel
<1> QED BY <1>1, <1>2, <1>3, <1>4, <1>5, <1>7, <1>8 DEF Next, StopStep

(* Until Stop is pressed or the queue is passed by, the thread implements   *)
(* the conversation: one turn at a time, in order, and no pause between the *)
(* end of a turn and the next.                                              *)
THEOREM ThreadConverses == Spec => IsConversation
<1>1. Init => Talk!Init
  <2> SUFFICES ASSUME Init PROVE Talk!Init
    OBVIOUS
  <2>1. \A m \in Message : ~Live(m)
    BY DEF Init, Live, LivePhase
  <2> QED BY <2>1 DEF Init, Talk!Init
<1>2. IInv /\ [Next]_vars
        => [~Calm' \/ Talk!Next]_<<queue, {m \in Message : Live(m)}, begun>>
  <2> SUFFICES ASSUME IInv, [Next]_vars, Calm' PROVE Talks
    BY DEF Talks, Active
  <2> QED BY TalkStep
<1> QED BY <1>1, <1>2, IInvInit, IInvStep, PTL DEF Spec, IsConversation
=============================================================================
