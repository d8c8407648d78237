----------------------------- MODULE ChatQueue -----------------------------
(***************************************************************************)
(* One chat thread: the messages typed while an answer is on its way, the  *)
(* executors that send them one after the other, and the native turns that *)
(* answer them.  chatStore keeps one flag per thread, `sending`, which     *)
(* every turn sets when it begins and clears when it ends, and so does     *)
(* Stop.  The native side keeps one handle per thread for stopping a turn, *)
(* registered some time after the turn began.                              *)
(***************************************************************************)
EXTENDS Naturals, Sequences, FiniteSets

CONSTANTS
    Message,   \* the messages the user, or a menu, sends
    Direct,    \* those sent by sendMessage itself: "explain selection", mail
    None,      \* no turn
    MaxQueued, \* MAX_QUEUED_SENDS
    MaxStops,  \* bound: how often Stop is pressed
    MaxFaults  \* bound: turns that fail

ASSUME ChatAssumption ==
    /\ Direct \subseteq Message /\ IsFiniteSet(Message) /\ None \notin Message
    /\ MaxQueued \in Nat \ {0} /\ {MaxStops, MaxFaults} \subseteq Nat

VARIABLES
    sending,   \* sendingByThreadId
    queue,     \* sendQueues
    turn,      \* where each message is: see Phase
    runs,      \* chat_runs: the turn a stop would stop
    cancelled, \* turns whose token is cancelled
    stopper,   \* the calls of stop_thread_runtime: by Stop, by a deletion
    erased,    \* the thread is no longer in the database
    gone,      \* nor in the store
    stops, faults,  \* bounded
    accepted,  \* history: the messages taken, in that order
    begun      \* history: the turns, in the order they began

vars == <<sending, queue, turn, runs, cancelled, stopper, erased, gone, stops,
          faults, accepted, begun>>

\* preparing: context and listener; asked: chat_stream is called; stored: the
\* question is in the database; running: the turn has registered its handle
LivePhase == {"preparing", "asked", "stored", "running", "answered", "refused",
              "fallback"}
Phase == {"new", "rejected", "parked", "removed", "over"} \cup LivePhase

Stopper == [at: {"idle", "asked", "deleting", "taken", "served"},
            hand: Message \cup {None}]

TypeOK ==
    /\ sending \in BOOLEAN /\ erased \in BOOLEAN /\ gone \in BOOLEAN
    /\ queue \in Seq(Message \ Direct)
    /\ turn \in [Message -> Phase]
    /\ runs \in Message \cup {None}
    /\ cancelled \subseteq Message
    /\ stopper \in [{"stop", "delete"} -> Stopper]
    /\ stops \in Nat /\ faults \in Nat
    /\ accepted \in Seq(Message) /\ begun \in Seq(Message)

Init ==
    /\ sending = FALSE /\ queue = <<>>
    /\ turn = [m \in Message |-> "new"]
    /\ runs = None /\ cancelled = {}
    /\ stopper = [w \in {"stop", "delete"} |-> [at |-> "idle", hand |-> None]]
    /\ erased = FALSE /\ gone = FALSE
    /\ stops = 0 /\ faults = 0
    /\ accepted = <<>> /\ begun = <<>>

Live(m) == turn[m] \in LivePhase
Fault == faults < MaxFaults /\ faults' = faults + 1
Goto(m, phase) == turn' = [turn EXCEPT ![m] = phase]

-----------------------------------------------------------------------------
(* The store.                                                               *)

\* The beginning of sendMessage; t: turn as the caller leaves it.
Begin(m, t) ==
    /\ sending' = TRUE
    /\ turn' = [t EXCEPT ![m] = "preparing"]
    /\ begun' = Append(begun, m)

\* Mutant: a full queue makes room by dropping its oldest message.
ParkEvicting(m) ==
    /\ queue' = IF Len(queue) < MaxQueued THEN Append(queue, m)
                ELSE Append(Tail(queue), m)
    /\ Goto(m, "parked")
    /\ accepted' = Append(accepted, m)

\* A message that waits for the turn under way.
Park(m) ==
    IF Len(queue) < MaxQueued
    THEN /\ queue' = Append(queue, m)
         /\ Goto(m, "parked")
         /\ accepted' = Append(accepted, m)
    ELSE /\ Goto(m, "rejected")
         /\ UNCHANGED <<queue, accepted>>

\* Mutant: a message is sent as long as nothing waits.
EnqueueIfQueued(m) ==
    /\ m \notin Direct /\ turn[m] = "new" /\ ~gone
    /\ IF queue = <<>>
       THEN Begin(m, turn) /\ accepted' = Append(accepted, m) /\ UNCHANGED queue
       ELSE Park(m) /\ UNCHANGED <<sending, begun>>
    /\ UNCHANGED <<runs, cancelled, stopper, erased, gone, stops, faults>>

\* enqueueMessage
Enqueue(m) ==
    /\ m \notin Direct /\ turn[m] = "new" /\ ~gone
    /\ IF ~sending
       THEN Begin(m, turn) /\ accepted' = Append(accepted, m) /\ UNCHANGED queue
       ELSE Park(m) /\ UNCHANGED <<sending, begun>>
    /\ UNCHANGED <<runs, cancelled, stopper, erased, gone, stops, faults>>

\* sendMessage, called by explainSelection and by the mail client
SendDirect(m) ==
    /\ m \in Direct /\ turn[m] = "new" /\ ~gone
    /\ Begin(m, turn) /\ accepted' = Append(accepted, m)
    /\ UNCHANGED <<queue, runs, cancelled, stopper, erased, gone, stops, faults>>

\* Mutant: a turn that failed does not look at the queue.
FinishUnlessFailed(m) ==
    LET t == [turn EXCEPT ![m] = "over"] IN
    IF m \notin Direct /\ queue # <<>> /\ turn[m] = "answered"
    THEN Begin(Head(queue), t) /\ queue' = Tail(queue)
    ELSE sending' = FALSE /\ turn' = t /\ UNCHANGED <<queue, begun>>

\* The two finally blocks: the flag is cleared, and the executor, if the
\* message was sent by one, goes on with the next message.
Finish(m) ==
    LET t == [turn EXCEPT ![m] = "over"] IN
    IF m \notin Direct /\ queue # <<>>
    THEN Begin(Head(queue), t) /\ queue' = Tail(queue)
    ELSE sending' = FALSE /\ turn' = t /\ UNCHANGED <<queue, begun>>

\* The context is collected and the listener registered.
Prepare(m) ==
    /\ turn[m] = "preparing"
    /\ \/ Goto(m, "asked") /\ UNCHANGED faults
       \/ Goto(m, "refused") /\ Fault
    /\ UNCHANGED <<sending, queue, runs, cancelled, stopper, erased, gone, stops,
                   accepted, begun>>

\* chat_stream came back.
Answered(m) ==
    /\ turn[m] = "answered"
    /\ Finish(m)
    /\ UNCHANGED <<runs, cancelled, stopper, erased, gone, stops, faults, accepted>>

\* chat_stream failed: a locked vault ends the turn, anything else is tried
\* once more with chat_send.
Refused(m) ==
    /\ turn[m] = "refused"
    /\ \/ Finish(m)
       \/ Goto(m, "fallback") /\ UNCHANGED <<sending, queue, begun>>
    /\ UNCHANGED <<runs, cancelled, stopper, erased, gone, stops, faults, accepted>>

\* chat_send came back, with both messages or with an error.
FallbackEnds(m) ==
    /\ turn[m] = "fallback"
    /\ Finish(m)
    /\ UNCHANGED <<runs, cancelled, stopper, erased, gone, stops, faults, accepted>>

Without(s, i) == [j \in 1 .. Len(s) - 1 |-> IF j < i THEN s[j] ELSE s[j + 1]]

\* dequeueSend
Remove(m) ==
    /\ turn[m] = "parked" /\ ~gone
    /\ \E i \in 1 .. Len(queue) : queue[i] = m /\ queue' = Without(queue, i)
    /\ Goto(m, "removed")
    /\ UNCHANGED <<sending, runs, cancelled, stopper, erased, gone, stops, faults,
                   accepted, begun>>

-----------------------------------------------------------------------------
(* The native turn.                                                         *)

\* chat_stream as far as the question: refused when the thread is gone.
StoreQuestion(m) ==
    /\ turn[m] = "asked"
    /\ \/ ~erased /\ Goto(m, "stored") /\ UNCHANGED faults
       \/ erased /\ Goto(m, "refused") /\ UNCHANGED faults
       \/ Goto(m, "refused") /\ Fault
    /\ UNCHANGED <<sending, queue, runs, cancelled, stopper, erased, gone, stops,
                   accepted, begun>>

\* As far as the handle: a provider that cannot be had is reported as an
\* answer or as an error.
Register(m) ==
    /\ turn[m] = "stored"
    /\ \/ runs' = m /\ Goto(m, "running") /\ UNCHANGED faults
       \/ \E p \in {"answered", "refused"} : Goto(m, p) /\ Fault /\ UNCHANGED runs
    /\ UNCHANGED <<sending, queue, cancelled, stopper, erased, gone, stops,
                   accepted, begun>>

\* The answer is complete.  The handle of the thread is taken out, whosever
\* it is, and the answer stored, which fails when the thread is gone.
StreamEnds(m) ==
    /\ turn[m] = "running" /\ m \notin cancelled
    /\ runs' = None
    /\ Goto(m, IF erased THEN "refused" ELSE "answered")
    /\ UNCHANGED <<sending, queue, cancelled, stopper, erased, gone, stops, faults,
                   accepted, begun>>

StreamCancelled(m) ==
    /\ turn[m] = "running" /\ m \in cancelled
    /\ runs' = None
    /\ Goto(m, "answered")
    /\ UNCHANGED <<sending, queue, cancelled, stopper, erased, gone, stops, faults,
                   accepted, begun>>

-----------------------------------------------------------------------------
(* Stopping and deleting.                                                   *)

\* stopSending: the button is there while `sending` is set.
Stop ==
    /\ sending /\ ~gone /\ stops < MaxStops /\ stopper["stop"].at = "idle"
    /\ stops' = stops + 1
    /\ stopper' = [stopper EXCEPT !["stop"].at = "asked"]
    /\ UNCHANGED <<sending, queue, turn, runs, cancelled, erased, gone, faults,
                   accepted, begun>>

\* deleteThread
Delete ==
    /\ ~gone /\ stopper["delete"].at = "idle"
    /\ stopper' = [stopper EXCEPT !["delete"].at = "deleting"]
    /\ UNCHANGED <<sending, queue, turn, runs, cancelled, erased, gone, stops,
                   faults, accepted, begun>>

\* chat_delete_thread: the thread and its messages go first.
Erase ==
    /\ stopper["delete"].at = "deleting"
    /\ stopper' = [stopper EXCEPT !["delete"].at = "asked"]
    /\ erased' = TRUE
    /\ UNCHANGED <<sending, queue, turn, runs, cancelled, gone, stops, faults,
                   accepted, begun>>

\* stop_thread_runtime: the handle is taken out, if it is there yet ...
TakeHandle(w) ==
    /\ stopper[w].at = "asked"
    /\ stopper' = [stopper EXCEPT ![w] = [at |-> "taken", hand |-> runs]]
    /\ runs' = None
    /\ UNCHANGED <<sending, queue, turn, cancelled, erased, gone, stops, faults,
                   accepted, begun>>

\* ... and its turn told to end.
Cancel(w) ==
    /\ stopper[w].at = "taken"
    /\ stopper' = [stopper EXCEPT ![w] = [at |-> "served", hand |-> None]]
    /\ cancelled' = cancelled \cup ({stopper[w].hand} \ {None})
    /\ UNCHANGED <<sending, queue, turn, runs, erased, gone, stops, faults,
                   accepted, begun>>

\* Stop clears the flag whether or not there was a turn to stop.
Stopped ==
    /\ stopper["stop"].at = "served"
    /\ stopper' = [stopper EXCEPT !["stop"].at = "idle"]
    /\ sending' = FALSE
    /\ UNCHANGED <<queue, turn, runs, cancelled, erased, gone, stops, faults,
                   accepted, begun>>

\* Mutant: what is forgotten is the turn under way as well.
DeletedWithTurn ==
    /\ stopper["delete"].at = "served" /\ ~gone
    /\ gone' = TRUE
    /\ queue' = <<>>
    /\ turn' = [m \in Message |-> IF turn[m] = "parked" THEN "removed"
                                  ELSE IF Live(m) THEN "over" ELSE turn[m]]
    /\ UNCHANGED <<sending, runs, cancelled, stopper, erased, stops, faults,
                   accepted, begun>>

\* The thread leaves the store, and what was parked for it.
Deleted ==
    /\ stopper["delete"].at = "served" /\ ~gone
    /\ gone' = TRUE
    /\ queue' = <<>>
    /\ turn' = [m \in Message |-> IF turn[m] = "parked" THEN "removed" ELSE turn[m]]
    /\ UNCHANGED <<sending, runs, cancelled, stopper, erased, stops, faults,
                   accepted, begun>>

-----------------------------------------------------------------------------
TurnStep(m) ==
    \/ Prepare(m) \/ StoreQuestion(m) \/ Register(m) \/ StreamEnds(m)
    \/ StreamCancelled(m) \/ Answered(m) \/ Refused(m) \/ FallbackEnds(m)

StopStep ==
    \/ Erase \/ Stopped \/ Deleted
    \/ \E w \in {"stop", "delete"} : TakeHandle(w) \/ Cancel(w)

Next ==
    \/ \E m \in Message : Enqueue(m) \/ SendDirect(m) \/ Remove(m) \/ TurnStep(m)
    \/ Stop \/ Delete \/ StopStep

Spec == Init /\ [][Next]_vars

-----------------------------------------------------------------------------
Sent(d) == turn[d] # "new"

\* Nobody pressed Stop and nothing was sent past the queue.
Calm == stops = 0 /\ \A d \in Direct : ~Sent(d)

Elements(s) == {s[i] : i \in 1 .. Len(s)}

NoneTwice(s) == \A i, j \in 1 .. Len(s) : s[i] = s[j] => i = j

Before(s, m, n) == \E i, j \in 1 .. Len(s) : i < j /\ s[i] = m /\ s[j] = n

InOrderOf(s, all) ==
    \A i, j \in 1 .. Len(s) : i < j => Before(all, s[i], s[j])

\* "a silent eviction would lose a message the user believed was accepted":
\* whatever is stopped, removed or deleted, a message that was taken is either
\* parked or sent, once, unless it was removed; and until Stop is pressed the
\* messages go out in the order they were typed.
SentOnce ==
    LET all == begun \o queue IN
    /\ NoneTwice(all)
    /\ Elements(all) = {m \in Elements(accepted) : turn[m] # "removed"}
    /\ Calm => InOrderOf(all, accepted)

\* "typing ahead of a running turn parks the message instead of racing it into
\* the same transcript": until Stop is pressed one turn is under way at a time,
\* the flag says so, and a turn that answers can be stopped.
TurnsDoNotRace ==
    Calm =>
        /\ \A m, n \in Message : Live(m) /\ Live(n) => m = n
        /\ \A m \in Message : Live(m) => sending
        /\ \A m \in Message : turn[m] = "running" /\ m \notin cancelled =>
              runs = m \/ stopper["delete"].hand = m

\* "a failed turn must not strand everything behind it": however the turns
\* before it end, a parked message has an executor that will come to it, as
\* long as nothing was sent past the queue.
QueueIsDriven ==
    queue # <<>> => \/ \E m \in Message \ Direct : Live(m)
                    \/ \E d \in Direct : Sent(d)

\* "a send that arrives mid-flight is picked up when this one finishes, no
\* matter which path put it there": nothing is parked in a thread where no turn
\* is under way.
NothingStranded == queue # <<>> => \E m \in Message : Live(m)

Talk == INSTANCE Conversation WITH
    waiting <- queue, active <- {m \in Message : Live(m)}, sent <- begun

\* However turns fail and whatever is removed or deleted, the thread is a
\* Conversation: one turn at a time, in order, and the end of a turn is the
\* beginning of the next; until Stop is pressed or the queue passed by.
IsConversation ==
    /\ Talk!Init
    /\ [][~Calm' \/ Talk!Next]_<<queue, {m \in Message : Live(m)}, begun>>
=============================================================================
