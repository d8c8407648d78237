--------------------------- MODULE LspSyncProofs ---------------------------
(***************************************************************************)
(* LspSync for any texts, any number of loops, edits, openings and faults: *)
(* the variables keep their types, a save that waits for a queue is never  *)
(* left waiting for one that has ended or was forgotten, a closed document *)
(* leaves the server, and a didSave follows the change that it saves.      *)
(***************************************************************************)
EXTENDS LspSync, TLAPS

-----------------------------------------------------------------------------
(* Types.                                                                   *)

(* A loop is idle when it holds no text.                                    *)
Occupied == \A s \in Slot : loop[s].st = "idle" <=> loop[s].text = None

LEMMA NoneIsNoText == None \notin Text /\ Garbled \notin Text /\ None # Garbled
BY LspAssumption DEF LspAssumption

LEMMA SlotIsPositive == 0 \notin Slot
BY LspAssumption DEF LspAssumption

(* The call of a job is a loop that has sent its text.                      *)
LEMMA CallType ==
    ASSUME NEW r \in Ref, NEW job \in Job
    PROVE  /\ CallOf(r, job) \in Loop
           /\ CallOf(r, job).st = "sent" /\ CallOf(r, job).text # None
           /\ ~CallOf(r, job).closed
<1>1. job.mode \in {"open", "change"} /\ job.text \in Text
  BY DEF Job
<1>2. r.synced \in Text \cup {None} /\ r.inc \in BOOLEAN
  BY DEF Ref
<1> DEFINE o == /\ job.mode = "change" /\ r.inc
                /\ r.synced \notin {None, job.text}
<1>3. CallOf(r, job) = [st |-> "sent", mode |-> job.mode, text |-> job.text,
                        base |-> r.synced, omit |-> o, closed |-> FALSE,
                        next |-> NoJob]
  BY DEF CallOf
<1>4. o \in BOOLEAN
  OBVIOUS
<1> HIDE DEF o
<1> QED BY <1>1, <1>2, <1>3, <1>4, NoneIsNoText DEF Loop

LEMMA NoLoopType == NoLoop \in Loop /\ NoLoop.st = "idle" /\ NoLoop.text = None
BY DEF NoLoop, Loop, NoJob

LEMMA LoopWith ==
    ASSUME NEW x \in Loop
    PROVE  /\ [x EXCEPT !.st = "sent", !.omit = FALSE] \in Loop
           /\ [x EXCEPT !.closed = TRUE, !.next = NoJob] \in Loop
           /\ [x EXCEPT !.closed = TRUE, !.next = NoJob].st = x.st
           /\ [x EXCEPT !.closed = TRUE, !.next = NoJob].text = x.text
BY DEF Loop

LEMMA ServerWith ==
    ASSUME NEW x \in [up: BOOLEAN, doc: Text \cup {None, Garbled}],
           NEW d \in Text \cup {None, Garbled}, NEW u \in BOOLEAN
    PROVE  /\ [x EXCEPT !.doc = d] \in [up: BOOLEAN, doc: Text \cup {None, Garbled}]
           /\ [x EXCEPT !.up = u] \in [up: BOOLEAN, doc: Text \cup {None, Garbled}]
           /\ [up |-> u, doc |-> d] \in [up: BOOLEAN, doc: Text \cup {None, Garbled}]
OBVIOUS

(* A save that is void now is the save it was.                              *)
LEMMA VoidType ==
    ASSUME NEW sv \in Save, NEW v \in BOOLEAN
    PROVE  /\ [sv EXCEPT !.void = @ \/ v] \in Save
           /\ [sv EXCEPT !.void = @ \/ v].st = sv.st
           /\ [sv EXCEPT !.void = @ \/ v].on = sv.on
           /\ [sv EXCEPT !.void = @ \/ v].text = sv.text
           /\ [sv EXCEPT !.void = @ \/ v].void = (sv.void \/ v)
BY DEF Save

(* A save that goes on is a save that sends, or waits for a queue.          *)
LEMMA ResumedType ==
    ASSUME NEW sv \in Save, NEW cur \in {0} \cup Slot
    PROVE  /\ Resumed(sv, cur) \in Save
           /\ \/ Resumed(sv, cur).st = "queue" /\ cur # 0
                 /\ Resumed(sv, cur).on = cur
              \/ Resumed(sv, cur).st = "sent"
BY DEF Resumed, Save

(* syncDocument hands its text to the queue or begins a loop.               *)
LEMMA SyncType ==
    ASSUME TypeOK, NEW t \in Text, NEW mode \in {"open", "change"},
           NEW r \in Ref, NEW p \in Pill, SyncDocument(t, mode, r, p)
    PROVE  /\ ref' \in Ref /\ pill' \in Pill
           /\ loop' \in [Slot -> Loop] /\ Occupied' /\ late' \in BOOLEAN
<1> DEFINE job == [mode |-> mode, text |-> t]
<1>0. job \in Job
  BY DEF Job
<1>1. CASE ref' = r /\ pill' = p /\ UNCHANGED loop /\ UNCHANGED late
  BY <1>1 DEF TypeOK, Occupied
<1>2. CASE /\ r.cur # 0
           /\ loop' = [loop EXCEPT ![r.cur].next = job]
           /\ ref' = r /\ pill' = p
           /\ UNCHANGED late
  <2> HIDE DEF job
  <2>1. r.cur \in Slot
    BY <1>2 DEF Ref
  <2>2. [loop[r.cur] EXCEPT !.next = job] \in Loop
    BY <2>1, <1>0 DEF TypeOK, Loop
  <2>3. loop' \in [Slot -> Loop]
    BY <1>2, <2>2 DEF TypeOK
  <2>4. \A s \in Slot : loop'[s].st = loop[s].st /\ loop'[s].text = loop[s].text
    BY <1>2, <2>1 DEF TypeOK, Loop
  <2> QED BY <1>2, <2>3, <2>4 DEF TypeOK, Occupied
<1>3. CASE /\ r.cur = 0 /\ (mode = "open" \/ r.active)
           /\ \E s \in Slot :
                /\ FreeSlot(s)
                /\ loop' = [loop EXCEPT ![s] = CallOf(r, job)]
                /\ ref' = [r EXCEPT !.cur = s]
           /\ pill' = Busy(p, r, mode)
           /\ late' = (late \/ close' # "idle")
  <2> HIDE DEF job
  <2>1. PICK s \in Slot : /\ loop' = [loop EXCEPT ![s] = CallOf(r, job)]
                          /\ ref' = [r EXCEPT !.cur = s]
    BY <1>3
  <2>2. loop' \in [Slot -> Loop] /\ Occupied'
    BY <2>1, <1>0, CallType DEF TypeOK, Occupied
  <2>3. ref' \in Ref
    BY <2>1 DEF Ref
  <2>4. pill' \in Pill
    BY <1>3 DEF Busy, Pill
  <2> QED BY <1>3, <2>2, <2>3, <2>4
<1> QED BY <1>1, <1>2, <1>3 DEF SyncDocument

(* The end of a loop frees its slot and lets a waiting save go on.          *)
LEMMA EndedType ==
    ASSUME TypeOK, NEW s \in Slot, ref' \in Ref, Ended(s)
    PROVE  loop' \in [Slot -> Loop] /\ Occupied' /\ save' \in Save
<1>1. loop' \in [Slot -> Loop] /\ Occupied'
  BY NoLoopType DEF Ended, TypeOK, Occupied
<1>2. ref'.cur \in {0} \cup Slot
  BY DEF Ref
<1>3. save \in Save /\ (loop[s].st = "failed") \in BOOLEAN
  BY DEF TypeOK
<1>4. [save EXCEPT !.void = @ \/ loop[s].st = "failed"] \in Save
  BY <1>3, VoidType
<1>5. save' \in Save
  BY <1>2, <1>3, <1>4, ResumedType DEF Ended
<1> QED BY <1>1, <1>5

LEMMA LeaveType ==
    ASSUME NEW r \in Ref, NEW s \in Slot
    PROVE  LeaveQueue(r, s) \in Ref
BY DEF LeaveQueue, Ref

(* A loop goes on with the text handed to it, or ends.                      *)
LEMMA GoOnType ==
    ASSUME TypeOK, NEW s \in Slot, NEW r \in Ref, NEW ok \in BOOLEAN, GoOn(s, r, ok)
    PROVE  /\ ref' \in Ref /\ loop' \in [Slot -> Loop] /\ Occupied'
           /\ save' \in Save
<1>1. CASE loop[s].next = NoJob
  <2>1. ref' = LeaveQueue(r, s) /\ Ended(s)
    BY <1>1 DEF GoOn
  <2> QED BY <2>1, EndedType, LeaveType
<1>2. CASE loop[s].next # NoJob
  <2> DEFINE mode == IF ok THEN "change" ELSE loop[s].next.mode
             job == [loop[s].next EXCEPT !.mode = mode]
  <2>1. loop' = [loop EXCEPT ![s] = CallOf(r, job)] /\ ref' = r /\ save' = save
    BY <1>2 DEF GoOn
  <2>2. loop[s].next \in Job
    BY <1>2 DEF TypeOK, Loop
  <2>3. job \in Job
    BY <2>2 DEF Job
  <2> HIDE DEF job
  <2> QED BY <2>1, <2>3, CallType DEF TypeOK, Occupied
<1> QED BY <1>1, <1>2

(* Every step keeps the types.                                              *)
LEMMA TypeStep == TypeOK /\ [Next]_vars => TypeOK'
<1> SUFFICES ASSUME TypeOK, [Next]_vars PROVE TypeOK'
  OBVIOUS
<1>0. TypeOK <=> /\ tab \in {"closed", "open", "closing", "kept", "reopening"}
                 /\ text \in Text
                 /\ timer \in BOOLEAN /\ stop \in BOOLEAN /\ late \in BOOLEAN
                 /\ ref \in Ref /\ pill \in Pill /\ save \in Save
                 /\ loop \in [Slot -> Loop] /\ Occupied
                 /\ close \in {"idle", "sent"} \cup Answer
                 /\ strays \in Nat
                 /\ server \in [up: BOOLEAN, doc: Text \cup {None, Garbled}]
                 /\ opens \in 0 .. MaxOpens /\ moves \in 0 .. MaxMoves
                 /\ faults \in 0 .. MaxFaults
  BY DEF TypeOK, Occupied
<1>n. MaxOpens \in Nat /\ MaxMoves \in Nat /\ MaxFaults \in Nat /\ First \in Text
  BY LspAssumption DEF LspAssumption
<1>1. ASSUME NEW s \in Slot, LoopAbandoned(s) PROVE TypeOK'
  <2> DEFINE r == [ref EXCEPT !.active = (loop[s].st = "ok")]
  <2>1. r \in Ref
    BY DEF TypeOK, Ref
  <2>2. ref' = LeaveQueue(r, s) /\ Ended(s)
    BY <1>1 DEF LoopAbandoned
  <2> HIDE DEF r
  <2>3. ref' \in Ref /\ loop' \in [Slot -> Loop] /\ Occupied' /\ save' \in Save
    BY <2>1, <2>2, LeaveType, EndedType
  <2> QED BY <1>1, <2>3 DEF LoopAbandoned, TypeOK, Occupied
<1>2. ASSUME NEW s \in Slot, LoopAnswered(s) PROVE TypeOK'
  <2> DEFINE ok == loop[s].st = "ok"
             r == [ref EXCEPT !.active = ok,
                              !.synced = IF ok THEN loop[s].text ELSE None,
                              !.inc = ok /\ Incremental]
  <2>1. loop[s].text \in Text \cup {None} /\ Incremental \in BOOLEAN
    BY LspAssumption DEF TypeOK, Loop, LspAssumption
  <2>2. r \in Ref
    BY <2>1 DEF TypeOK, Ref
  <2>3. GoOn(s, r, ok)
    BY <1>2 DEF LoopAnswered
  <2>4. ok \in BOOLEAN
    OBVIOUS
  <2>5. pill' \in Pill
    BY <1>2 DEF LoopAnswered, Pill
  <2> HIDE DEF r, ok
  <2>6. ref' \in Ref /\ loop' \in [Slot -> Loop] /\ Occupied' /\ save' \in Save
    BY <2>2, <2>3, <2>4, GoOnType
  <2> QED BY <1>2, <2>5, <2>6 DEF LoopAnswered, TypeOK, Occupied
<1>3. ASSUME NEW s \in Slot, LoopRetries(s) PROVE TypeOK'
  <2>1. [loop[s] EXCEPT !.st = "sent", !.omit = FALSE] \in Loop
    BY LoopWith DEF TypeOK
  <2>2. loop' \in [Slot -> Loop]
    BY <1>3, <2>1 DEF LoopRetries, TypeOK
  <2>3. Occupied'
    BY <1>3 DEF LoopRetries, TypeOK, Occupied, Loop
  <2> QED BY <1>3, <2>2, <2>3 DEF LoopRetries, TypeOK, Occupied
<1>4. ASSUME NEW s \in Slot, LoopFailed(s) PROVE TypeOK'
  <2>1. ref \in Ref
    BY DEF TypeOK
  <2>2. CASE loop[s].closed \/ ~HasBuffer
    <3>1. ref' \in Ref /\ loop' \in [Slot -> Loop] /\ Occupied' /\ save' \in Save
      BY <1>4, <2>1, <2>2, LeaveType, EndedType DEF LoopFailed
    <3> QED BY <1>4, <2>2, <3>1 DEF LoopFailed, TypeOK, Occupied
  <2>3. CASE ~(loop[s].closed \/ ~HasBuffer)
    <3>1. ref' \in Ref /\ loop' \in [Slot -> Loop] /\ Occupied' /\ save' \in Save
      BY <1>4, <2>1, <2>3, GoOnType DEF LoopFailed
    <3>2. pill' \in Pill
      BY <1>4, <2>3 DEF LoopFailed, TypeOK, Pill
    <3> QED BY <1>4, <3>1, <3>2 DEF LoopFailed, TypeOK, Occupied
  <2> QED BY <2>2, <2>3
<1>5. ASSUME NEW s \in Slot, ServeLoop(s) PROVE TypeOK'
  <2>1. PICK a \in Answer : loop' = [loop EXCEPT ![s].st = a]
    BY <1>5 DEF ServeLoop, Answer
  <2>2. [loop[s] EXCEPT !.st = a] \in Loop
    BY <2>1 DEF TypeOK, Loop
  <2>3. loop' \in [Slot -> Loop]
    BY <2>1, <2>2 DEF TypeOK
  <2>4. Occupied'
    BY <1>5, <2>1 DEF ServeLoop, TypeOK, Occupied, Loop, Answer
  <2>5. loop[s].text \in Text \cup {None} /\ Changed(loop[s]) \in Text \cup {None, Garbled}
    BY DEF TypeOK, Loop, Changed
  <2>6. server' \in [up: BOOLEAN, doc: Text \cup {None, Garbled}]
    <3>1. server \in [up: BOOLEAN, doc: Text \cup {None, Garbled}]
      BY DEF TypeOK
    <3>2. \/ server' = server
          \/ server' = [up |-> TRUE, doc |-> loop[s].text]
          \/ server' = [server EXCEPT !.doc = Changed(loop[s])]
      BY <1>5 DEF ServeLoop
    <3>3. /\ [up |-> TRUE, doc |-> loop[s].text] \in
                 [up: BOOLEAN, doc: Text \cup {None, Garbled}]
          /\ [server EXCEPT !.doc = Changed(loop[s])] \in
                 [up: BOOLEAN, doc: Text \cup {None, Garbled}]
      BY <2>5, <3>1, ServerWith
    <3> QED BY <3>1, <3>2, <3>3
  <2>7. faults' \in 0 .. MaxFaults
    BY <1>5, <1>n DEF ServeLoop, Fault, TypeOK
  <2> QED BY <1>5, <2>3, <2>4, <2>6, <2>7 DEF ServeLoop, TypeOK, Occupied
<1>6. CASE ServeSave
  <2>1. save' \in Save
    BY <1>6 DEF ServeSave, TypeOK, Save, Answer
  <2>2. faults' \in 0 .. MaxFaults
    BY <1>6, <1>n DEF ServeSave, Fault, TypeOK
  <2> QED BY <1>6, <2>1, <2>2 DEF ServeSave, TypeOK
<1>7. CASE ServeClose \/ ServeStray \/ ServeStop \/ Crash \/ OtherFileOpened
  <2>1. server \in [up: BOOLEAN, doc: Text \cup {None, Garbled}]
    BY DEF TypeOK
  <2>2. server' \in [up: BOOLEAN, doc: Text \cup {None, Garbled}]
    <3>1. \/ server' = server
          \/ server' = [server EXCEPT !.doc = None]
          \/ server' = [server EXCEPT !.up = TRUE]
          \/ server' = [up |-> FALSE, doc |-> None]
      BY <1>7 DEF ServeClose, ServeStray, ServeStop, Crash, OtherFileOpened
    <3>2. /\ [server EXCEPT !.doc = None] \in
                 [up: BOOLEAN, doc: Text \cup {None, Garbled}]
          /\ [server EXCEPT !.up = TRUE] \in
                 [up: BOOLEAN, doc: Text \cup {None, Garbled}]
          /\ [up |-> FALSE, doc |-> None] \in
                 [up: BOOLEAN, doc: Text \cup {None, Garbled}]
      BY <2>1, ServerWith
    <3> QED BY <2>1, <3>1, <3>2
  <2>3. faults' \in 0 .. MaxFaults
    BY <1>7, <1>n DEF ServeClose, ServeStray, ServeStop, Crash, OtherFileOpened,
                      Fault, TypeOK
  <2>4. CASE ServeClose
    BY <2>2, <2>3, <2>4 DEF ServeClose, Answer, TypeOK
  <2>5. CASE ServeStray
    BY <2>2, <2>5 DEF ServeStray, TypeOK
  <2>6. CASE ServeStop \/ Crash \/ OtherFileOpened
    BY <2>2, <2>3, <2>6 DEF ServeStop, Crash, OtherFileOpened, TypeOK
  <2> QED BY <1>7, <2>4, <2>5, <2>6
<1>8. ASSUME NEW t \in Text, Type(t) PROVE TypeOK'
  <2>1. save' \in Save
    BY <1>8 DEF Type, TypeOK, Save
  <2>2. timer' \in BOOLEAN
    BY <1>8 DEF Type, LiveSync, TypeOK, Pill
  <2> QED BY <1>8, <1>n, <2>1, <2>2 DEF Type, Move, TypeOK
<1>9. CASE TimerFires
  <2>1. CASE HasBuffer /\ LiveSync /\ ~(pill.status = "active" /\ Synced(ref, text))
    <3>1. PICK mode \in {"open", "change"} : SyncDocument(text, mode, ref, pill)
      BY <1>9, <2>1 DEF TimerFires
    <3>2. text \in Text /\ ref \in Ref /\ pill \in Pill
      BY DEF TypeOK
    <3> QED BY <1>9, <3>1, <3>2, SyncType DEF TimerFires, TypeOK, Occupied
  <2>2. CASE ~(HasBuffer /\ LiveSync /\ ~(pill.status = "active" /\ Synced(ref, text)))
    BY <1>9, <2>2 DEF TimerFires, TypeOK
  <2> QED BY <2>1, <2>2
<1>10. CASE OpenFile
  <2>1. NoPill \in Pill
    BY DEF NoPill, Pill
  <2> QED BY <1>10, <1>n, <2>1 DEF OpenFile, Open, TypeOK
<1>11. CASE Focus
  <2>1. text \in Text /\ ref \in Ref /\ pill \in Pill
    BY DEF TypeOK
  <2> QED BY <1>11, <2>1, SyncType DEF Focus, TypeOK, Occupied
<1>12. CASE CloseFile
  <2>1. ref' \in Ref
    BY <1>12 DEF CloseFile, TypeOK, Ref
  <2>2. save' \in Save
    BY <1>12, ResumedType DEF CloseFile, TypeOK
  <2>3. loop' \in [Slot -> Loop] /\ Occupied'
    <3>1. CASE ref.cur = 0
      BY <1>12, <3>1 DEF CloseFile, TypeOK, Occupied
    <3>2. CASE ref.cur # 0
      <4> DEFINE l == [loop[ref.cur] EXCEPT !.closed = TRUE, !.next = NoJob]
      <4>1. ref.cur \in Slot
        BY <3>2 DEF TypeOK, Ref
      <4>2. l \in Loop /\ l.st = loop[ref.cur].st /\ l.text = loop[ref.cur].text
        BY <4>1, LoopWith DEF TypeOK
      <4>3. loop' = [loop EXCEPT ![ref.cur] = l]
        BY <1>12, <3>2 DEF CloseFile
      <4> HIDE DEF l
      <4> QED BY <4>1, <4>2, <4>3 DEF TypeOK, Occupied
    <3> QED BY <3>1, <3>2
  <2> QED BY <1>12, <2>1, <2>2, <2>3 DEF CloseFile, TypeOK, Occupied
<1>13. CASE Reopen
  BY <1>13, <1>n DEF Reopen, Open, TypeOK
<1>14. CASE CloseAnswered
  <2>1. Forgotten(ref) \in Ref /\ NoPill \in Pill
    BY DEF Forgotten, TypeOK, Ref, NoPill, Pill
  <2>2. CASE tab = "closing"
    BY <1>14, <2>1, <2>2 DEF CloseAnswered, TypeOK
  <2>3. CASE tab # "closing"
    <3>1. text \in Text /\ pill \in Pill
      BY DEF TypeOK
    <3> QED BY <1>14, <2>1, <2>3, <3>1, SyncType DEF CloseAnswered, TypeOK, Occupied
  <2> QED BY <2>2, <2>3
<1>15. CASE CloseFailed
  BY <1>15 DEF CloseFailed, TypeOK
<1>16. CASE SaveDocument
  <2>1. text \in Text /\ ref \in Ref /\ pill \in Pill
    BY DEF TypeOK
  <2>2. CASE Synced(ref, text)
    <3>1. save' \in Save
      BY <1>16, <2>1, <2>2 DEF SaveDocument, NoSave, Save
    <3> QED BY <1>16, <1>n, <2>2, <3>1 DEF SaveDocument, Move, TypeOK
  <2>3. CASE ~Synced(ref, text)
    <3>1. SyncDocument(text, "change", ref, pill)
      BY <1>16, <2>3 DEF SaveDocument
    <3>2. /\ ref' \in Ref /\ pill' \in Pill
          /\ loop' \in [Slot -> Loop] /\ Occupied' /\ late' \in BOOLEAN
      BY <2>1, <3>1, SyncType
    <3>3. ref'.cur \in {0} \cup Slot
      BY <3>2 DEF Ref
    <3>4. save' \in Save
      BY <1>16, <2>1, <2>3, <3>3 DEF SaveDocument, NoSave, Save
    <3> QED BY <1>16, <1>n, <3>2, <3>4 DEF SaveDocument, Move, TypeOK, Occupied
  <2> QED BY <2>2, <2>3
<1>17. CASE SaveAnswered
  <2>1. NoSave \in Save
    BY DEF NoSave, Save
  <2>2. CASE ~HasBuffer
    BY <1>17, <2>1, <2>2 DEF SaveAnswered, TypeOK
  <2>3. CASE HasBuffer
    <3> DEFINE ok == save.st = "ok"
               r == [ref EXCEPT !.synced = IF ok THEN save.text ELSE None,
                                !.active = ok, !.misled = @ \/ (ok /\ save.void)]
               p == [status |-> IF ok THEN "active" ELSE "inactive",
                     syncing |-> FALSE, error |-> FALSE]
    <3>1. r \in Ref /\ p \in Pill /\ text \in Text
      BY DEF TypeOK, Ref, Pill, Save
    <3>2. \/ ref' = r /\ pill' = p /\ UNCHANGED <<loop, late>>
          \/ SyncDocument(text, "change", r, p)
      BY <1>17, <2>3 DEF SaveAnswered
    <3> HIDE DEF r, p
    <3>3. CASE ref' = r /\ pill' = p /\ UNCHANGED <<loop, late>>
      BY <1>17, <2>1, <3>1, <3>3 DEF SaveAnswered, TypeOK
    <3>4. CASE SyncDocument(text, "change", r, p)
      BY <1>17, <2>1, <3>1, <3>4, SyncType DEF SaveAnswered, TypeOK, Occupied
    <3> QED BY <3>2, <3>3, <3>4
  <2> QED BY <2>2, <2>3
<1>18. CASE SaveFailed
  <2>1. NoSave \in Save
    BY DEF NoSave, Save
  <2>2. pill' \in Pill
    BY <1>18 DEF SaveFailed, TypeOK, Pill
  <2> QED BY <1>18, <2>1, <2>2 DEF SaveFailed, TypeOK
<1>19. CASE Restart
  <2>1. Forgotten(ref) \in Ref
    BY DEF Forgotten, TypeOK, Ref
  <2> QED BY <1>19, <1>n, <2>1 DEF Restart, Fault, TypeOK
<1>20. CASE FeatureAnswered
  <2>1. ref' \in Ref
    BY <1>20 DEF FeatureAnswered, TypeOK, Ref
  <2>2. pill' \in Pill
    BY <1>20 DEF FeatureAnswered, Pill
  <2> QED BY <1>20, <2>1, <2>2 DEF FeatureAnswered, TypeOK
<1>21. CASE UNCHANGED vars
  BY <1>21 DEF vars, TypeOK
<1> QED BY <1>1, <1>2, <1>3, <1>4, <1>5, <1>6, <1>7, <1>8, <1>9, <1>10, <1>11, <1>12,
           <1>13, <1>14, <1>15, <1>16, <1>17, <1>18, <1>19, <1>20, <1>21
        DEF Next, LoopStep

LEMMA TypeInit == Init => TypeOK
<1> SUFFICES ASSUME Init PROVE TypeOK
  OBVIOUS
<1>1. MaxOpens \in Nat /\ MaxMoves \in Nat /\ MaxFaults \in Nat /\ First \in Text
  BY LspAssumption DEF LspAssumption
<1>2. ref \in Ref /\ pill \in Pill /\ save \in Save
  BY DEF Init, Ref, NoPill, Pill, NoSave, Save
<1>3. loop \in [Slot -> Loop] /\ Occupied
  BY NoLoopType DEF Init, Occupied
<1>4. server \in [up: BOOLEAN, doc: Text \cup {None, Garbled}]
  BY DEF Init
<1>5. opens \in 0 .. MaxOpens /\ moves \in 0 .. MaxMoves /\ faults \in 0 .. MaxFaults
  BY <1>1 DEF Init
<1>6. /\ tab = "closed" /\ text \in Text /\ close = "idle" /\ strays = 0
      /\ timer = FALSE /\ stop = FALSE /\ late = FALSE
  BY <1>1 DEF Init
<1> QED BY <1>2, <1>3, <1>4, <1>5, <1>6 DEF TypeOK, Occupied

(* What the session, the loops, a save and the server hold keeps its type,  *)
(* and a loop that is alive has a text.                                     *)
THEOREM TypeCorrect == Spec => []TypeOK
BY TypeInit, TypeStep, PTL DEF Spec

-----------------------------------------------------------------------------
(* A waiting save is woken.                                                 *)

(* The queue that texts are handed to belongs to a loop that is alive and   *)
(* was not closed.                                                          *)
QueueIsOwned == ref.cur # 0 => loop[ref.cur].st # "idle" /\ ~loop[ref.cur].closed

(* A save waits for some loop.                                              *)
WaitsForLoop == save.st \in {"loop", "queue"} => save.on \in Slot

Awaited == TypeOK /\ QueueIsOwned /\ WaitsForLoop /\ SaveIsAwaited

(* What most steps do: no loop ends, none is closed, the queue is the same  *)
(* and a save that waits waited before, for the same loop.                  *)
LoopsGoOn ==
    \A s \in Slot : /\ loop'[s].st = "idle" => loop[s].st = "idle"
                    /\ loop'[s].closed => loop[s].closed
WaitsAsBefore ==
    save'.st \in {"loop", "queue"} => save'.st = save.st /\ save'.on = save.on

LEMMA GoOnKeeps ==
    ASSUME Awaited, LoopsGoOn, ref'.cur = ref.cur, WaitsAsBefore
    PROVE  QueueIsOwned' /\ WaitsForLoop' /\ SaveIsAwaited'
<1>1. ref.cur \in {0} \cup Slot
  BY DEF Awaited, TypeOK, Ref
<1>2. QueueIsOwned'
  BY <1>1 DEF Awaited, LoopsGoOn, QueueIsOwned
<1>3. WaitsForLoop'
  BY DEF Awaited, WaitsAsBefore, WaitsForLoop
<1>4. SaveIsAwaited'
  BY DEF Awaited, LoopsGoOn, WaitsAsBefore, WaitsForLoop, SaveIsAwaited
<1> QED BY <1>2, <1>3, <1>4

(* syncDocument leaves the loops going, and a queue it makes is a new one.  *)
LEMMA SyncKeeps ==
    ASSUME Awaited, NEW t \in Text, NEW mode \in {"open", "change"},
           NEW r \in Ref, NEW p \in Pill, r.cur = ref.cur,
           SyncDocument(t, mode, r, p)
    PROVE  /\ LoopsGoOn
           /\ \/ ref'.cur = ref.cur
              \/ /\ ref.cur = 0 /\ ref'.cur \in Slot
                 /\ loop'[ref'.cur].st # "idle" /\ ~loop'[ref'.cur].closed
<1> DEFINE job == [mode |-> mode, text |-> t]
<1>0. job \in Job /\ loop \in [Slot -> Loop]
  BY DEF Job, Awaited, TypeOK
<1>1. CASE ref' = r /\ UNCHANGED loop
  BY <1>1 DEF LoopsGoOn
<1>2. CASE r.cur # 0 /\ loop' = [loop EXCEPT ![r.cur].next = job] /\ ref' = r
  <2> HIDE DEF job
  <2>1. r.cur \in Slot
    BY <1>2 DEF Ref
  <2>2. \A s \in Slot : loop'[s].st = loop[s].st /\ loop'[s].closed = loop[s].closed
    BY <1>0, <1>2, <2>1 DEF Loop
  <2> QED BY <1>2, <2>2 DEF LoopsGoOn
<1>3. ASSUME NEW s \in Slot, r.cur = 0, loop' = [loop EXCEPT ![s] = CallOf(r, job)],
             ref' = [r EXCEPT !.cur = s]
      PROVE  /\ LoopsGoOn
             /\ ref.cur = 0 /\ ref'.cur \in Slot
             /\ loop'[ref'.cur].st # "idle" /\ ~loop'[ref'.cur].closed
  <2> HIDE DEF job
  <2>1. CallOf(r, job).st = "sent" /\ ~CallOf(r, job).closed
    BY <1>0, CallType
  <2>2. loop'[s] = CallOf(r, job) /\ \A u \in Slot \ {s} : loop'[u] = loop[u]
    BY <1>0, <1>3
  <2>3. ref'.cur = s
    BY <1>3 DEF Ref
  <2> QED BY <1>3, <2>1, <2>2, <2>3 DEF LoopsGoOn
<1> QED BY <1>1, <1>2, <1>3 DEF SyncDocument

(* A new queue makes no difference to a save that waits.                    *)
LEMMA SyncAwaited ==
    ASSUME Awaited, NEW t \in Text, NEW mode \in {"open", "change"},
           NEW r \in Ref, NEW p \in Pill, r.cur = ref.cur,
           SyncDocument(t, mode, r, p), WaitsAsBefore
    PROVE  QueueIsOwned' /\ WaitsForLoop' /\ SaveIsAwaited'
<1>1. LoopsGoOn
  BY SyncKeeps
<1>2. CASE ref'.cur = ref.cur
  BY <1>1, <1>2, GoOnKeeps
<1>3. CASE /\ ref.cur = 0 /\ ref'.cur \in Slot
           /\ loop'[ref'.cur].st # "idle" /\ ~loop'[ref'.cur].closed
  <2>1. save.st # "queue"
    BY <1>3, SlotIsPositive DEF Awaited, SaveIsAwaited, WaitsForLoop
  <2> QED BY <1>1, <1>3, <2>1
        DEF Awaited, LoopsGoOn, QueueIsOwned, WaitsAsBefore, WaitsForLoop, SaveIsAwaited
<1> QED BY <1>2, <1>3, SyncKeeps

(* A loop that ends leaves its queue and resolves the waits for it: the     *)
(* save goes on, or waits for the queue there is by then.                   *)
LEMMA EndedAwaited ==
    ASSUME Awaited, NEW s \in Slot, NEW r \in Ref, r.cur = ref.cur,
           ref' = LeaveQueue(r, s), Ended(s)
    PROVE  QueueIsOwned' /\ WaitsForLoop' /\ SaveIsAwaited'
<1>1. /\ ref'.cur = IF ref.cur = s THEN 0 ELSE ref.cur
      /\ ref.cur \in {0} \cup Slot
  BY DEF LeaveQueue, Ref
<1>2. \A u \in Slot : u # s => loop'[u] = loop[u]
  BY DEF Ended, Awaited, TypeOK
<1>3. QueueIsOwned'
  BY <1>1, <1>2 DEF Awaited, QueueIsOwned
<1>4. CASE save.on = s
  <2> DEFINE sv == [save EXCEPT !.void = @ \/ loop[s].st = "failed"]
  <2>1. save' = Resumed(sv, ref'.cur) /\ sv \in Save
    BY <1>4, VoidType DEF Ended, Awaited, TypeOK
  <2> HIDE DEF sv
  <2>2. \/ save'.st = "queue" /\ ref'.cur # 0 /\ save'.on = ref'.cur
        \/ save'.st = "sent"
    BY <1>1, <2>1, ResumedType
  <2> QED BY <1>1, <1>3, <2>2 DEF QueueIsOwned, WaitsForLoop, SaveIsAwaited
<1>5. CASE save.on # s
  <2>1. save' = save
    BY <1>5 DEF Ended
  <2> QED BY <1>1, <1>2, <1>3, <1>5, <2>1
          DEF Awaited, WaitsForLoop, SaveIsAwaited, QueueIsOwned
<1> QED BY <1>4, <1>5

(* A loop that goes on keeps its queue.                                     *)
LEMMA GoOnAwaited ==
    ASSUME Awaited, NEW s \in Slot, loop[s].st # "idle", NEW r \in Ref,
           r.cur = ref.cur, NEW ok \in BOOLEAN, GoOn(s, r, ok)
    PROVE  QueueIsOwned' /\ WaitsForLoop' /\ SaveIsAwaited'
<1>1. CASE loop[s].next = NoJob
  BY <1>1, EndedAwaited DEF GoOn
<1>2. CASE loop[s].next # NoJob
  <2> DEFINE mode == IF ok THEN "change" ELSE loop[s].next.mode
             job == [loop[s].next EXCEPT !.mode = mode]
  <2>1. loop' = [loop EXCEPT ![s] = CallOf(r, job)] /\ ref' = r /\ save' = save
    BY <1>2 DEF GoOn
  <2>2. loop[s].next \in Job
    BY <1>2 DEF Awaited, TypeOK, Loop
  <2>3. job \in Job
    BY <2>2 DEF Job
  <2> HIDE DEF job
  <2>4. CallOf(r, job).st = "sent" /\ ~CallOf(r, job).closed
    BY <2>3, CallType
  <2>5. LoopsGoOn
    BY <2>1, <2>4 DEF Awaited, TypeOK, LoopsGoOn
  <2> QED BY <2>1, <2>5, GoOnKeeps DEF WaitsAsBefore
<1> QED BY <1>1, <1>2

(* Every step leaves a waiting save something that will wake it.            *)
LEMMA AwaitedStep == Awaited /\ [Next]_vars => Awaited'
<1> SUFFICES ASSUME Awaited, [Next]_vars
             PROVE  QueueIsOwned' /\ WaitsForLoop' /\ SaveIsAwaited'
  BY TypeStep DEF Awaited
<1>0. /\ text \in Text /\ ref \in Ref /\ pill \in Pill /\ save \in Save
      /\ loop \in [Slot -> Loop]
  BY DEF Awaited, TypeOK
<1>1. ASSUME NEW s \in Slot, LoopAbandoned(s)
      PROVE  QueueIsOwned' /\ WaitsForLoop' /\ SaveIsAwaited'
  <2> DEFINE r == [ref EXCEPT !.active = (loop[s].st = "ok")]
  <2>1. r \in Ref /\ r.cur = ref.cur
    BY <1>0 DEF Ref
  <2>2. ref' = LeaveQueue(r, s) /\ Ended(s)
    BY <1>1 DEF LoopAbandoned
  <2> HIDE DEF r
  <2> QED BY <2>1, <2>2, EndedAwaited
<1>2. ASSUME NEW s \in Slot, LoopAnswered(s)
      PROVE  QueueIsOwned' /\ WaitsForLoop' /\ SaveIsAwaited'
  <2> DEFINE ok == loop[s].st = "ok"
             r == [ref EXCEPT !.active = ok,
                              !.synced = IF ok THEN loop[s].text ELSE None,
                              !.inc = ok /\ Incremental]
  <2>1. loop[s].text \in Text \cup {None} /\ Incremental \in BOOLEAN
    BY <1>0, LspAssumption DEF Loop, LspAssumption
  <2>2. r \in Ref /\ r.cur = ref.cur
    BY <1>0, <2>1 DEF Ref
  <2>3. GoOn(s, r, ok) /\ ok \in BOOLEAN /\ loop[s].st # "idle"
    BY <1>2 DEF LoopAnswered
  <2> HIDE DEF r, ok
  <2> QED BY <2>2, <2>3, GoOnAwaited
<1>3. ASSUME NEW s \in Slot, LoopFailed(s)
      PROVE  QueueIsOwned' /\ WaitsForLoop' /\ SaveIsAwaited'
  <2>1. CASE loop[s].closed \/ ~HasBuffer
    BY <1>0, <1>3, <2>1, EndedAwaited DEF LoopFailed
  <2>2. CASE ~(loop[s].closed \/ ~HasBuffer)
    <3>1. GoOn(s, ref, FALSE) /\ loop[s].st # "idle"
      BY <1>3, <2>2 DEF LoopFailed
    <3> QED BY <1>0, <3>1, GoOnAwaited
  <2> QED BY <2>1, <2>2
<1>4. ASSUME NEW s \in Slot, LoopRetries(s) \/ ServeLoop(s)
      PROVE  QueueIsOwned' /\ WaitsForLoop' /\ SaveIsAwaited'
  <2>1. ref' = ref /\ save' = save
    BY <1>4 DEF LoopRetries, ServeLoop
  <2>2. LoopsGoOn
    <3>1. CASE LoopRetries(s)
      <4> DEFINE l == [loop[s] EXCEPT !.st = "sent", !.omit = FALSE]
      <4>1. l.st = "sent" /\ l.closed = loop[s].closed
        BY <1>0 DEF Loop
      <4>2. loop' = [loop EXCEPT ![s] = l]
        BY <3>1 DEF LoopRetries
      <4> HIDE DEF l
      <4> QED BY <1>0, <4>1, <4>2 DEF LoopsGoOn
    <3>2. CASE ServeLoop(s)
      <4>1. PICK a \in Answer : loop' = [loop EXCEPT ![s].st = a]
        BY <3>2 DEF ServeLoop, Answer
      <4> QED BY <1>0, <4>1 DEF LoopsGoOn, Loop, Answer
    <3> QED BY <1>4, <3>1, <3>2
  <2> QED BY <2>1, <2>2, GoOnKeeps DEF WaitsAsBefore
<1>5. ASSUME UNCHANGED loop, ref'.cur = ref.cur, WaitsAsBefore
      PROVE  QueueIsOwned' /\ WaitsForLoop' /\ SaveIsAwaited'
  BY <1>5, GoOnKeeps DEF LoopsGoOn
<1>6. CASE \/ ServeClose \/ ServeStray \/ ServeStop \/ Crash \/ OtherFileOpened
           \/ OpenFile \/ Reopen \/ CloseFailed \/ UNCHANGED vars
  BY <1>5, <1>6 DEF ServeClose, ServeStray, ServeStop, Crash, OtherFileOpened,
       OpenFile, Reopen, CloseFailed, vars, WaitsAsBefore
<1>7. CASE ServeSave \/ SaveFailed
  <2>1. UNCHANGED <<loop, ref>>
    BY <1>7 DEF ServeSave, SaveFailed
  <2>2. WaitsAsBefore
    BY <1>0, <1>7 DEF ServeSave, SaveFailed, WaitsAsBefore, NoSave, Save
  <2> QED BY <1>5, <2>1, <2>2
<1>8. ASSUME NEW t \in Text, Type(t)
      PROVE  QueueIsOwned' /\ WaitsForLoop' /\ SaveIsAwaited'
  <2>1. UNCHANGED <<loop, ref>> /\ WaitsAsBefore
    BY <1>0, <1>8 DEF Type, WaitsAsBefore, Save
  <2> QED BY <1>5, <2>1
<1>9. CASE Restart \/ FeatureAnswered
  <2>1. UNCHANGED loop /\ WaitsAsBefore
    BY <1>9 DEF Restart, FeatureAnswered, WaitsAsBefore
  <2>2. ref'.cur = ref.cur
    BY <1>0, <1>9 DEF Restart, FeatureAnswered, Forgotten, Ref
  <2> QED BY <1>5, <2>1, <2>2
<1>10. CASE TimerFires
  <2>1. WaitsAsBefore
    BY <1>10 DEF TimerFires, WaitsAsBefore
  <2>2. CASE HasBuffer /\ LiveSync /\ ~(pill.status = "active" /\ Synced(ref, text))
    <3>1. PICK mode \in {"open", "change"} : SyncDocument(text, mode, ref, pill)
      BY <1>10, <2>2 DEF TimerFires
    <3> QED BY <1>0, <2>1, <3>1, SyncAwaited
  <2>3. CASE ~(HasBuffer /\ LiveSync /\ ~(pill.status = "active" /\ Synced(ref, text)))
    BY <1>5, <1>10, <2>1, <2>3 DEF TimerFires
  <2> QED BY <2>2, <2>3
<1>11. CASE Focus
  BY <1>0, <1>11, SyncAwaited DEF Focus, WaitsAsBefore
<1>12. CASE CloseFile
  <2>1. ref'.cur = 0
    BY <1>0, <1>12 DEF CloseFile, Ref
  <2>2. \A s \in Slot : loop'[s].st = loop[s].st
    <3>1. CASE ref.cur = 0
      BY <1>12, <3>1 DEF CloseFile
    <3>2. CASE ref.cur # 0
      <4> DEFINE l == [loop[ref.cur] EXCEPT !.closed = TRUE, !.next = NoJob]
      <4>1. ref.cur \in Slot
        BY <1>0, <3>2 DEF Ref
      <4>2. l.st = loop[ref.cur].st
        BY <1>0, <4>1, LoopWith
      <4>3. loop' = [loop EXCEPT ![ref.cur] = l]
        BY <1>12, <3>2 DEF CloseFile
      <4> HIDE DEF l
      <4> QED BY <1>0, <4>1, <4>2, <4>3
    <3> QED BY <3>1, <3>2
  <2>3. save'.st # "queue" /\ (save'.st = "loop" => save' = save)
    <3>1. CASE save.st = "queue" /\ save.on = ref.cur
      <4>1. save' = Resumed(save, 0)
        BY <1>12, <3>1 DEF CloseFile
      <4> QED BY <1>0, <4>1, ResumedType
    <3>2. CASE ~(save.st = "queue" /\ save.on = ref.cur)
      <4>1. save' = save
        BY <1>12, <3>2 DEF CloseFile
      <4> QED BY <3>2, <4>1 DEF Awaited, SaveIsAwaited
    <3> QED BY <3>1, <3>2
  <2> QED BY <2>1, <2>2, <2>3 DEF Awaited, QueueIsOwned, WaitsForLoop, SaveIsAwaited
<1>13. CASE CloseAnswered
  <2>1. Forgotten(ref) \in Ref /\ Forgotten(ref).cur = ref.cur
    BY <1>0 DEF Forgotten, Ref
  <2>2. WaitsAsBefore
    BY <1>13 DEF CloseAnswered, WaitsAsBefore
  <2>3. CASE tab = "closing"
    BY <1>5, <1>13, <2>1, <2>2, <2>3 DEF CloseAnswered
  <2>4. CASE tab # "closing"
    BY <1>0, <1>13, <2>1, <2>2, <2>4, SyncAwaited DEF CloseAnswered
  <2> QED BY <2>3, <2>4
<1>14. CASE SaveDocument
  <2>1. CASE Synced(ref, text)
    BY <1>5, <1>14, <2>1 DEF SaveDocument, WaitsAsBefore, NoSave
  <2>2. CASE ~Synced(ref, text)
    <3>1. SyncDocument(text, "change", ref, pill)
      BY <1>14, <2>2 DEF SaveDocument
    <3>2. /\ LoopsGoOn
          /\ \/ ref'.cur = ref.cur
             \/ /\ ref.cur = 0 /\ ref'.cur \in Slot
                /\ loop'[ref'.cur].st # "idle" /\ ~loop'[ref'.cur].closed
      BY <1>0, <3>1, SyncKeeps
    <3> DEFINE how == CASE ref'.cur = 0 -> "sent"
                        [] ref.cur # 0 -> "queue"
                        [] OTHER -> "loop"
    <3>3. save' = [NoSave EXCEPT !.text = text, !.on = ref'.cur,
                                 !.void = (ref'.cur = 0), !.st = how]
      BY <1>14, <2>2 DEF SaveDocument
    <3>4. ref'.cur = 0 => how = "sent"
      <4>1. ref'.cur = 0 => ref.cur = 0
        BY <3>2
      <4> QED BY <4>1
    <3> HIDE DEF how
    <3>5. save' = [st |-> how, text |-> text, on |-> ref'.cur,
                   void |-> (ref'.cur = 0)]
      BY <3>3 DEF NoSave
    <3>6. /\ save'.on = ref'.cur
          /\ ref'.cur = 0 => save'.st = "sent"
      BY <3>4, <3>5
    <3>7. ref.cur \in {0} \cup Slot
      BY <1>0 DEF Ref
    <3>8. QueueIsOwned' /\ ref'.cur \in {0} \cup Slot
      BY <3>2, <3>7 DEF Awaited, LoopsGoOn, QueueIsOwned
    <3> QED BY <3>6, <3>8 DEF QueueIsOwned, WaitsForLoop, SaveIsAwaited
  <2> QED BY <2>1, <2>2
<1>15. CASE SaveAnswered
  <2>1. WaitsAsBefore
    BY <1>15 DEF SaveAnswered, WaitsAsBefore, NoSave
  <2>2. CASE ~HasBuffer
    BY <1>5, <1>15, <2>1, <2>2 DEF SaveAnswered
  <2>3. CASE HasBuffer
    <3> DEFINE ok == save.st = "ok"
               r == [ref EXCEPT !.synced = IF ok THEN save.text ELSE None,
                                !.active = ok, !.misled = @ \/ (ok /\ save.void)]
               p == [status |-> IF ok THEN "active" ELSE "inactive",
                     syncing |-> FALSE, error |-> FALSE]
    <3>1. r \in Ref /\ r.cur = ref.cur /\ p \in Pill
      BY <1>0 DEF Ref, Pill, Save
    <3>2. \/ ref' = r /\ pill' = p /\ UNCHANGED <<loop, late>>
          \/ SyncDocument(text, "change", r, p)
      BY <1>15, <2>3 DEF SaveAnswered
    <3> HIDE DEF r, p
    <3>3. CASE ref' = r /\ UNCHANGED loop
      BY <1>5, <2>1, <3>1, <3>3
    <3>4. CASE SyncDocument(text, "change", r, p)
      BY <1>0, <2>1, <3>1, <3>4, SyncAwaited
    <3> QED BY <3>2, <3>3, <3>4
  <2> QED BY <2>2, <2>3
<1> QED BY <1>1, <1>2, <1>3, <1>4, <1>6, <1>7, <1>8, <1>9, <1>10, <1>11, <1>12, <1>13,
           <1>14, <1>15
        DEF Next, LoopStep

(* No save is left waiting for a loop that has ended or for a queue that    *)
(* was forgotten.                                                           *)
THEOREM SavesAreWoken == Spec => []SaveIsAwaited
<1>1. Init => Awaited
  <2> SUFFICES ASSUME Init PROVE Awaited
    OBVIOUS
  <2>1. ref.cur = 0 /\ save.st = "idle"
    BY DEF Init, NoSave
  <2> QED BY <2>1, TypeInit DEF Awaited, QueueIsOwned, WaitsForLoop, SaveIsAwaited
<1>2. Awaited => SaveIsAwaited
  BY DEF Awaited
<1> QED BY <1>1, <1>2, AwaitedStep, PTL DEF Spec

-----------------------------------------------------------------------------
(* What the steps do to the loops.                                          *)

(* A text is not sent, is handed to the loop that owns the queue, or begins *)
(* a loop of its own.                                                       *)
Ignored(r) == ref' = r /\ UNCHANGED <<loop, late>>

Handed(r, job) ==
    /\ r.cur \in Slot /\ ref' = r /\ UNCHANGED late
    /\ \A s \in Slot :
         /\ loop'[s].st = loop[s].st /\ loop'[s].closed = loop[s].closed
         /\ loop'[s].text = loop[s].text /\ loop'[s].base = loop[s].base
         /\ loop'[s].next = IF s = r.cur THEN job ELSE loop[s].next

Begun(r, job, s) ==
    /\ r.cur = 0 /\ loop[s].st = "idle"
    /\ loop'[s] = CallOf(r, job) /\ \A u \in Slot \ {s} : loop'[u] = loop[u]
    /\ ref' = [r EXCEPT !.cur = s]
    /\ late' = (late \/ close' # "idle")

LEMMA SyncEffect ==
    ASSUME TypeOK, NEW t \in Text, NEW mode \in {"open", "change"},
           NEW r \in Ref, NEW p \in Pill, SyncDocument(t, mode, r, p)
    PROVE  \/ r.cur = 0 /\ (mode = "change" /\ ~r.active) /\ Ignored(r)
           \/ Handed(r, [mode |-> mode, text |-> t])
           \/ \E s \in Slot : Begun(r, [mode |-> mode, text |-> t], s)
<1> DEFINE job == [mode |-> mode, text |-> t]
<1>0. loop \in [Slot -> Loop] /\ job \in Job
  BY DEF TypeOK, Job
<1>1. CASE /\ r.cur = 0 /\ mode = "change" /\ ~r.active
           /\ ref' = r /\ UNCHANGED loop /\ UNCHANGED late
  BY <1>1 DEF Ignored
<1>2. CASE r.cur # 0 /\ loop' = [loop EXCEPT ![r.cur].next = job] /\ ref' = r
           /\ UNCHANGED late
  <2> HIDE DEF job
  <2>1. r.cur \in Slot
    BY <1>2 DEF Ref
  <2> DEFINE l == [loop[r.cur] EXCEPT !.next = job]
  <2>2. /\ l.st = loop[r.cur].st /\ l.closed = loop[r.cur].closed
        /\ l.text = loop[r.cur].text /\ l.base = loop[r.cur].base /\ l.next = job
    BY <1>0, <2>1 DEF Loop
  <2>3. loop' = [loop EXCEPT ![r.cur] = l]
    BY <1>2
  <2> HIDE DEF l
  <2>4. loop'[r.cur] = l /\ \A s \in Slot : s # r.cur => loop'[s] = loop[s]
    BY <1>0, <2>1, <2>3
  <2> QED BY <1>2, <2>1, <2>2, <2>4 DEF Handed, job
<1>3. ASSUME NEW s \in Slot, r.cur = 0, FreeSlot(s),
             loop' = [loop EXCEPT ![s] = CallOf(r, job)],
             ref' = [r EXCEPT !.cur = s], late' = (late \/ close' # "idle")
      PROVE  Begun(r, job, s)
  BY <1>0, <1>3 DEF Begun, FreeSlot
<1> QED BY <1>1, <1>2, <1>3 DEF SyncDocument

(* A loop ends, and gives the queue up if it is its own.                    *)
Over(r, s) ==
    /\ loop'[s] = NoLoop /\ \A u \in Slot \ {s} : loop'[u] = loop[u]
    /\ ref' = LeaveQueue(r, s)

LEMMA EndedEffect ==
    ASSUME TypeOK, NEW s \in Slot, NEW r, ref' = LeaveQueue(r, s), Ended(s)
    PROVE  Over(r, s)
BY DEF TypeOK, Ended, Over

(* A loop goes on with the text it was handed, or ends.                     *)
Goes(r, s, ok) ==
    LET mode == IF ok THEN "change" ELSE loop[s].next.mode IN
    /\ loop[s].next \in Job /\ loop'[s] = CallOf(r, [loop[s].next EXCEPT !.mode = mode])
    /\ \A u \in Slot \ {s} : loop'[u] = loop[u]
    /\ ref' = r /\ UNCHANGED save

LEMMA GoOnEffect ==
    ASSUME TypeOK, NEW s \in Slot, NEW r \in Ref, NEW ok \in BOOLEAN, GoOn(s, r, ok)
    PROVE  \/ loop[s].next = NoJob /\ Over(r, s) /\ Ended(s)
           \/ Goes(r, s, ok)
<1>1. CASE loop[s].next = NoJob
  BY <1>1, EndedEffect DEF GoOn
<1>2. CASE loop[s].next # NoJob
  <2>1. loop[s].next \in Job
    BY <1>2 DEF TypeOK, Loop
  <2> QED BY <1>2, <2>1 DEF GoOn, Goes, TypeOK
<1> QED BY <1>1, <1>2

LEMMA CallIsOpen ==
    ASSUME NEW r \in Ref, NEW job \in Job
    PROVE  CallOf(r, job).st = "sent" /\ ~CallOf(r, job).closed
BY CallType

LEMMA GoesIsOpen ==
    ASSUME NEW s \in Slot, NEW r \in Ref, NEW ok \in BOOLEAN, Goes(r, s, ok)
    PROVE  loop'[s].st = "sent" /\ ~loop'[s].closed
<1> DEFINE mode == IF ok THEN "change" ELSE loop[s].next.mode
           job == [loop[s].next EXCEPT !.mode = mode]
<1>1. loop[s].next \in Job /\ loop'[s] = CallOf(r, job)
  BY DEF Goes
<1>2. job \in Job
  BY <1>1 DEF Job
<1> HIDE DEF job
<1> QED BY <1>1, <1>2, CallIsOpen

-----------------------------------------------------------------------------
(* A closed document leaves the server.                                     *)

(* Of the loops that are alive only the one that owns the queue was not     *)
(* closed.                                                                  *)
OneOpenLoop ==
    \A s \in Slot : loop[s].st # "idle" /\ ~loop[s].closed => s = ref.cur

(* A didClose is under way for a tab that goes, or is back.                 *)
CloseShown == close # "idle" => tab \in {"closing", "reopening"}

(* While it is, every loop was closed, unless one was begun since.          *)
LoopsAreClosed == close # "idle" /\ ~late => ref.cur = 0

(* What the server has after the didClose somebody is going to close: a     *)
(* loop that will find out that its file is gone, or a didClose on its way. *)
Leftover ==
    (close = "ok" \/ tab = "closed") /\ ~late /\ server.doc # None
        => strays > 0 \/ \E s \in Slot : loop[s].st = "ok"

Parting == OneOpenLoop /\ CloseShown /\ LoopsAreClosed /\ Leftover

(* A step that moves no loop keeps all of it.                               *)
LEMMA PartingStays ==
    ASSUME TypeOK, Parting,
           \A s \in Slot : loop'[s].st = loop[s].st /\ loop'[s].closed = loop[s].closed,
           ref'.cur = ref.cur, UNCHANGED <<tab, close, late, strays>>,
           server'.doc \in {server.doc, None}
    PROVE  Parting'
BY DEF Parting, OneOpenLoop, CloseShown, LoopsAreClosed, Leftover

(* So does a step that hands over a text; one that begins a loop while the  *)
(* document is being closed is noted.                                       *)
LEMMA PartingSync ==
    ASSUME TypeOK, Parting, NEW t \in Text, NEW mode \in {"open", "change"},
           NEW r \in Ref, NEW p \in Pill, r.cur = ref.cur,
           SyncDocument(t, mode, r, p), tab # "closed",
           \/ UNCHANGED <<tab, close, strays, server>>
           \/ close' = "idle" /\ tab' = "open"
    PROVE  Parting'
<1> DEFINE job == [mode |-> mode, text |-> t]
<1>0. job \in Job
  BY DEF Job
<1>1. CASE close' = "idle" /\ tab' = "open"
  <2>1. CloseShown' /\ LoopsAreClosed' /\ Leftover'
    BY <1>1 DEF CloseShown, LoopsAreClosed, Leftover
  <2>2. OneOpenLoop'
    <3>1. CASE Ignored(r)
      BY <3>1 DEF Ignored, Parting, OneOpenLoop
    <3>2. CASE Handed(r, job)
      BY <3>2 DEF Handed, Parting, OneOpenLoop
    <3>3. ASSUME NEW s \in Slot, Begun(r, job, s) PROVE OneOpenLoop'
      BY <3>3, SlotIsPositive DEF Begun, Ref, Parting, OneOpenLoop
    <3> QED BY <3>1, <3>2, <3>3, SyncEffect
  <2> QED BY <2>1, <2>2 DEF Parting
<1>2. CASE UNCHANGED <<tab, close, strays, server>>
  <2>1. CASE Ignored(r)
    BY <1>2, <2>1, PartingStays DEF Ignored
  <2>2. CASE Handed(r, job)
    BY <1>2, <2>2, PartingStays DEF Handed
  <2>3. ASSUME NEW s \in Slot, Begun(r, job, s) PROVE Parting'
    <3>1. /\ ref.cur = 0 /\ ref'.cur = s /\ loop[s].st = "idle"
          /\ \A u \in Slot \ {s} : loop'[u] = loop[u]
          /\ late' = (late \/ close # "idle")
      BY <1>2, <2>3 DEF Begun, Ref
    <3>2. OneOpenLoop'
      BY <3>1, SlotIsPositive DEF Parting, OneOpenLoop
    <3>3. CloseShown' /\ LoopsAreClosed'
      BY <1>2, <3>1 DEF Parting, CloseShown, LoopsAreClosed
    <3>4. Leftover'
      BY <1>2, <3>1 DEF Parting, Leftover
    <3> QED BY <3>2, <3>3, <3>4 DEF Parting
  <2> QED BY <2>1, <2>2, <2>3, SyncEffect
<1> QED BY <1>1, <1>2

(* A loop that ends takes its queue along; when it had been answered after  *)
(* the didClose, a didClose goes after it.                                  *)
LEMMA PartingOver ==
    ASSUME TypeOK, Parting, NEW s \in Slot, NEW r \in Ref, r.cur = ref.cur, Over(r, s),
           UNCHANGED <<tab, close, late, server>>,
           \/ strays' = strays /\ (loop[s].st # "ok" \/ (~loop[s].closed /\ tab # "closed"))
           \/ strays' = strays + 1
    PROVE  Parting'
<1>1. /\ ref'.cur = IF ref.cur = s THEN 0 ELSE ref.cur
      /\ loop'[s] = NoLoop /\ \A u \in Slot \ {s} : loop'[u] = loop[u]
  BY DEF Over, LeaveQueue, Ref
<1>2. OneOpenLoop'
  BY <1>1, NoLoopType DEF Parting, OneOpenLoop
<1>3. CloseShown' /\ LoopsAreClosed'
  BY <1>1 DEF Parting, CloseShown, LoopsAreClosed
<1>4. Leftover'
  <2>1. strays \in Nat
    BY DEF TypeOK
  <2>2. CASE strays' = strays + 1
    BY <2>1, <2>2 DEF Leftover
  <2>3. CASE strays' = strays /\ loop[s].st # "ok"
    BY <1>1, <2>3 DEF Parting, Leftover
  <2>4. CASE loop[s].st = "ok" /\ ~loop[s].closed /\ tab # "closed"
    <3>1. s = ref.cur
      BY <2>4 DEF Parting, OneOpenLoop
    <3>2. close = "idle" \/ late
      BY <3>1, SlotIsPositive DEF Parting, LoopsAreClosed
    <3> QED BY <2>4, <3>2 DEF Leftover
  <2> QED BY <2>2, <2>3, <2>4
<1> QED BY <1>2, <1>3, <1>4 DEF Parting

LEMMA PartingGoes ==
    ASSUME TypeOK, Parting, NEW s \in Slot, NEW r \in Ref, r.cur = ref.cur,
           NEW ok \in BOOLEAN, GoOn(s, r, ok), loop[s].st # "idle",
           ~loop[s].closed, tab # "closed", UNCHANGED <<tab, close, late, server, strays>>
    PROVE  Parting'
<1>1. CASE Over(r, s)
  BY <1>1, PartingOver
<1>2. CASE Goes(r, s, ok)
  <2>1. loop'[s].st = "sent" /\ ~loop'[s].closed
    BY <1>2, GoesIsOpen
  <2>2. s = ref.cur /\ ref'.cur = ref.cur /\ \A u \in Slot \ {s} : loop'[u] = loop[u]
    BY <1>2 DEF Parting, OneOpenLoop, Goes
  <2>3. close = "idle" \/ late
    BY <2>2, SlotIsPositive DEF Parting, LoopsAreClosed
  <2> QED BY <2>1, <2>2, <2>3
          DEF Parting, OneOpenLoop, CloseShown, LoopsAreClosed, Leftover
<1> QED BY <1>1, <1>2, GoOnEffect

(* Every step keeps it.                                                     *)
LEMMA PartingStep == TypeOK /\ Parting /\ [Next]_vars => Parting'
<1> SUFFICES ASSUME TypeOK, Parting, [Next]_vars PROVE Parting'
  OBVIOUS
<1>0. /\ text \in Text /\ ref \in Ref /\ pill \in Pill /\ save \in Save
      /\ loop \in [Slot -> Loop] /\ strays \in Nat
  BY DEF TypeOK
<1>1. ASSUME NEW s \in Slot, LoopAbandoned(s) PROVE Parting'
  <2> DEFINE r == [ref EXCEPT !.active = (loop[s].st = "ok")]
  <2>1. r \in Ref /\ r.cur = ref.cur
    BY <1>0 DEF Ref
  <2>2. /\ ref' = LeaveQueue(r, s) /\ Ended(s) /\ strays' = strays + 1
        /\ UNCHANGED <<tab, close, late, server>>
    BY <1>1 DEF LoopAbandoned
  <2> HIDE DEF r
  <2>3. Over(r, s)
    BY <2>1, <2>2, EndedEffect
  <2> QED BY <2>1, <2>2, <2>3, PartingOver
<1>2. ASSUME NEW s \in Slot, LoopAnswered(s) PROVE Parting'
  <2> DEFINE ok == loop[s].st = "ok"
             r == [ref EXCEPT !.active = ok,
                              !.synced = IF ok THEN loop[s].text ELSE None,
                              !.inc = ok /\ Incremental]
  <2>1. loop[s].text \in Text \cup {None} /\ Incremental \in BOOLEAN
    BY <1>0, LspAssumption DEF Loop, LspAssumption
  <2>2. r \in Ref /\ r.cur = ref.cur
    BY <1>0, <2>1 DEF Ref
  <2>3. /\ GoOn(s, r, ok) /\ ok \in BOOLEAN /\ loop[s].st # "idle"
        /\ ~loop[s].closed /\ tab # "closed" /\ UNCHANGED <<tab, close, late, server, strays>>
    BY <1>2 DEF LoopAnswered, HasBuffer
  <2> HIDE DEF r, ok
  <2> QED BY <2>2, <2>3, PartingGoes
<1>3. ASSUME NEW s \in Slot, LoopFailed(s) PROVE Parting'
  <2>1. loop[s].st = "failed" /\ UNCHANGED <<tab, close, late, server, strays>>
    BY <1>3 DEF LoopFailed
  <2>2. CASE loop[s].closed \/ ~HasBuffer
    <3>1. Over(ref, s)
      BY <1>3, <2>2, EndedEffect DEF LoopFailed
    <3> QED BY <1>0, <2>1, <3>1, PartingOver
  <2>3. CASE ~(loop[s].closed \/ ~HasBuffer)
    <3>1. GoOn(s, ref, FALSE) /\ ~loop[s].closed /\ tab # "closed"
      BY <1>3, <2>3 DEF LoopFailed, HasBuffer
    <3> QED BY <1>0, <2>1, <3>1, PartingGoes
  <2> QED BY <2>2, <2>3
<1>4. ASSUME NEW s \in Slot, LoopRetries(s) PROVE Parting'
  <2>1. /\ loop[s].st = "failed" /\ loop'[s].st = "sent"
        /\ loop'[s].closed = loop[s].closed
        /\ \A u \in Slot \ {s} : loop'[u] = loop[u]
        /\ UNCHANGED <<tab, ref, close, late, server, strays>>
    BY <1>0, <1>4 DEF LoopRetries, Loop
  <2> QED BY <2>1 DEF Parting, OneOpenLoop, CloseShown, LoopsAreClosed, Leftover
<1>5. ASSUME NEW s \in Slot, ServeLoop(s) PROVE Parting'
  <2>1. PICK a \in Answer : loop' = [loop EXCEPT ![s].st = a]
    BY <1>5 DEF ServeLoop, Answer
  <2>2. /\ loop[s].st = "sent" /\ loop'[s].st = a /\ a # "idle"
        /\ loop'[s].closed = loop[s].closed
        /\ \A u \in Slot \ {s} : loop'[u] = loop[u]
        /\ UNCHANGED <<tab, ref, close, late, strays>>
    BY <1>0, <1>5, <2>1 DEF ServeLoop, Loop, Answer
  <2>3. server' = server \/ loop'[s].st = "ok"
    BY <1>0, <1>5 DEF ServeLoop, Loop
  <2>4. OneOpenLoop' /\ CloseShown' /\ LoopsAreClosed'
    BY <2>2 DEF Parting, OneOpenLoop, CloseShown, LoopsAreClosed
  <2>5. Leftover'
    BY <2>2, <2>3 DEF Parting, Leftover
  <2> QED BY <2>4, <2>5 DEF Parting
<1>6. CASE ServeClose \/ ServeStray
  <2>1. \/ server'.doc = None
        \/ server' = server /\ close' = "failed" /\ strays' = strays
    BY <1>6 DEF ServeClose, ServeStray, TypeOK
  <2>2. UNCHANGED <<tab, ref, loop, late>> /\ (close' # "idle" => close # "idle")
    BY <1>6 DEF ServeClose, ServeStray
  <2>3. OneOpenLoop' /\ CloseShown' /\ LoopsAreClosed'
    BY <2>2 DEF Parting, OneOpenLoop, CloseShown, LoopsAreClosed
  <2>4. Leftover'
    BY <2>1, <2>2 DEF Parting, Leftover
  <2> QED BY <2>3, <2>4 DEF Parting
<1>7. CASE ServeStop \/ Crash \/ OtherFileOpened
  <2>1. server'.doc \in {server.doc, None}
    BY <1>7 DEF ServeStop, Crash, OtherFileOpened, TypeOK
  <2> QED BY <1>7, <2>1, PartingStays DEF ServeStop, Crash, OtherFileOpened
<1>8. CASE ServeSave \/ SaveFailed \/ UNCHANGED vars
  BY <1>8, PartingStays DEF ServeSave, SaveFailed, vars
<1>9. ASSUME NEW t \in Text, Type(t) PROVE Parting'
  BY <1>9, PartingStays DEF Type
<1>10. CASE Restart \/ FeatureAnswered
  <2>1. ref'.cur = ref.cur
    BY <1>0, <1>10 DEF Restart, FeatureAnswered, Forgotten, Ref
  <2> QED BY <1>10, <2>1, PartingStays DEF Restart, FeatureAnswered
<1>11. CASE TimerFires
  <2>1. CASE HasBuffer /\ LiveSync /\ ~(pill.status = "active" /\ Synced(ref, text))
    <3>1. PICK mode \in {"open", "change"} : SyncDocument(text, mode, ref, pill)
      BY <1>11, <2>1 DEF TimerFires
    <3>2. UNCHANGED <<tab, close, strays, server>> /\ tab # "closed"
      BY <1>11, <2>1 DEF TimerFires, HasBuffer
    <3> QED BY <1>0, <3>1, <3>2, PartingSync
  <2>2. CASE ~(HasBuffer /\ LiveSync /\ ~(pill.status = "active" /\ Synced(ref, text)))
    BY <1>11, <2>2, PartingStays DEF TimerFires
  <2> QED BY <2>1, <2>2
<1>12. CASE Focus
  BY <1>0, <1>12, PartingSync DEF Focus
<1>13. CASE OpenFile
  BY <1>13 DEF OpenFile, Parting, OneOpenLoop, CloseShown, LoopsAreClosed, Leftover
<1>14. CASE CloseFile
  <2>1. ref'.cur = 0 /\ tab' = "closing" /\ close' = "sent"
    BY <1>0, <1>14 DEF CloseFile, Ref
  <2>2. OneOpenLoop'
    <3>1. CASE ref.cur = 0
      BY <1>14, <2>1, <3>1 DEF CloseFile, Parting, OneOpenLoop
    <3>2. CASE ref.cur # 0
      <4> DEFINE l == [loop[ref.cur] EXCEPT !.closed = TRUE, !.next = NoJob]
      <4>1. ref.cur \in Slot
        BY <1>0, <3>2 DEF Ref
      <4>2. l.closed
        BY <1>0, <4>1 DEF Loop
      <4>3. loop' = [loop EXCEPT ![ref.cur] = l]
        BY <1>14, <3>2 DEF CloseFile
      <4> HIDE DEF l
      <4> QED BY <1>0, <2>1, <4>1, <4>2, <4>3 DEF Parting, OneOpenLoop
    <3> QED BY <3>1, <3>2
  <2> QED BY <2>1, <2>2 DEF Parting, CloseShown, LoopsAreClosed, Leftover
<1>15. CASE Reopen
  <2>1. /\ UNCHANGED <<ref, loop, close, late, strays, server>>
        /\ tab' \in {"reopening", "open"} /\ (tab' = "open" => tab = "kept")
        /\ tab \in {"closing", "kept"}
    BY <1>15 DEF Reopen
  <2> QED BY <2>1 DEF Parting, OneOpenLoop, CloseShown, LoopsAreClosed, Leftover
<1>16. CASE CloseAnswered
  <2>1. Forgotten(ref) \in Ref /\ Forgotten(ref).cur = ref.cur
    BY <1>0 DEF Forgotten, Ref
  <2>2. CASE tab = "closing"
    <3>1. /\ close = "ok" /\ close' = "idle" /\ tab' = "closed"
          /\ ref'.cur = ref.cur /\ UNCHANGED <<loop, late, strays, server>>
      BY <1>16, <2>1, <2>2 DEF CloseAnswered
    <3> QED BY <3>1 DEF Parting, OneOpenLoop, CloseShown, LoopsAreClosed, Leftover
  <2>3. CASE tab # "closing"
    <3>1. /\ close = "ok" /\ close' = "idle" /\ tab' = "open"
          /\ SyncDocument(text, "open", Forgotten(ref), pill)
      BY <1>16, <2>3 DEF CloseAnswered
    <3>2. tab # "closed"
      BY <3>1 DEF Parting, CloseShown
    <3> QED BY <1>0, <2>1, <3>1, <3>2, PartingSync
  <2> QED BY <2>2, <2>3
<1>17. CASE CloseFailed
  <2>1. /\ UNCHANGED <<ref, loop, late, strays, server>>
        /\ close' = "idle" /\ tab' \in {"kept", "open"}
    BY <1>17 DEF CloseFailed
  <2> QED BY <2>1 DEF Parting, OneOpenLoop, CloseShown, LoopsAreClosed, Leftover
<1>18. CASE SaveDocument
  <2>1. UNCHANGED <<tab, close, strays, server>> /\ tab # "closed"
    BY <1>18 DEF SaveDocument
  <2>2. CASE Synced(ref, text)
    BY <1>18, <2>1, <2>2, PartingStays DEF SaveDocument
  <2>3. CASE ~Synced(ref, text)
    BY <1>0, <1>18, <2>1, <2>3, PartingSync DEF SaveDocument
  <2> QED BY <2>2, <2>3
<1>19. CASE SaveAnswered
  <2>1. UNCHANGED <<tab, close, strays, server>>
    BY <1>19 DEF SaveAnswered
  <2>2. CASE ~HasBuffer
    BY <1>19, <2>1, <2>2, PartingStays DEF SaveAnswered
  <2>3. CASE HasBuffer
    <3> DEFINE ok == save.st = "ok"
               r == [ref EXCEPT !.synced = IF ok THEN save.text ELSE None,
                                !.active = ok, !.misled = @ \/ (ok /\ save.void)]
               p == [status |-> IF ok THEN "active" ELSE "inactive",
                     syncing |-> FALSE, error |-> FALSE]
    <3>1. r \in Ref /\ r.cur = ref.cur /\ p \in Pill
      BY <1>0 DEF Ref, Pill, Save
    <3>2. \/ ref' = r /\ pill' = p /\ UNCHANGED <<loop, late>>
          \/ SyncDocument(text, "change", r, p)
      BY <1>19, <2>3 DEF SaveAnswered
    <3>3. tab # "closed"
      BY <2>3 DEF HasBuffer
    <3> HIDE DEF r, p
    <3>4. CASE ref' = r /\ UNCHANGED <<loop, late>>
      BY <2>1, <3>1, <3>4, PartingStays
    <3>5. CASE SyncDocument(text, "change", r, p)
      BY <1>0, <2>1, <3>1, <3>3, <3>5, PartingSync
    <3> QED BY <3>2, <3>4, <3>5
  <2> QED BY <2>2, <2>3
<1> QED BY <1>1, <1>2, <1>3, <1>4, <1>5, <1>6, <1>7, <1>8, <1>9, <1>10, <1>11, <1>12,
           <1>13, <1>14, <1>15, <1>16, <1>17, <1>18, <1>19
        DEF Next, LoopStep

LEMMA PartingInit == Init => Parting
<1> SUFFICES ASSUME Init PROVE Parting
  OBVIOUS
<1>1. \A s \in Slot : loop[s].st = "idle"
  BY NoLoopType DEF Init
<1> QED BY <1>1 DEF Init, Parting, OneOpenLoop, CloseShown, LoopsAreClosed, Leftover

(* Once a file is closed and everything is answered the server has let go   *)
(* of the document.                                                         *)
THEOREM ClosedIsLetGo == Spec => []NoOrphan
<1>1. TypeOK /\ Parting => NoOrphan
  BY DEF TypeOK, Parting, Leftover, NoOrphan, Quiet
<1> QED BY <1>1, TypeInit, TypeStep, PartingInit, PartingStep, PTL DEF Spec

-----------------------------------------------------------------------------
(* A didSave follows the change it saves: what came before.                 *)

(* Before the file is opened nothing happens to it; a file that is shown    *)
(* again was opened twice.                                                  *)
Early ==
    /\ tab = "reopening" => opens >= 2
    /\ opens = 0 => /\ tab = "closed" /\ close = "idle" /\ ref.cur = 0
                    /\ loop = [s \in Slot |-> NoLoop]
                    /\ save.st = "idle" /\ server.doc = None

(* A server that is not up has no document.                                 *)
ServerEmpty == ~server.up => server.doc = None

(* A save that names a loop waits.                                          *)
OnWaits == save.on # 0 => save.st \in {"loop", "queue"}

Before == Early /\ ServerEmpty /\ OnWaits

LEMMA EarlyStep == TypeOK /\ Early /\ [Next]_vars => Early'
<1> SUFFICES ASSUME TypeOK, Early, [Next]_vars PROVE Early'
  OBVIOUS
<1>0. opens \in Nat
  BY LspAssumption DEF TypeOK, LspAssumption
<1>1. CASE OpenFile
  BY <1>0, <1>1 DEF OpenFile, Open, Early
<1>2. CASE Reopen
  BY <1>0, <1>2 DEF Reopen, Open, Early
<1>3. ASSUME opens' = opens, tab' = "reopening" => tab = "reopening", opens # 0
      PROVE  Early'
  BY <1>3 DEF Early
<1>4. ASSUME opens = 0, NEW s \in Slot, LoopStep(s) PROVE FALSE
  <2>1. loop[s] = NoLoop
    BY <1>4 DEF Early
  <2> QED BY <1>4, <2>1, NoLoopType
          DEF LoopStep, ServeLoop, LoopAbandoned, LoopAnswered, LoopRetries, LoopFailed
<1>5. ASSUME NEW s \in Slot, LoopStep(s) PROVE Early'
  <2>1. opens' = opens /\ tab' = tab
    BY <1>5 DEF LoopStep, ServeLoop, LoopAbandoned, LoopAnswered, LoopRetries, LoopFailed
  <2> QED BY <1>3, <1>4, <1>5, <2>1
<1>6. CASE opens # 0
  <2>1. ASSUME NEW t \in Text, Type(t) PROVE Early'
    BY <1>3, <1>6, <2>1 DEF Type
  <2>2. CASE \/ ServeSave \/ ServeClose \/ ServeStray \/ ServeStop \/ Crash
             \/ OtherFileOpened \/ UNCHANGED vars
    BY <1>3, <1>6, <2>2 DEF ServeSave, ServeClose, ServeStray, ServeStop, Crash,
         OtherFileOpened, vars
  <2>3. CASE \/ TimerFires \/ Focus \/ CloseFile \/ CloseAnswered \/ CloseFailed
    BY <1>3, <1>6, <2>3 DEF TimerFires, Focus, CloseFile, CloseAnswered, CloseFailed
  <2>4. CASE SaveDocument \/ SaveAnswered \/ SaveFailed \/ Restart \/ FeatureAnswered
    BY <1>3, <1>6, <2>4 DEF SaveDocument, SaveAnswered, SaveFailed, Restart,
         FeatureAnswered
  <2> QED BY <1>1, <1>2, <1>5, <2>1, <2>2, <2>3, <2>4 DEF Next
<1>7. CASE opens = 0
  <2>0. /\ tab = "closed" /\ close = "idle" /\ ref.cur = 0
        /\ loop = [s \in Slot |-> NoLoop]
        /\ save.st = "idle" /\ server.doc = None
    BY <1>7 DEF Early
  <2>1. ASSUME UNCHANGED <<tab, close, loop, save>>, ref'.cur = ref.cur,
               server'.doc = server.doc
        PROVE  Early'
    BY <2>0, <2>1 DEF Early
  <2>2. CASE ServeStray \/ ServeStop \/ Crash \/ UNCHANGED vars
    BY <2>0, <2>1, <2>2 DEF ServeStray, ServeStop, Crash, TypeOK, vars
  <2>3. CASE Restart
    BY <2>1, <2>3 DEF Restart, Forgotten, TypeOK, Ref
  <2>4. CASE TimerFires
    BY <2>0, <2>1, <2>4 DEF TimerFires, HasBuffer
  <2>5. ASSUME NEW t \in Text, Type(t) PROVE FALSE
    BY <2>0, <2>5 DEF Type
  <2>6. CASE \/ ServeSave \/ ServeClose \/ OtherFileOpened \/ Focus \/ CloseFile
             \/ CloseAnswered \/ CloseFailed
    BY <2>0, <2>6 DEF ServeSave, ServeClose, OtherFileOpened, HasBuffer, Focus,
         CloseFile, CloseAnswered, CloseFailed
  <2>7. CASE SaveDocument \/ SaveAnswered \/ SaveFailed \/ FeatureAnswered
    BY <2>0, <2>7 DEF SaveDocument, SaveAnswered, SaveFailed, FeatureAnswered
  <2> QED BY <1>1, <1>2, <1>5, <2>2, <2>3, <2>4, <2>5, <2>6, <2>7 DEF Next
<1> QED BY <1>6, <1>7

LEMMA EmptyStep == TypeOK /\ ServerEmpty /\ [Next]_vars => ServerEmpty'
<1> SUFFICES ASSUME TypeOK, ServerEmpty, [Next]_vars PROVE ServerEmpty'
  OBVIOUS
<1>0. server \in [up: BOOLEAN, doc: Text \cup {None, Garbled}]
  BY DEF TypeOK
<1>1. CASE UNCHANGED server
  BY <1>1 DEF ServerEmpty
<1>2. CASE ServeClose \/ ServeStray \/ ServeStop \/ Crash \/ OtherFileOpened
  BY <1>0, <1>2 DEF ServeClose, ServeStray, ServeStop, Crash, OtherFileOpened, ServerEmpty
<1>3. ASSUME NEW s \in Slot, LoopStep(s) PROVE ServerEmpty'
  <2>1. CASE ServeLoop(s)
    BY <1>0, <2>1 DEF ServeLoop, Absent, ServerEmpty
  <2> QED BY <1>1, <1>3, <2>1
          DEF LoopStep, LoopAbandoned, LoopAnswered, LoopRetries, LoopFailed
<1>4. ASSUME NEW t \in Text, Type(t) PROVE ServerEmpty'
  BY <1>1, <1>4 DEF Type
<1>5. CASE \/ TimerFires \/ OpenFile \/ Focus \/ CloseFile \/ Reopen \/ CloseAnswered
           \/ CloseFailed \/ ServeSave \/ UNCHANGED vars
  BY <1>1, <1>5 DEF TimerFires, OpenFile, Focus, CloseFile, Reopen, CloseAnswered,
       CloseFailed, ServeSave, vars
<1>6. CASE SaveDocument \/ SaveAnswered \/ SaveFailed \/ Restart \/ FeatureAnswered
  BY <1>1, <1>6 DEF SaveDocument, SaveAnswered, SaveFailed, Restart, FeatureAnswered
<1> QED BY <1>2, <1>3, <1>4, <1>5, <1>6 DEF Next

(* What Ended leaves of the save: one that waited for the loop sends, or    *)
(* waits for another queue.                                                 *)
LEMMA EndedSave ==
    ASSUME TypeOK, NEW s \in Slot, Ended(s), ref' \in Ref
    PROVE  /\ save.on # s => save' = save
           /\ save.on = s =>
                /\ save'.text = save.text
                /\ save'.void = (save.void \/ loop[s].st = "failed")
                /\ \/ save'.st = "sent" /\ save'.on = 0
                   \/ save'.st = "queue" /\ ref'.cur # 0 /\ save'.on = ref'.cur
<1> DEFINE v == loop[s].st = "failed"
           sv == [save EXCEPT !.void = @ \/ v]
<1>0. save \in Save /\ v \in BOOLEAN
  BY DEF TypeOK
<1>1. sv \in Save /\ sv.text = save.text /\ sv.void = (save.void \/ v)
  <2> HIDE DEF v
  <2> QED BY <1>0, VoidType
<1>2. save' = IF save.on = s THEN Resumed(sv, ref'.cur) ELSE save
  BY DEF Ended
<1> HIDE DEF sv, v
<1>3. /\ Resumed(sv, ref'.cur).text = sv.text
      /\ Resumed(sv, ref'.cur).void = sv.void
      /\ \/ Resumed(sv, ref'.cur).st = "sent" /\ Resumed(sv, ref'.cur).on = 0
         \/ /\ Resumed(sv, ref'.cur).st = "queue" /\ ref'.cur # 0
            /\ Resumed(sv, ref'.cur).on = ref'.cur
  BY <1>1 DEF Resumed, Save
<1> QED BY <1>1, <1>2, <1>3 DEF v

LEMMA OnStep == TypeOK /\ Awaited /\ OnWaits /\ [Next]_vars => OnWaits'
<1> SUFFICES ASSUME TypeOK, Awaited, OnWaits, [Next]_vars PROVE OnWaits'
  OBVIOUS
<1>0. save \in Save /\ ref \in Ref /\ TypeOK'
  BY TypeStep DEF TypeOK
<1>1. ASSUME save'.on = save.on, save'.st = save.st PROVE OnWaits'
  BY <1>1 DEF OnWaits
<1>2. ASSUME NEW s \in Slot, Ended(s) PROVE OnWaits'
  <2>1. ref' \in Ref
    BY <1>0 DEF TypeOK
  <2> QED BY <1>1, <1>2, <2>1, EndedSave DEF OnWaits
<1>3. ASSUME NEW s \in Slot, LoopStep(s) PROVE OnWaits'
  <2>1. CASE LoopAbandoned(s)
    BY <1>2, <2>1 DEF LoopAbandoned
  <2>2. CASE LoopAnswered(s)
    BY <1>1, <1>2, <2>2 DEF LoopAnswered, GoOn
  <2>3. CASE LoopFailed(s)
    BY <1>1, <1>2, <2>3 DEF LoopFailed, GoOn
  <2>4. CASE ServeLoop(s) \/ LoopRetries(s)
    BY <1>1, <2>4 DEF ServeLoop, LoopRetries
  <2> QED BY <1>3, <2>1, <2>2, <2>3, <2>4 DEF LoopStep
<1>4. CASE ServeSave
  <2>1. save.st = "sent" /\ save'.on = save.on
    BY <1>0, <1>4 DEF ServeSave, Save
  <2> QED BY <2>1 DEF OnWaits
<1>5. ASSUME NEW t \in Text, Type(t) PROVE OnWaits'
  <2>1. save'.on = save.on /\ save'.st = save.st
    BY <1>0, <1>5 DEF Type, Save
  <2> QED BY <1>1, <2>1
<1>6. CASE CloseFile
  <2>1. CASE save.st = "queue" /\ save.on = ref.cur
    <3>1. save' = Resumed(save, 0)
      BY <1>6, <2>1 DEF CloseFile
    <3>2. save'.on = 0
      BY <1>0, <3>1 DEF Resumed, Save
    <3> QED BY <3>2 DEF OnWaits
  <2>2. CASE ~(save.st = "queue" /\ save.on = ref.cur)
    BY <1>1, <1>6, <2>2 DEF CloseFile
  <2> QED BY <2>1, <2>2
<1>7. CASE SaveDocument
  <2>1. CASE Synced(ref, text)
    BY <1>7, <2>1 DEF SaveDocument, NoSave, OnWaits
  <2>2. CASE ~Synced(ref, text)
    <3> DEFINE how == CASE ref'.cur = 0 -> "sent"
                        [] ref.cur # 0 -> "queue"
                        [] OTHER -> "loop"
    <3>1. save' = [NoSave EXCEPT !.text = text, !.on = ref'.cur,
                                 !.void = (ref'.cur = 0), !.st = how]
      BY <1>7, <2>2 DEF SaveDocument
    <3>2. ref'.cur # 0 => how \in {"loop", "queue"}
      OBVIOUS
    <3> HIDE DEF how
    <3>3. save'.on = ref'.cur /\ save'.st = how
      BY <3>1 DEF NoSave
    <3> QED BY <3>2, <3>3 DEF OnWaits
  <2> QED BY <2>1, <2>2
<1>8. CASE SaveAnswered \/ SaveFailed
  BY <1>8 DEF SaveAnswered, SaveFailed, NoSave, OnWaits
<1>9. CASE \/ TimerFires \/ OpenFile \/ Focus \/ Reopen \/ CloseAnswered \/ CloseFailed
           \/ UNCHANGED vars
  BY <1>1, <1>9 DEF TimerFires, OpenFile, Focus, Reopen, CloseAnswered, CloseFailed, vars
<1>10. CASE \/ ServeClose \/ ServeStray \/ ServeStop \/ Crash \/ OtherFileOpened
            \/ Restart \/ FeatureAnswered
  BY <1>1, <1>10 DEF ServeClose, ServeStray, ServeStop, Crash, OtherFileOpened,
       Restart, FeatureAnswered
<1> QED BY <1>3, <1>4, <1>5, <1>6, <1>7, <1>8, <1>9, <1>10 DEF Next

-----------------------------------------------------------------------------
(* A didSave follows the change it saves: while the file stays open.        *)

(* What a call or a text waiting will bring.                                *)
Pending(l) == IF l.next = NoJob THEN l.text ELSE l.next.text
Carries(l, t) == l.text = t /\ (l.next = NoJob \/ l.next.text = t)

(* A save that is not void saves the live text: the loop it waits for is    *)
(* going to send it, and once it has, no loop sends anything else.          *)
SaveCarried ==
    save.st # "idle" /\ ~save.void =>
        /\ text = save.text
        /\ IF save.st \in {"loop", "queue"} THEN save.text = Pending(loop[save.on])
           ELSE \A s \in Slot : loop[s].st # "idle" => Carries(loop[s], save.text)

(* The server has x, unless it has nothing or x says nothing.               *)
Is(x) == x = None \/ server.doc \in {None, x}

(* What the session remembers, r, and what the edits of its calls were      *)
(* computed for is what the server has, and that is a text of the buffer.   *)
LoopsKnow(r) ==
    /\ server.doc # Garbled
    /\ r.cur = 0 => Is(r.synced)
    /\ \A s \in Slot :
         /\ loop[s].st \in {"sent", "failed"} => Is(r.synced) /\ Is(loop[s].base)
         /\ loop[s].st = "ok" => Is(loop[s].text)
         /\ loop[s].st = "down" => server.doc = None

(* A save that is served has the text the server has.                       *)
SaveKnows == save.st \in {"sent", "ok"} /\ ~save.void => Is(save.text)

Living ==
    /\ close = "idle" /\ \A s \in Slot : ~loop[s].closed
    /\ SaveCarried
    /\ ~ref.misled => LoopsKnow(ref) /\ SaveKnows

(* While the file stays open one loop is alive at most, and a save waits    *)
(* for that.                                                                *)
LEMMA OneLoop ==
    ASSUME Awaited, Parting, OnWaits, Living
    PROVE  /\ \A s \in Slot : loop[s].st # "idle" => s = ref.cur
           /\ save.st \in {"loop", "queue"} => save.on \in Slot /\ save.on = ref.cur
<1>1. \A s \in Slot : loop[s].st # "idle" => s = ref.cur
  BY DEF Parting, OneOpenLoop, Living
<1> QED BY <1>1 DEF Awaited, WaitsForLoop, SaveIsAwaited

(* The text of a file that stays open was its text before, or it is opened. *)
LEMMA LifeBefore ==
    ASSUME TypeOK, Parting, Early, [Next]_vars, FirstLife'
    PROVE  \/ FirstLife
           \/ OpenFile /\ opens = 0
<1>0. opens \in Nat
  BY LspAssumption DEF TypeOK, LspAssumption
<1>1. CASE OpenFile
  BY <1>0, <1>1 DEF OpenFile, Open, FirstLife
<1>2. CASE Reopen
  BY <1>0, <1>2 DEF Reopen, Open, FirstLife, Early
<1>3. ASSUME opens' = opens, tab' = tab PROVE FirstLife
  BY <1>3 DEF FirstLife
<1>4. ASSUME opens' = opens, tab' # "open" PROVE FALSE
  BY <1>4 DEF FirstLife
<1>5. CASE CloseAnswered \/ CloseFailed
  <2>1. close # "idle" /\ opens' = opens
    BY <1>5 DEF CloseAnswered, CloseFailed
  <2>2. tab \in {"closing", "reopening"}
    BY <2>1 DEF Parting, CloseShown
  <2>3. tab = "closing"
    BY <1>0, <2>1, <2>2 DEF FirstLife, Early
  <2> QED BY <1>4, <1>5, <2>1, <2>3 DEF CloseAnswered, CloseFailed
<1>6. CASE CloseFile
  BY <1>4, <1>6 DEF CloseFile
<1>7. ASSUME NEW s \in Slot, LoopStep(s) PROVE FirstLife
  BY <1>3, <1>7 DEF LoopStep, ServeLoop, LoopAbandoned, LoopAnswered, LoopRetries,
       LoopFailed
<1>8. CASE \/ ServeSave \/ ServeClose \/ ServeStray \/ ServeStop \/ Crash
           \/ OtherFileOpened \/ UNCHANGED vars
  BY <1>3, <1>8 DEF ServeSave, ServeClose, ServeStray, ServeStop, Crash,
       OtherFileOpened, vars
<1>9. ASSUME NEW t \in Text, Type(t) PROVE FirstLife
  BY <1>3, <1>9 DEF Type
<1>10. CASE Focus
  BY <1>0, <1>3, <1>10 DEF Focus
<1>11. CASE TimerFires \/ SaveDocument \/ SaveAnswered \/ SaveFailed \/ Restart
            \/ FeatureAnswered
  BY <1>3, <1>11 DEF TimerFires, SaveDocument, SaveAnswered, SaveFailed, Restart,
       FeatureAnswered
<1> QED BY <1>1, <1>2, <1>5, <1>6, <1>7, <1>8, <1>9, <1>10, <1>11 DEF Next

(* A call carries its job, computed for what the session remembers.         *)
LEMMA CallCarries ==
    ASSUME NEW r, NEW job
    PROVE  /\ CallOf(r, job).text = job.text /\ CallOf(r, job).base = r.synced
           /\ CallOf(r, job).next = NoJob /\ CallOf(r, job).st = "sent"
           /\ ~CallOf(r, job).closed /\ CallOf(r, job).mode = job.mode
BY DEF CallOf

(* Handing over a text closes no loop and says nothing false.               *)
LEMMA SyncKnows ==
    ASSUME TypeOK, NEW t \in Text, NEW mode \in {"open", "change"},
           NEW r \in Ref, NEW p \in Pill, SyncDocument(t, mode, r, p),
           server' = server
    PROVE  /\ (\A s \in Slot : ~loop[s].closed) => \A s \in Slot : ~loop'[s].closed
           /\ ref'.misled = r.misled
           /\ LoopsKnow(r) => LoopsKnow(ref)'
<1> DEFINE job == [mode |-> mode, text |-> t]
<1>1. CASE Ignored(r)
  BY <1>1 DEF Ignored, LoopsKnow, Is
<1>2. CASE Handed(r, job)
  BY <1>2 DEF Handed, LoopsKnow, Is
<1>3. ASSUME NEW s \in Slot, Begun(r, job, s)
      PROVE  /\ (\A u \in Slot : ~loop[u].closed) => \A u \in Slot : ~loop'[u].closed
             /\ ref'.misled = r.misled
             /\ LoopsKnow(r) => LoopsKnow(ref)'
  <2>1. /\ loop'[s].base = r.synced /\ loop'[s].st = "sent" /\ ~loop'[s].closed
        /\ \A u \in Slot \ {s} : loop'[u] = loop[u]
    BY <1>3, CallCarries DEF Begun
  <2>2. /\ r.cur = 0 /\ ref'.cur = s /\ ref'.synced = r.synced
        /\ ref'.misled = r.misled
    BY <1>3 DEF Begun, Ref
  <2>3. LoopsKnow(r) => LoopsKnow(ref)'
    BY <2>1, <2>2, SlotIsPositive DEF LoopsKnow, Is
  <2> QED BY <2>1, <2>2, <2>3
<1> QED BY <1>1, <1>2, <1>3, SyncEffect

(* The live text is the one a save that is not void carries.                *)
LEMMA SyncCarries ==
    ASSUME TypeOK, Awaited, Parting, OnWaits, Living, NEW mode \in {"open", "change"},
           NEW r \in Ref, r.cur = ref.cur, NEW p \in Pill,
           SyncDocument(text, mode, r, p), UNCHANGED <<save, text>>
    PROVE  SaveCarried'
<1> DEFINE job == [mode |-> mode, text |-> text]
<1>0. /\ text \in Text /\ job # NoJob /\ job.text = text
      /\ save.st \in {"loop", "queue"} => save.on \in Slot /\ save.on = ref.cur
  BY OneLoop, NoneIsNoText DEF TypeOK, NoJob
<1> SUFFICES ASSUME save.st # "idle", ~save.void
             PROVE  IF save.st \in {"loop", "queue"}
                    THEN save.text = Pending(loop'[save.on])
                    ELSE \A s \in Slot : loop'[s].st # "idle" => Carries(loop'[s], save.text)
  BY DEF SaveCarried, Living
<1>1. /\ text = save.text
      /\ IF save.st \in {"loop", "queue"} THEN save.text = Pending(loop[save.on])
         ELSE \A s \in Slot : loop[s].st # "idle" => Carries(loop[s], save.text)
  BY DEF SaveCarried, Living
<1>2. CASE Ignored(r)
  BY <1>1, <1>2 DEF Ignored
<1>3. CASE Handed(r, job)
  <2> HIDE DEF job
  <2>1. /\ r.cur \in Slot
        /\ \A s \in Slot :
             /\ loop'[s].st = loop[s].st /\ loop'[s].text = loop[s].text
             /\ loop'[s].next = IF s = r.cur THEN job ELSE loop[s].next
    BY <1>3 DEF Handed
  <2>2. CASE save.st \in {"loop", "queue"}
    BY <1>0, <1>1, <2>1, <2>2 DEF Pending
  <2>3. CASE save.st \notin {"loop", "queue"}
    BY <1>0, <1>1, <2>1, <2>3 DEF Carries
  <2> QED BY <2>2, <2>3
<1>4. ASSUME NEW s \in Slot, Begun(r, job, s)
      PROVE  IF save.st \in {"loop", "queue"}
             THEN save.text = Pending(loop'[save.on])
             ELSE \A u \in Slot : loop'[u].st # "idle" => Carries(loop'[u], save.text)
  <2>1. /\ loop'[s].text = text /\ loop'[s].next = NoJob /\ ref.cur = 0
        /\ \A u \in Slot \ {s} : loop'[u] = loop[u]
    BY <1>4, CallCarries DEF Begun
  <2>2. save.st \notin {"loop", "queue"}
    BY <1>0, <2>1, SlotIsPositive
  <2> QED BY <1>1, <2>1, <2>2 DEF Carries
<1> QED BY <1>0, <1>2, <1>3, <1>4, SyncEffect

(* The end of the one loop: what it brought is what the session remembers,  *)
(* and the save that waited for it has its text there, unless it failed.    *)
LEMMA LivingOver ==
    ASSUME TypeOK, Awaited, Parting, OnWaits, Living, NEW s \in Slot,
           loop[s].st # "idle", loop[s].next = NoJob,
           NEW r \in Ref, r.cur = ref.cur, r.misled = ref.misled,
           \/ loop[s].st = "ok" /\ r.synced = loop[s].text
           \/ loop[s].st = "down" /\ r.synced = None
           \/ loop[s].st = "failed" /\ r.synced = ref.synced,
           Over(r, s), Ended(s), UNCHANGED <<text, close, server>>
    PROVE  Living'
<1>1. /\ s = ref.cur /\ \A u \in Slot : u # s => loop[u].st = "idle"
      /\ save.st \in {"loop", "queue"} => save.on = s
      /\ save.on = s => save.st \in {"loop", "queue"}
  BY OneLoop, SlotIsPositive DEF OnWaits
<1>2. /\ loop'[s] = NoLoop /\ \A u \in Slot \ {s} : loop'[u] = loop[u]
      /\ ref'.cur = 0 /\ ref'.synced = r.synced /\ ref'.misled = ref.misled
      /\ ref' \in Ref
  BY <1>1, LeaveType DEF Over, LeaveQueue, Ref
<1>3. \A u \in Slot : loop'[u].st = "idle" /\ ~loop'[u].closed
  BY <1>1, <1>2 DEF NoLoop, Living
<1>4. /\ save.on # s => save' = save
      /\ save.on = s =>
           /\ save'.text = save.text
           /\ save'.void = (save.void \/ loop[s].st = "failed")
           /\ save'.st = "sent"
  BY <1>2, EndedSave
<1>5. SaveCarried'
  <2>1. CASE save.on # s
    BY <1>1, <1>3, <1>4, <2>1 DEF Living, SaveCarried
  <2>2. CASE save.on = s
    BY <1>1, <1>3, <1>4, <2>2 DEF Living, SaveCarried
  <2> QED BY <2>1, <2>2
<1>6. ASSUME ~ref'.misled PROVE LoopsKnow(ref)' /\ SaveKnows'
  <2>1. LoopsKnow(ref) /\ SaveKnows
    BY <1>2, <1>6 DEF Living
  <2>2. Is(r.synced)
    BY <2>1 DEF LoopsKnow, Is
  <2>3. LoopsKnow(ref)'
    <3>1. ref'.synced = None \/ server'.doc \in {None, ref'.synced}
      BY <1>2, <2>2 DEF Is
    <3>2. \A u \in Slot : loop'[u].st = "idle"
      BY <1>3
    <3>3. server'.doc # Garbled
      BY <2>1 DEF LoopsKnow
    <3> QED BY <3>1, <3>2, <3>3 DEF LoopsKnow, Is
  <2>4. ASSUME save.on # s PROVE SaveKnows'
    <3>1. save' = save /\ server' = server
      BY <1>4, <2>4
    <3> QED BY <2>1, <3>1 DEF SaveKnows, Is
  <2>5. ASSUME save.on = s PROVE SaveKnows'
    <3>1. ASSUME ~save'.void PROVE Is(save.text)
      <4>1. ~save.void /\ loop[s].st # "failed"
        BY <1>4, <2>5, <3>1
      <4>2. save.text = loop[s].text
        BY <1>1, <2>5, <4>1 DEF Living, SaveCarried, Pending
      <4>3. \/ loop[s].st = "ok" /\ Is(loop[s].text)
            \/ loop[s].st = "down" /\ server.doc = None
        BY <2>1, <4>1 DEF LoopsKnow
      <4> QED BY <4>2, <4>3 DEF Is
    <3>2. save'.text = save.text /\ server' = server
      BY <1>4, <2>5
    <3> QED BY <3>1, <3>2 DEF SaveKnows, Is
  <2> QED BY <2>3, <2>4, <2>5
<1> QED BY <1>3, <1>5, <1>6 DEF Living

(* The one loop goes on: what was handed to it is on its way.               *)
LEMMA LivingGoes ==
    ASSUME TypeOK, Awaited, Parting, OnWaits, Living, NEW s \in Slot,
           loop[s].st # "idle", loop[s].next # NoJob,
           NEW r \in Ref, r.cur = ref.cur, r.misled = ref.misled,
           \/ loop[s].st = "ok" /\ r.synced = loop[s].text
           \/ loop[s].st = "down" /\ r.synced = None
           \/ loop[s].st = "failed" /\ r.synced = ref.synced,
           NEW ok \in BOOLEAN, Goes(r, s, ok), UNCHANGED <<text, close, server>>
    PROVE  Living'
<1>1. /\ s = ref.cur /\ \A u \in Slot : u # s => loop[u].st = "idle"
      /\ save.st \in {"loop", "queue"} => save.on = s
  BY OneLoop
<1> DEFINE mode == IF ok THEN "change" ELSE loop[s].next.mode
           job == [loop[s].next EXCEPT !.mode = mode]
<1>2. loop[s].next \in Job /\ loop'[s] = CallOf(r, job)
  BY DEF Goes
<1>3. job.text = loop[s].next.text
  BY <1>2 DEF Job
<1> HIDE DEF job
<1>4. /\ loop'[s].text = loop[s].next.text /\ loop'[s].base = r.synced
      /\ loop'[s].next = NoJob /\ loop'[s].st = "sent" /\ ~loop'[s].closed
  BY <1>2, <1>3, CallCarries
<1>5. (\A u \in Slot \ {s} : loop'[u] = loop[u]) /\ ref' = r /\ save' = save
  BY DEF Goes
<1>6. SaveCarried'
  <2>1. CASE save.st \in {"loop", "queue"}
    BY <1>1, <1>4, <1>5, <2>1 DEF Living, SaveCarried, Pending
  <2>2. CASE save.st \notin {"loop", "queue"}
    BY <1>1, <1>4, <1>5, <2>2 DEF Living, SaveCarried, Carries
  <2> QED BY <2>1, <2>2
<1>7. ASSUME ~ref'.misled PROVE LoopsKnow(ref)' /\ SaveKnows'
  <2>1. LoopsKnow(ref) /\ SaveKnows
    BY <1>5, <1>7 DEF Living
  <2>2. Is(r.synced)
    BY <2>1 DEF LoopsKnow, Is
  <2>3. LoopsKnow(ref)'
    <3>1. server'.doc # Garbled /\ ref'.cur # 0
      BY <1>1, <1>5, <2>1, SlotIsPositive DEF LoopsKnow
    <3>2. \A u \in Slot : IF u = s THEN loop'[u].st = "sent" /\ loop'[u].base = r.synced
                           ELSE loop'[u].st = "idle"
      BY <1>1, <1>4, <1>5
    <3> QED BY <1>5, <2>2, <3>1, <3>2 DEF LoopsKnow, Is
  <2> QED BY <1>5, <2>1, <2>3 DEF SaveKnows, Is
<1> QED BY <1>4, <1>5, <1>6, <1>7 DEF Living

(* A step of the native side that leaves the copy alone or takes it away.   *)
LEMMA LivingStays ==
    ASSUME Living, UNCHANGED <<text, save, loop, close>>,
           \/ server'.doc = None
           \/ /\ server'.doc = server.doc
              /\ ref'.cur = ref.cur /\ ref'.misled = ref.misled
              /\ ref'.synced \in {None, ref.synced}
    PROVE  Living'
<1>1. SaveCarried'
  BY DEF Living, SaveCarried
<1>2. ASSUME ~ref'.misled PROVE LoopsKnow(ref)' /\ SaveKnows'
  <2>1. CASE server'.doc = None
    BY <2>1, NoneIsNoText DEF LoopsKnow, SaveKnows, Is
  <2>2. CASE server'.doc # None
    <3>1. /\ LoopsKnow(ref) /\ SaveKnows
          /\ server'.doc = server.doc
          /\ ref'.cur = ref.cur /\ ref'.synced \in {None, ref.synced}
      BY <1>2, <2>2 DEF Living
    <3> QED BY <3>1 DEF LoopsKnow, SaveKnows, Is
  <2> QED BY <2>1, <2>2
<1> QED BY <1>1, <1>2 DEF Living

(* What the loops bring is all that a save looks at.                        *)
LEMMA CarriedStays ==
    ASSUME Awaited, Parting, OnWaits, Living, UNCHANGED <<text, save>>,
           \A u \in Slot :
             /\ Pending(loop'[u]) = Pending(loop[u])
             /\ loop'[u].st # "idle" => loop[u].st # "idle"
             /\ loop'[u].text = loop[u].text /\ loop'[u].next = loop[u].next
    PROVE  SaveCarried'
<1>1. save.st \in {"loop", "queue"} => save.on \in Slot
  BY OneLoop
<1>2. CASE save.st \in {"loop", "queue"}
  <2>1. Pending(loop'[save.on]) = Pending(loop[save.on])
    BY <1>1, <1>2
  <2> QED BY <1>2, <2>1 DEF Living, SaveCarried, Pending
<1>3. CASE save.st \notin {"loop", "queue"}
  BY <1>3 DEF Living, SaveCarried, Carries
<1> QED BY <1>2, <1>3

(* The server answers a loop: it has the text of the call, or is as before; *)
(* an edit is applied to the text it was computed for.                      *)
LEMMA ServedEffect ==
    ASSUME TypeOK, ServerEmpty, NEW s \in Slot, ServeLoop(s), Is(loop[s].base),
           NEW a \in Answer, loop' = [loop EXCEPT ![s].st = a]
    PROVE  \/ a = "ok" /\ server'.doc = loop[s].text
           \/ a = "down" /\ server' = server /\ server.doc = None
           \/ a = "failed" /\ server' = server
<1>0. loop \in [Slot -> Loop] /\ loop'[s].st = a
  BY DEF TypeOK, Loop
<1>1. CASE /\ loop[s].mode = "open" \/ (Absent /\ ~loop[s].omit)
           /\ server' = [up |-> TRUE, doc |-> loop[s].text]
           /\ loop' = [loop EXCEPT ![s].st = "ok"]
  BY <1>0, <1>1 DEF Loop
<1>2. CASE ~server.up /\ loop' = [loop EXCEPT ![s].st = "down"] /\ UNCHANGED server
  BY <1>0, <1>2 DEF Loop, ServerEmpty
<1>3. CASE loop' = [loop EXCEPT ![s].st = "failed"] /\ UNCHANGED server
  BY <1>0, <1>3 DEF Loop
<1>4. CASE /\ ~Absent /\ loop' = [loop EXCEPT ![s].st = "ok"]
           /\ server' = [server EXCEPT !.doc = Changed(loop[s])]
  <2>1. a = "ok" /\ server'.doc = Changed(loop[s])
    BY <1>0, <1>4 DEF Loop, TypeOK
  <2>2. Changed(loop[s]) = loop[s].text
    BY <1>4 DEF Changed, Is, Absent
  <2> QED BY <2>1, <2>2
<1> QED BY <1>1, <1>2, <1>3, <1>4 DEF ServeLoop

(* The server answers a loop that stays open.                               *)
LEMMA LivingServed ==
    ASSUME TypeOK, Awaited, Parting, Before, Living, NEW s \in Slot, ServeLoop(s)
    PROVE  Living'
<1>0. loop \in [Slot -> Loop] /\ UNCHANGED <<text, ref, save, close>>
  BY DEF TypeOK, ServeLoop
<1>1. PICK a \in Answer : loop' = [loop EXCEPT ![s].st = a]
  BY DEF ServeLoop, Answer
<1>2. /\ loop[s].st = "sent" /\ loop'[s].st = a
      /\ loop'[s].text = loop[s].text /\ loop'[s].base = loop[s].base
      /\ loop'[s].next = loop[s].next /\ loop'[s].closed = loop[s].closed
      /\ \A u \in Slot \ {s} : loop'[u] = loop[u]
  BY <1>0, <1>1 DEF ServeLoop, Loop
<1>3. s = ref.cur /\ s # 0 /\ \A u \in Slot : u # s => loop[u].st = "idle"
  BY <1>2, OneLoop, SlotIsPositive DEF Before
<1>4. SaveCarried'
  <2>1. \A u \in Slot :
          /\ Pending(loop'[u]) = Pending(loop[u])
          /\ loop'[u].st # "idle" => loop[u].st # "idle"
          /\ loop'[u].text = loop[u].text /\ loop'[u].next = loop[u].next
    BY <1>2 DEF Pending
  <2>2. UNCHANGED <<text, save>> /\ OnWaits
    BY <1>0 DEF Before
  <2> QED BY <2>1, <2>2, CarriedStays
<1>5. ASSUME ~ref'.misled PROVE LoopsKnow(ref)' /\ SaveKnows'
  <2>1. LoopsKnow(ref) /\ SaveKnows
    BY <1>0, <1>5 DEF Living
  <2>2. Is(ref.synced) /\ Is(loop[s].base)
    BY <1>2, <2>1 DEF LoopsKnow
  <2>3. \/ a = "ok" /\ server'.doc = loop[s].text
        \/ a = "down" /\ server' = server /\ server.doc = None
        \/ a = "failed" /\ server' = server
    BY <1>1, <2>2, ServedEffect DEF Before
  <2>4. LoopsKnow(ref)'
    <3>1. ref' = ref /\ server.doc # Garbled /\ loop[s].text # Garbled
      BY <1>0, <2>1, NoneIsNoText DEF LoopsKnow, Loop
    <3>2. CASE a = "ok" /\ server'.doc = loop[s].text
      BY <1>2, <1>3, <3>1, <3>2 DEF LoopsKnow, Is
    <3>3. CASE a = "down" /\ server' = server /\ server.doc = None
      BY <1>2, <1>3, <3>1, <3>3 DEF LoopsKnow, Is
    <3>4. CASE a = "failed" /\ server' = server
      BY <1>2, <1>3, <2>2, <3>1, <3>4 DEF LoopsKnow, Is
    <3> QED BY <2>3, <3>2, <3>3, <3>4
  <2>5. SaveKnows'
    <3>1. save' = save
      BY <1>0
    <3>2. CASE server' = server
      BY <2>1, <3>1, <3>2 DEF SaveKnows, Is
    <3>3. CASE server'.doc = loop[s].text
      <4>1. save.st \in {"sent", "ok"} /\ ~save.void => save.text = loop[s].text
        BY <1>2 DEF Living, SaveCarried, Carries
      <4> QED BY <3>1, <3>3, <4>1 DEF SaveKnows, Is
    <3> QED BY <2>3, <3>2, <3>3
  <2> QED BY <2>4, <2>5
<1>6. \A u \in Slot : ~loop'[u].closed
  BY <1>2 DEF Living
<1> QED BY <1>0, <1>4, <1>5, <1>6 DEF Living

(* A loop looks at its answer.                                              *)
LEMMA LivingLoop ==
    ASSUME TypeOK, Awaited, Parting, Before, Living, tab = "open",
           NEW s \in Slot, LoopStep(s)
    PROVE  Living'
<1>0. /\ loop \in [Slot -> Loop] /\ ref \in Ref
      /\ ~loop[s].closed /\ HasBuffer /\ OnWaits
  BY DEF TypeOK, Living, HasBuffer, Before
<1>1. ASSUME NEW r \in Ref, r.cur = ref.cur, r.misled = ref.misled,
             \/ loop[s].st = "ok" /\ r.synced = loop[s].text
             \/ loop[s].st = "down" /\ r.synced = None
             \/ loop[s].st = "failed" /\ r.synced = ref.synced,
             NEW ok \in BOOLEAN, GoOn(s, r, ok), UNCHANGED <<text, close, server>>
      PROVE  Living'
  <2>1. loop[s].st # "idle"
    BY <1>1
  <2>2. CASE loop[s].next = NoJob /\ Over(r, s) /\ Ended(s)
    BY <1>0, <1>1, <2>1, <2>2, LivingOver
  <2>3. CASE Goes(r, s, ok)
    <3>1. loop[s].next # NoJob
      BY <2>3, NoneIsNoText DEF Goes, Job, NoJob
    <3> QED BY <1>0, <1>1, <2>1, <2>3, <3>1, LivingGoes
  <2> QED BY <1>1, <2>2, <2>3, GoOnEffect
<1>2. CASE LoopAbandoned(s)
  BY <1>0, <1>2 DEF LoopAbandoned
<1>3. CASE LoopAnswered(s)
  <2> DEFINE ok == loop[s].st = "ok"
             r == [ref EXCEPT !.active = ok,
                              !.synced = IF ok THEN loop[s].text ELSE None,
                              !.inc = ok /\ Incremental]
  <2>1. loop[s].text \in Text \cup {None} /\ Incremental \in BOOLEAN
    BY <1>0, LspAssumption DEF Loop, LspAssumption
  <2>2. /\ r \in Ref /\ r.cur = ref.cur /\ r.misled = ref.misled
        /\ r.synced = IF ok THEN loop[s].text ELSE None
    BY <1>0, <2>1 DEF Ref
  <2>3. /\ GoOn(s, r, ok) /\ ok \in BOOLEAN /\ loop[s].st \in {"ok", "down"}
        /\ UNCHANGED <<text, close, server>>
    BY <1>3 DEF LoopAnswered
  <2>4. \/ loop[s].st = "ok" /\ r.synced = loop[s].text
        \/ loop[s].st = "down" /\ r.synced = None
    BY <2>2, <2>3
  <2> HIDE DEF r, ok
  <2> QED BY <1>1, <2>2, <2>3, <2>4
<1>4. CASE LoopFailed(s)
  <2>1. GoOn(s, ref, FALSE) /\ UNCHANGED <<text, close, server>> /\ loop[s].st = "failed"
    BY <1>0, <1>4 DEF LoopFailed
  <2> QED BY <1>0, <1>1, <2>1
<1>5. CASE LoopRetries(s)
  <2>1. /\ loop[s].st = "failed" /\ loop'[s].st = "sent"
        /\ loop'[s].text = loop[s].text /\ loop'[s].base = loop[s].base
        /\ loop'[s].next = loop[s].next /\ loop'[s].closed = loop[s].closed
        /\ \A u \in Slot \ {s} : loop'[u] = loop[u]
    BY <1>0, <1>5 DEF LoopRetries, Loop
  <2>2. UNCHANGED <<text, ref, save, close, server>>
    BY <1>5 DEF LoopRetries
  <2>3. SaveCarried'
    <3>1. \A u \in Slot :
            /\ Pending(loop'[u]) = Pending(loop[u])
            /\ loop'[u].st # "idle" => loop[u].st # "idle"
            /\ loop'[u].text = loop[u].text /\ loop'[u].next = loop[u].next
      BY <2>1 DEF Pending
    <3>2. UNCHANGED <<text, save>>
      BY <2>2
    <3> QED BY <1>0, <3>1, <3>2, CarriedStays
  <2>4. ~ref.misled => LoopsKnow(ref)' /\ SaveKnows'
    BY <2>1, <2>2 DEF Living, LoopsKnow, SaveKnows, Is
  <2> QED BY <2>1, <2>2, <2>3, <2>4 DEF Living
<1>6. CASE ServeLoop(s)
  BY <1>6, LivingServed
<1> QED BY <1>2, <1>3, <1>4, <1>5, <1>6 DEF LoopStep

(* The live text is handed over: by the timer or by a probe.                *)
LEMMA LivingSync ==
    ASSUME TypeOK, Awaited, Parting, Before, Living, NEW mode \in {"open", "change"},
           SyncDocument(text, mode, ref, pill), UNCHANGED <<text, save, close, server>>
    PROVE  Living'
<1>1. text \in Text /\ ref \in Ref /\ pill \in Pill /\ OnWaits
  BY DEF TypeOK, Before
<1>2. SaveCarried'
  BY <1>1, SyncCarries
<1>3. /\ (\A s \in Slot : ~loop[s].closed) => \A s \in Slot : ~loop'[s].closed
      /\ ref'.misled = ref.misled
      /\ LoopsKnow(ref) => LoopsKnow(ref)'
  BY <1>1, SyncKnows
<1>4. ASSUME ~ref'.misled PROVE LoopsKnow(ref)' /\ SaveKnows'
  <2>1. LoopsKnow(ref) /\ SaveKnows
    BY <1>3, <1>4 DEF Living
  <2>2. SaveKnows'
    BY <2>1 DEF SaveKnows, Is
  <2> QED BY <1>3, <2>1, <2>2
<1> QED BY <1>2, <1>3, <1>4 DEF Living

(* A save begins: it is served, or waits for the loop that has its text.    *)
LEMMA LivingSave ==
    ASSUME TypeOK, Awaited, Parting, Before, Living, SaveDocument
    PROVE  Living'
<1>0. /\ text \in Text /\ ref \in Ref /\ pill \in Pill /\ OnWaits
      /\ UNCHANGED <<text, close, server>>
  BY DEF TypeOK, Before, SaveDocument
<1>1. CASE Synced(ref, text)
  <2>1. /\ save'.text = text /\ save'.st = "sent" /\ UNCHANGED <<ref, loop>>
        /\ ref.synced = text /\ ref.cur = 0
    BY <1>1 DEF SaveDocument, Synced, NoSave
  <2>2. \A s \in Slot : loop[s].st = "idle"
    BY <1>0, <2>1, OneLoop, SlotIsPositive
  <2>3. SaveCarried'
    BY <1>0, <2>1, <2>2 DEF SaveCarried
  <2>4. ASSUME ~ref'.misled PROVE LoopsKnow(ref)' /\ SaveKnows'
    <3>1. LoopsKnow(ref)
      BY <1>0, <2>1, <2>4 DEF Living
    <3>2. Is(text)
      BY <2>1, <3>1 DEF LoopsKnow
    <3>3. LoopsKnow(ref)'
      BY <1>0, <2>1, <3>1 DEF LoopsKnow, Is
    <3>4. SaveKnows'
      BY <1>0, <2>1, <3>2 DEF SaveKnows, Is
    <3> QED BY <3>3, <3>4
  <2> QED BY <1>0, <2>1, <2>3, <2>4 DEF Living
<1>2. CASE ~Synced(ref, text)
  <2> DEFINE how == CASE ref'.cur = 0 -> "sent"
                      [] ref.cur # 0 -> "queue"
                      [] OTHER -> "loop"
             job == [mode |-> "change", text |-> text]
  <2>1. /\ SyncDocument(text, "change", ref, pill)
        /\ save' = [NoSave EXCEPT !.text = text, !.on = ref'.cur,
                                  !.void = (ref'.cur = 0), !.st = how]
    BY <1>2 DEF SaveDocument
  <2>2. (ref'.cur # 0 => how \in {"loop", "queue"}) /\ job.text = text /\ job # NoJob
    BY <1>0, NoneIsNoText DEF NoJob
  <2> HIDE DEF how, job
  <2>3. /\ save'.text = text /\ save'.on = ref'.cur /\ save'.void = (ref'.cur = 0)
        /\ save'.st = how
    BY <2>1 DEF NoSave
  <2>4. /\ (\A s \in Slot : ~loop[s].closed) => \A s \in Slot : ~loop'[s].closed
        /\ ref'.misled = ref.misled
        /\ LoopsKnow(ref) => LoopsKnow(ref)'
    BY <1>0, <2>1, SyncKnows
  <2>5. \/ ref.cur = 0 /\ Ignored(ref)
        \/ Handed(ref, job)
        \/ \E s \in Slot : Begun(ref, job, s)
    BY <1>0, <2>1, SyncEffect DEF job
  <2>6. \/ ref'.cur = 0
        \/ /\ how \in {"loop", "queue"} /\ text = Pending(loop'[ref'.cur])
    <3>1. CASE ref.cur = 0 /\ Ignored(ref)
      BY <3>1 DEF Ignored
    <3>2. CASE Handed(ref, job)
      <4>1. ref'.cur = ref.cur /\ ref.cur \in Slot /\ loop'[ref.cur].next = job
        BY <3>2 DEF Handed
      <4> QED BY <2>2, <4>1, SlotIsPositive DEF Pending
    <3>3. ASSUME NEW s \in Slot, Begun(ref, job, s)
          PROVE  how \in {"loop", "queue"} /\ text = Pending(loop'[ref'.cur])
      <4>1. ref'.cur = s /\ loop'[s] = CallOf(ref, job)
        BY <1>0, <3>3 DEF Begun, Ref
      <4> QED BY <2>2, <4>1, CallCarries, SlotIsPositive DEF Pending
    <3> QED BY <2>5, <3>1, <3>2, <3>3
  <2>7. SaveCarried'
    BY <1>0, <2>3, <2>6 DEF SaveCarried, Pending
  <2>8. SaveKnows'
    BY <2>3, <2>6 DEF SaveKnows
  <2> QED BY <1>0, <2>4, <2>7, <2>8 DEF Living
<1> QED BY <1>1, <1>2

(* A save is answered: what it saved is what the session remembers.         *)
LEMMA LivingAnswer ==
    ASSUME TypeOK, Awaited, Parting, Before, Living, HasBuffer, SaveAnswered
    PROVE  Living'
<1> DEFINE ok == save.st = "ok"
           r == [ref EXCEPT !.synced = IF ok THEN save.text ELSE None,
                            !.active = ok, !.misled = @ \/ (ok /\ save.void)]
           p == [status |-> IF ok THEN "active" ELSE "inactive",
                 syncing |-> FALSE, error |-> FALSE]
<1>0. /\ text \in Text /\ ref \in Ref /\ save \in Save
      /\ save.text \in Text \cup {None} /\ save.void \in BOOLEAN /\ ref.misled \in BOOLEAN
  BY DEF TypeOK, Save, Ref
<1>1. /\ r \in Ref /\ r.cur = ref.cur /\ r.misled = (ref.misled \/ (ok /\ save.void))
      /\ r.synced = IF ok THEN save.text ELSE None
  BY <1>0 DEF Ref
<1>2. p \in Pill /\ ok \in BOOLEAN
  BY DEF Pill
<1>3. /\ save' = NoSave /\ UNCHANGED <<text, close, server>>
      /\ \/ ref' = r /\ UNCHANGED loop
         \/ SyncDocument(text, "change", r, p)
  BY DEF SaveAnswered
<1>4. ok \/ save.st = "down"
  BY DEF SaveAnswered
<1> HIDE DEF r, p, ok
<1>5. /\ (\A s \in Slot : ~loop[s].closed) => \A s \in Slot : ~loop'[s].closed
      /\ ref'.misled = r.misled
      /\ LoopsKnow(r) => LoopsKnow(ref)'
  <2>1. CASE ref' = r /\ UNCHANGED loop
    BY <1>3, <2>1 DEF LoopsKnow, Is
  <2>2. CASE SyncDocument(text, "change", r, p)
    BY <1>0, <1>1, <1>2, <1>3, <2>2, SyncKnows
  <2> QED BY <1>3, <2>1, <2>2
<1>6. SaveCarried' /\ SaveKnows'
  BY <1>3 DEF NoSave, SaveCarried, SaveKnows
<1>7. ASSUME ~ref'.misled PROVE LoopsKnow(r)
  <2>1. LoopsKnow(ref) /\ SaveKnows /\ ~(ok /\ save.void)
    BY <1>0, <1>1, <1>3, <1>5, <1>7 DEF Living
  <2>2. Is(r.synced)
    BY <1>1, <2>1 DEF SaveKnows, Is, ok
  <2> QED BY <1>1, <2>1, <2>2 DEF LoopsKnow
<1> QED BY <1>3, <1>5, <1>6, <1>7 DEF Living

(* Every step of the first life of a document keeps it.                     *)
LEMMA LivingStep ==
    TypeOK /\ Awaited /\ Parting /\ Before /\ (FirstLife => Living) /\ [Next]_vars
        => (FirstLife => Living)'
<1> SUFFICES ASSUME TypeOK, Awaited, Parting, Before, FirstLife => Living, [Next]_vars,
                    FirstLife'
             PROVE  Living'
  OBVIOUS
<1>1. CASE OpenFile /\ opens = 0
  <2>1. /\ \A s \in Slot : loop'[s] = NoLoop
        /\ save'.st = "idle" /\ server'.doc = None /\ close' = "idle"
    BY <1>1 DEF OpenFile, Before, Early
  <2>2. SaveCarried' /\ SaveKnows'
    BY <2>1 DEF SaveCarried, SaveKnows
  <2>3. LoopsKnow(ref)'
    BY <2>1, NoneIsNoText DEF LoopsKnow, Is, NoLoop
  <2> QED BY <2>1, <2>2, <2>3 DEF Living, NoLoop
<1>2. CASE FirstLife
  <2>0. Living /\ tab = "open" /\ HasBuffer /\ save \in Save /\ ref \in Ref
    BY <1>2 DEF FirstLife, HasBuffer, TypeOK
  <2>1. ASSUME NEW s \in Slot, LoopStep(s) PROVE Living'
    BY <2>0, <2>1, LivingLoop
  <2>2. CASE ServeSave
    <3>1. /\ save.st = "sent" /\ save'.st \in Answer
          /\ save'.text = save.text /\ save'.void = save.void
          /\ UNCHANGED <<text, ref, loop, close, server>>
      BY <2>0, <2>2 DEF ServeSave, Save, Answer
    <3>2. SaveCarried'
      BY <2>0, <3>1 DEF Living, SaveCarried, Carries, Answer
    <3>3. ~ref.misled => LoopsKnow(ref)' /\ SaveKnows'
      BY <2>0, <3>1 DEF Living, LoopsKnow, SaveKnows, Is
    <3> QED BY <2>0, <3>1, <3>2, <3>3 DEF Living
  <2>3. CASE ServeClose \/ CloseFile \/ Reopen \/ CloseAnswered \/ CloseFailed
    <3>1. opens \in Nat /\ close = "idle"
      BY <2>0, LspAssumption DEF TypeOK, LspAssumption, Living
    <3> QED BY <2>0, <2>3, <3>1
            DEF ServeClose, CloseFile, Reopen, CloseAnswered, CloseFailed, FirstLife
  <2>4. CASE ServeStray \/ ServeStop \/ Crash
    <3>1. server'.doc = None /\ UNCHANGED <<text, save, loop, close>>
      BY <2>4 DEF ServeStray, ServeStop, Crash, TypeOK
    <3> QED BY <2>0, <3>1, LivingStays
  <2>5. CASE OtherFileOpened \/ UNCHANGED vars
    <3>1. server'.doc = server.doc /\ UNCHANGED <<text, save, loop, close, ref>>
      BY <2>5 DEF OtherFileOpened, TypeOK, vars
    <3> QED BY <2>0, <3>1, LivingStays
  <2>6. CASE Restart
    <3>1. /\ server'.doc = server.doc /\ UNCHANGED <<text, save, loop, close>>
          /\ ref'.cur = ref.cur /\ ref'.synced = None /\ ref'.misled = ref.misled
      BY <2>0, <2>6 DEF Restart, Forgotten, Ref
    <3> QED BY <2>0, <3>1, LivingStays
  <2>7. CASE FeatureAnswered
    <3>1. /\ server' = server /\ UNCHANGED <<text, save, loop, close>>
          /\ ref'.cur = ref.cur /\ ref'.synced = ref.synced /\ ref'.misled = ref.misled
      BY <2>0, <2>7 DEF FeatureAnswered, Ref
    <3> QED BY <2>0, <3>1, LivingStays
  <2>8. CASE SaveFailed
    <3>1. save' = NoSave /\ UNCHANGED <<text, ref, loop, close, server>>
      BY <2>8 DEF SaveFailed
    <3>2. SaveCarried' /\ SaveKnows'
      BY <3>1 DEF NoSave, SaveCarried, SaveKnows
    <3> QED BY <2>0, <3>1, <3>2 DEF Living, LoopsKnow, Is
  <2>9. ASSUME NEW t \in Text, Type(t) PROVE Living'
    <3>1. /\ save'.st # "idle" => save'.void
          /\ UNCHANGED <<ref, loop, close, server>>
      BY <2>0, <2>9 DEF Type, Save
    <3>2. SaveCarried' /\ SaveKnows'
      BY <3>1 DEF SaveCarried, SaveKnows
    <3> QED BY <2>0, <3>1, <3>2 DEF Living, LoopsKnow, Is
  <2>10. CASE TimerFires
    <3>1. CASE UNCHANGED <<ref, pill, loop, late>>
      <4>1. UNCHANGED <<text, save, loop, close, ref, stop, server>>
        BY <2>10, <3>1 DEF TimerFires
      <4> QED BY <2>0, <4>1, LivingStays
    <3>2. CASE ~UNCHANGED <<ref, pill, loop, late>>
      <4>1. PICK mode \in {"open", "change"} : SyncDocument(text, mode, ref, pill)
        BY <2>10, <3>2 DEF TimerFires
      <4>2. UNCHANGED <<text, save, close, server>>
        BY <2>10 DEF TimerFires
      <4> QED BY <2>0, <4>1, <4>2, LivingSync
    <3> QED BY <3>1, <3>2
  <2>11. CASE Focus
    <3>1. PICK mode \in {"open", "change"} : mode = "open"
      OBVIOUS
    <3>2. SyncDocument(text, mode, ref, pill) /\ UNCHANGED <<text, save, close, server>>
      BY <2>11, <3>1 DEF Focus
    <3> QED BY <2>0, <3>2, LivingSync
  <2>12. CASE OpenFile
    BY <2>0, <2>12 DEF OpenFile
  <2>13. CASE SaveDocument
    BY <2>0, <2>13, LivingSave
  <2>14. CASE SaveAnswered
    BY <2>0, <2>14, LivingAnswer
  <2> QED BY <2>1, <2>2, <2>3, <2>4, <2>5, <2>6, <2>7, <2>8, <2>9, <2>10, <2>11,
             <2>12, <2>13, <2>14 DEF Next
<1> QED BY <1>1, <1>2, LifeBefore DEF Before

(* Together.                                                                *)
Following == TypeOK /\ Awaited /\ Parting /\ Before /\ (FirstLife => Living)

LEMMA FollowingStep == Following /\ [Next]_vars => Following'
BY TypeStep, AwaitedStep, PartingStep, EarlyStep, EmptyStep, OnStep, LivingStep
   DEF Following, Before

LEMMA FollowingInit == Init => Following
<1> SUFFICES ASSUME Init PROVE Following
  OBVIOUS
<1>1. TypeOK /\ Parting
  BY TypeInit, PartingInit
<1>2. ref.cur = 0 /\ save = NoSave /\ tab = "closed" /\ server.doc = None
  BY DEF Init
<1>3. save.st = "idle" /\ save.on = 0
  BY <1>2 DEF NoSave
<1>4. Awaited
  BY <1>1, <1>2, <1>3 DEF Awaited, QueueIsOwned, WaitsForLoop, SaveIsAwaited
<1>5. Before
  BY <1>2, <1>3 DEF Init, Before, Early, ServerEmpty, OnWaits
<1> QED BY <1>1, <1>2, <1>4, <1>5 DEF Following, FirstLife

(* The server that reads a didSave has the text that was saved: while the   *)
(* file stays open, unless that change failed or was ignored, more was      *)
(* typed, or the session was misled by the answer of such a save.           *)
THEOREM SavesFollowChanges == Spec => SaveFollowsChange
<1>1. ASSUME Following, save.st = "sent", FirstLife
      PROVE  server.doc \in {None, save.text} \/ save.void \/ ref.misled
  <2> SUFFICES ASSUME ~save.void, ~ref.misled
               PROVE  server.doc \in {None, save.text}
    OBVIOUS
  <2>1. SaveCarried /\ SaveKnows /\ text \in Text
    BY <1>1 DEF Following, Living, TypeOK
  <2>2. save.text # None
    BY <1>1, <2>1, NoneIsNoText DEF SaveCarried
  <2> QED BY <1>1, <2>1, <2>2 DEF SaveKnows, Is
<1>2. Spec => []Following
  BY FollowingInit, FollowingStep, PTL DEF Spec
<1> QED BY <1>1, <1>2, PTL DEF SaveFollowsChange

(* A text that counts as synced is the one the server has, and no edit was  *)
(* applied to a text it was not computed for: while the file stays open,    *)
(* until the answer of a void save misleads the session.                    *)
THEOREM SyncedTextsAreServed == Spec => []SyncedIsTrue
<1>1. Following => SyncedIsTrue
  <2> SUFFICES ASSUME Following, FirstLife, ~ref.misled
               PROVE  server.doc # Garbled /\ (Synced(ref, text) => server.doc \in {None, text})
    BY DEF SyncedIsTrue
  <2>1. LoopsKnow(ref) /\ text \in Text
    BY DEF Following, Living, TypeOK
  <2> QED BY <2>1, NoneIsNoText DEF LoopsKnow, Is, Synced
<1> QED BY <1>1, FollowingInit, FollowingStep, PTL DEF Spec

-----------------------------------------------------------------------------
(* The texts reach the server in order: the mirrored document.              *)

Mirrors == [Mirror!Next]_<<text, Line, server.doc>>

LEMMA LineLeft == ref'.cur = 0 => Line' = <<>>
BY DEF Line

LEMMA LineKept ==
    ASSUME ref'.cur = ref.cur,
           ref.cur # 0 => /\ loop'[ref.cur].text = loop[ref.cur].text
                          /\ loop'[ref.cur].next = loop[ref.cur].next
    PROVE  Line' = Line
BY DEF Line

(* A step that leaves the text and the queue alone, and does not send.      *)
LEMMA MirrorStays ==
    ASSUME text' = text, Line' = Line, server'.doc \in {None, server.doc}
    PROVE  Mirrors
BY DEF Mirrors, Mirror!Next, Mirror!Lose

(* A text is handed over.                                                   *)
LEMMA MirrorHands ==
    ASSUME TypeOK, NEW mode \in {"open", "change"}, NEW r \in Ref, r.cur = ref.cur,
           NEW p \in Pill, SyncDocument(text, mode, r, p), UNCHANGED <<text, server>>
    PROVE  Mirrors
<1> DEFINE job == [mode |-> mode, text |-> text]
<1>0. text \in Text /\ job # NoJob /\ job.text = text
  BY NoneIsNoText DEF TypeOK, NoJob
<1>1. CASE Ignored(r)
  BY <1>1, LineKept, MirrorStays DEF Ignored
<1>2. CASE Handed(r, job)
  <2> HIDE DEF job
  <2>1. /\ ref.cur # 0 /\ ref'.cur = ref.cur
        /\ loop'[ref.cur].text = loop[ref.cur].text /\ loop'[ref.cur].next = job
    BY <1>2, SlotIsPositive DEF Handed
  <2>2. Line # <<>> /\ Head(Line) = loop[ref.cur].text
    BY <2>1 DEF Line
  <2>3. Line' = <<loop[ref.cur].text, text>>
    BY <1>0, <2>1 DEF Line
  <2> QED BY <2>2, <2>3 DEF Mirrors, Mirror!Next, Mirror!Hand
<1>3. ASSUME NEW s \in Slot, Begun(r, job, s) PROVE Mirrors
  <2>1. /\ ref.cur = 0 /\ ref'.cur = s /\ s # 0
        /\ loop'[s].text = text /\ loop'[s].next = NoJob
    BY <1>0, <1>3, CallCarries, SlotIsPositive DEF Begun, Ref
  <2>2. Line = <<>> /\ Line' = <<text>>
    BY <2>1 DEF Line
  <2> QED BY <2>2 DEF Mirrors, Mirror!Next, Mirror!Hand
<1> QED BY <1>1, <1>2, <1>3, SyncEffect DEF TypeOK

(* The loop goes on with the text that waits, or ends.                      *)
LEMMA MirrorGoesOn ==
    ASSUME TypeOK, NEW s \in Slot, s = ref.cur, NEW r \in Ref, r.cur = ref.cur,
           NEW ok \in BOOLEAN, GoOn(s, r, ok), UNCHANGED <<text, server>>
    PROVE  Mirrors
<1>1. CASE loop[s].next = NoJob /\ Over(r, s)
  <2>1. ref'.cur = 0
    BY <1>1 DEF Over, LeaveQueue, Ref
  <2>2. Line' = <<>>
    BY <2>1, LineLeft
  <2>3. Line = <<loop[s].text>>
    BY <1>1, SlotIsPositive DEF Line
  <2> QED BY <2>2, <2>3 DEF Mirrors, Mirror!Next, Mirror!Advance
<1>2. CASE Goes(r, s, ok)
  <2> DEFINE mode == IF ok THEN "change" ELSE loop[s].next.mode
             job == [loop[s].next EXCEPT !.mode = mode]
  <2>1. loop[s].next \in Job /\ loop'[s] = CallOf(r, job) /\ ref' = r
    BY <1>2 DEF Goes
  <2>2. job.text = loop[s].next.text /\ loop[s].next # NoJob
    BY <2>1, NoneIsNoText DEF Job, NoJob
  <2> HIDE DEF job
  <2>3. loop'[s].text = loop[s].next.text /\ loop'[s].next = NoJob
    BY <2>1, <2>2, CallCarries
  <2>4. Line = <<loop[s].text, loop[s].next.text>> /\ Line' = <<loop[s].next.text>>
    BY <2>1, <2>2, <2>3, SlotIsPositive DEF Line
  <2> QED BY <2>4 DEF Mirrors, Mirror!Next, Mirror!Advance
<1> QED BY <1>1, <1>2, GoOnEffect

(* A loop is served, or looks at its answer.                                *)
LEMMA MirrorLoop ==
    ASSUME Following, FirstLife, ~ref.misled, NEW s \in Slot, LoopStep(s)
    PROVE  Mirrors
<1>0. /\ TypeOK /\ LoopsKnow(ref) /\ ref \in Ref /\ loop \in [Slot -> Loop]
      /\ ~loop[s].closed /\ HasBuffer /\ ServerEmpty
  BY DEF Following, Living, TypeOK, FirstLife, HasBuffer, Before
<1>1. loop[s].st # "idle" => s = ref.cur
  BY OneLoop DEF Following, Before
<1>2. CASE ServeLoop(s)
  <2>1. PICK a \in Answer : loop' = [loop EXCEPT ![s].st = a]
    BY <1>2 DEF ServeLoop, Answer
  <2>2. s = ref.cur /\ s # 0 /\ Is(loop[s].base) /\ UNCHANGED <<text, ref>>
    BY <1>0, <1>1, <1>2, SlotIsPositive DEF ServeLoop, LoopsKnow
  <2>3. \/ server'.doc = loop[s].text
        \/ server' = server
    BY <1>0, <1>2, <2>1, <2>2, ServedEffect
  <2>4. loop'[s].text = loop[s].text /\ loop'[s].next = loop[s].next
    BY <1>0, <2>1 DEF Loop
  <2>5. Line' = Line
    BY <2>2, <2>4, LineKept
  <2>6. CASE server' = server
    BY <2>2, <2>5, <2>6, MirrorStays
  <2>7. CASE server'.doc = loop[s].text
    <3>1. Line # <<>> /\ Head(Line) = loop[s].text
      BY <2>2 DEF Line
    <3> QED BY <2>2, <2>5, <2>7, <3>1 DEF Mirrors, Mirror!Next, Mirror!Deliver
  <2> QED BY <2>3, <2>6, <2>7
<1>3. CASE LoopAbandoned(s)
  BY <1>0, <1>3 DEF LoopAbandoned
<1>4. CASE LoopAnswered(s)
  <2> DEFINE ok == loop[s].st = "ok"
             r == [ref EXCEPT !.active = ok,
                              !.synced = IF ok THEN loop[s].text ELSE None,
                              !.inc = ok /\ Incremental]
  <2>1. loop[s].text \in Text \cup {None} /\ Incremental \in BOOLEAN
    BY <1>0, LspAssumption DEF Loop, LspAssumption
  <2>2. r \in Ref /\ r.cur = ref.cur
    BY <1>0, <2>1 DEF Ref
  <2>3. /\ GoOn(s, r, ok) /\ ok \in BOOLEAN /\ s = ref.cur /\ UNCHANGED <<text, server>>
    BY <1>1, <1>4 DEF LoopAnswered
  <2> HIDE DEF r, ok
  <2> QED BY <1>0, <2>2, <2>3, MirrorGoesOn
<1>5. CASE LoopRetries(s)
  <2>1. loop'[s].text = loop[s].text /\ loop'[s].next = loop[s].next
    BY <1>0, <1>5 DEF LoopRetries, Loop
  <2>2. \A u \in Slot \ {s} : loop'[u] = loop[u]
    BY <1>0, <1>5 DEF LoopRetries
  <2>3. s = ref.cur /\ UNCHANGED <<text, ref, server>>
    BY <1>1, <1>5 DEF LoopRetries
  <2> QED BY <2>1, <2>3, LineKept, MirrorStays
<1>6. CASE LoopFailed(s)
  <2>1. GoOn(s, ref, FALSE) /\ s = ref.cur /\ UNCHANGED <<text, server>>
    BY <1>0, <1>1, <1>6 DEF LoopFailed
  <2> QED BY <1>0, <2>1, MirrorGoesOn
<1> QED BY <1>2, <1>3, <1>4, <1>5, <1>6 DEF LoopStep

(* Every step, before the file is opened and while it stays open.           *)
LEMMA MirrorStep ==
    ASSUME Following, [Next]_vars, opens = 0 \/ FirstLife, ~ref.misled
    PROVE  Mirrors
<1>0. /\ TypeOK /\ text \in Text /\ ref \in Ref /\ pill \in Pill /\ save \in Save
      /\ server \in [up: BOOLEAN, doc: Text \cup {None, Garbled}]
  BY DEF Following, TypeOK
<1>1. opens = 0 => /\ ~FirstLife /\ tab = "closed" /\ close = "idle" /\ save.st = "idle"
                   /\ \A s \in Slot : loop[s].st = "idle"
  BY DEF Following, Before, Early, FirstLife, NoLoop
<1>2. close = "idle"
  BY <1>1 DEF Following, Living
<1>3. ASSUME NEW s \in Slot, LoopStep(s) PROVE Mirrors
  <2>1. loop[s].st # "idle"
    BY <1>3 DEF LoopStep, ServeLoop, LoopAbandoned, LoopAnswered, LoopRetries, LoopFailed
  <2> QED BY <1>1, <1>3, <2>1, MirrorLoop
<1>4. CASE \/ ServeSave \/ ServeStray \/ ServeStop \/ Crash \/ OtherFileOpened
           \/ Restart \/ FeatureAnswered \/ SaveFailed \/ Reopen \/ UNCHANGED vars
  <2>1. UNCHANGED <<text, loop>> /\ server'.doc \in {None, server.doc}
    BY <1>0, <1>4 DEF ServeSave, ServeStray, ServeStop, Crash, OtherFileOpened, Restart,
         FeatureAnswered, SaveFailed, Reopen, vars
  <2>2. ref'.cur = ref.cur
    BY <1>0, <1>4 DEF ServeSave, ServeStray, ServeStop, Crash, OtherFileOpened, Restart,
         FeatureAnswered, SaveFailed, Reopen, vars, Forgotten, Ref
  <2> QED BY <2>1, <2>2, LineKept, MirrorStays
<1>5. CASE ServeClose \/ CloseAnswered \/ CloseFailed
  BY <1>2, <1>5 DEF ServeClose, CloseAnswered, CloseFailed
<1>6. CASE (\E t \in Text : Type(t)) \/ OpenFile
  <2>1. text' \in Text /\ UNCHANGED <<ref, loop, server>>
    BY <1>6, LspAssumption DEF Type, OpenFile, LspAssumption
  <2>2. Line' = Line
    BY <2>1, LineKept
  <2> QED BY <2>1, <2>2 DEF Mirrors, Mirror!Next, Mirror!Edit
<1>7. CASE CloseFile
  <2>1. UNCHANGED <<text, server>> /\ ref'.cur = 0
    BY <1>0, <1>7 DEF CloseFile, Ref
  <2> QED BY <2>1, LineLeft DEF Mirrors, Mirror!Next, Mirror!Abandon
<1>8. ASSUME UNCHANGED <<text, ref, loop, server>> PROVE Mirrors
  BY <1>8, LineKept, MirrorStays
<1>9. CASE TimerFires
  <2>1. UNCHANGED <<text, server>>
    BY <1>9 DEF TimerFires
  <2>2. \/ UNCHANGED <<ref, loop>>
        \/ \E mode \in {"open", "change"} : SyncDocument(text, mode, ref, pill)
    BY <1>9 DEF TimerFires
  <2> QED BY <1>0, <1>8, <2>1, <2>2, MirrorHands
<1>10. CASE Focus
  <2>1. SyncDocument(text, "open", ref, pill) /\ UNCHANGED <<text, server>>
    BY <1>10 DEF Focus
  <2>2. PICK mode \in {"open", "change"} : mode = "open"
    OBVIOUS
  <2> QED BY <1>0, <2>1, <2>2, MirrorHands
<1>11. CASE SaveDocument
  <2>1. UNCHANGED <<text, server>>
    BY <1>11 DEF SaveDocument
  <2>2. \/ UNCHANGED <<ref, loop>>
        \/ \E mode \in {"open", "change"} : SyncDocument(text, mode, ref, pill)
    BY <1>11 DEF SaveDocument
  <2> QED BY <1>0, <1>8, <2>1, <2>2, MirrorHands
<1>12. CASE SaveAnswered
  <2> DEFINE ok == save.st = "ok"
             r == [ref EXCEPT !.synced = IF ok THEN save.text ELSE None,
                              !.active = ok, !.misled = @ \/ (ok /\ save.void)]
             p == [status |-> IF ok THEN "active" ELSE "inactive",
                   syncing |-> FALSE, error |-> FALSE]
  <2>1. /\ r \in Ref /\ r.cur = ref.cur /\ p \in Pill
    BY <1>0 DEF Ref, Save, Pill
  <2>2. UNCHANGED <<text, server>>
    BY <1>12 DEF SaveAnswered
  <2>3. \/ UNCHANGED <<ref, loop>>
        \/ ref' = r /\ UNCHANGED loop
        \/ SyncDocument(text, "change", r, p)
    BY <1>12 DEF SaveAnswered
  <2> HIDE DEF r, p
  <2>4. CASE ref' = r /\ UNCHANGED loop
    BY <2>1, <2>2, <2>4, LineKept, MirrorStays
  <2>5. CASE SyncDocument(text, "change", r, p)
    <3>1. PICK mode \in {"open", "change"} : mode = "change"
      OBVIOUS
    <3> QED BY <1>0, <2>1, <2>2, <2>5, <3>1, MirrorHands
  <2> QED BY <1>8, <2>2, <2>3, <2>4, <2>5
<1> QED BY <1>3, <1>4, <1>5, <1>6, <1>7, <1>9, <1>10, <1>11, <1>12 DEF Next

(* While a file stays open its texts reach the server's copy one at a time  *)
(* and in the order they were handed over.                                  *)
THEOREM TheBufferIsMirrored == Spec => MirrorsBuffer
<1>1. Init => Mirror!Init
  BY DEF Init, Mirror!Init, Line
<1>2. Following /\ [Next]_vars
        => [(opens # 0 /\ ~FirstLife) \/ ref.misled \/ Mirror!Next]_<<text, Line, server.doc>>
  <2> SUFFICES ASSUME Following, [Next]_vars, opens = 0 \/ FirstLife, ~ref.misled
               PROVE  Mirrors
    BY DEF Mirrors
  <2> QED BY MirrorStep
<1> QED BY <1>1, <1>2, FollowingInit, FollowingStep, PTL DEF Spec, MirrorsBuffer
=============================================================================
