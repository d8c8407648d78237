------------------------------ MODULE LspSync ------------------------------
(***************************************************************************)
(* One document of the code workspace and its copy in the language server. *)
(* useWorkspaceLspSession keeps the copy up to date with one queue at a    *)
(* time: the loop that owns it sends a didOpen or didChange, waits for the *)
(* answer, takes the latest text handed to it meanwhile, and ends when     *)
(* there is none.  A queue that was closed is forgotten while its last     *)
(* call is still on the way, so several loops may be alive.  Every call is *)
(* a command of the native side; commands under way overtake each other.   *)
(***************************************************************************)
EXTENDS Naturals, FiniteSets, Sequences

CONSTANTS
    Text,        \* what the buffer can hold
    First,       \* what it holds when the file is opened
    None,        \* no text: nothing sent yet, nothing waiting, not open
    Garbled,     \* what an edit makes of a text it was not computed for
    Incremental, \* the server takes edits rather than whole texts
    Slot,        \* the loops that can be alive at once, numbered
    MaxOpens,    \* bound: how often the file is opened
    MaxMoves,    \* bound: edits and saves
    MaxFaults,   \* bound: failed calls and starts, crashes, restarts
    MaxEvents    \* bound: all of these together

ASSUME LspAssumption ==
    /\ First \in Text /\ {None, Garbled} \cap Text = {} /\ None # Garbled
    /\ Incremental \in BOOLEAN
    /\ Slot \subseteq Nat \ {0} /\ IsFiniteSet(Slot)
    /\ {MaxOpens, MaxMoves, MaxFaults, MaxEvents} \subseteq Nat

VARIABLES
    tab,    \* "closed", "open", "closing" (didClose under way), "kept" (it
            \* failed), "reopening" (shown again before it was answered)
    text,   \* the live buffer
    timer,  \* the delayed didChange that typing schedules
    ref,    \* what the session remembers: see Ref
    pill,   \* what the workspace shows of the document: see Pill
    loop,   \* the queues and the loops that own them
    save,   \* the one save that tells the server
    close,  \* the didClose of the staged cleanup: "idle", "sent", "ok", "failed"
    strays, \* didClose calls nobody waits for
    stop,   \* a stop of the workspace's servers is on its way
    server, \* is a session up, and its copy of the document
    opens, moves, faults, \* bounded
    late    \* history: a loop was begun while the document was being closed

vars == <<tab, text, timer, ref, pill, loop, save, close, strays, stop, server,
          opens, moves, faults, late>>

\* misled: history: the answer of a didSave replaced what the session knows of
\* the server's text although that save was void
Ref == [cur: {0} \cup Slot, synced: Text \cup {None}, inc: BOOLEAN,
        active: BOOLEAN, misled: BOOLEAN]
Pill == [status: {"none", "active", "inactive"}, syncing: BOOLEAN,
         error: BOOLEAN]
Job == [mode: {"open", "change"}, text: Text]
NoJob == [mode |-> "open", text |-> None]
Answer == {"ok", "down", "failed"}
Loop == [st: {"idle", "sent"} \cup Answer, mode: {"open", "change"},
         text: Text \cup {None}, base: Text \cup {None}, omit: BOOLEAN,
         closed: BOOLEAN, next: Job \cup {NoJob}]
\* void: history: more was typed since, or the change of the saved text was
\* ignored, as the document is not active, or failed
Save == [st: {"idle", "loop", "queue", "sent"} \cup Answer,
         text: Text \cup {None}, on: {0} \cup Slot, void: BOOLEAN]

Forgotten(r) == [r EXCEPT !.synced = None, !.inc = FALSE, !.active = FALSE]
NoPill == [status |-> "none", syncing |-> FALSE, error |-> FALSE]
NoLoop == [st |-> "idle", mode |-> "open", text |-> None, base |-> None,
           omit |-> FALSE, closed |-> FALSE, next |-> NoJob]
NoSave == [st |-> "idle", text |-> None, on |-> 0, void |-> FALSE]

TypeOK ==
    /\ tab \in {"closed", "open", "closing", "kept", "reopening"}
    /\ text \in Text
    /\ {timer, stop, late} \subseteq BOOLEAN
    /\ ref \in Ref /\ pill \in Pill /\ save \in Save
    /\ loop \in [Slot -> Loop]
    /\ \A s \in Slot : loop[s].st = "idle" <=> loop[s].text = None
    /\ close \in {"idle", "sent"} \cup Answer
    /\ strays \in Nat
    /\ server \in [up: BOOLEAN, doc: Text \cup {None, Garbled}]
    /\ opens \in 0 .. MaxOpens /\ moves \in 0 .. MaxMoves
    /\ faults \in 0 .. MaxFaults

Init ==
    /\ tab = "closed" /\ text = First /\ timer = FALSE
    /\ ref = [cur |-> 0, synced |-> None, inc |-> FALSE, active |-> FALSE,
              misled |-> FALSE]
    /\ pill = NoPill /\ save = NoSave
    /\ loop = [s \in Slot |-> NoLoop]
    /\ close = "idle" /\ strays = 0 /\ stop = FALSE
    /\ server = [up |-> FALSE, doc |-> None]
    /\ opens = 0 /\ moves = 0 /\ faults = 0 /\ late = FALSE

Room == opens + moves + faults < MaxEvents
Open == Room /\ opens < MaxOpens /\ opens' = opens + 1
Move == Room /\ moves < MaxMoves /\ moves' = moves + 1
Fault == Room /\ faults < MaxFaults /\ faults' = faults + 1

HasBuffer == tab # "closed"

-----------------------------------------------------------------------------
(* The queue.                                                               *)

\* isDocumentSynced
Synced(r, t) == r.synced = t /\ r.cur = 0

\* An edit is computed against the text sent last, if there is one that
\* differs; a server known to take edits is not sent the whole text as well.
CallOf(r, job) ==
    [st |-> "sent", mode |-> job.mode, text |-> job.text, base |-> r.synced,
     omit |-> /\ job.mode = "change" /\ r.inc
              /\ r.synced \notin {None, job.text},
     closed |-> FALSE, next |-> NoJob]

Busy(p, r, mode) ==
    IF mode = "open" \/ ~r.active
    THEN [p EXCEPT !.syncing = TRUE, !.error = FALSE] ELSE p

FreeSlot(s) == loop[s].st = "idle" /\ \A u \in Slot : u < s => loop[u].st # "idle"

\* syncDocument: ignored, handed to the running loop, or a loop of its own.
\* r, p: ref and pill as the caller leaves them.
SyncDocument(t, mode, r, p) ==
    \/ /\ r.cur = 0 /\ mode = "change" /\ ~r.active
       /\ ref' = r /\ pill' = p /\ UNCHANGED loop
       /\ UNCHANGED late
    \/ /\ r.cur # 0
       /\ loop' = [loop EXCEPT ![r.cur].next = [mode |-> mode, text |-> t]]
       /\ ref' = r /\ pill' = p
       /\ UNCHANGED late
    \/ /\ r.cur = 0 /\ (mode = "open" \/ r.active)
       /\ \E s \in Slot :
            /\ FreeSlot(s)
            /\ loop' = [loop EXCEPT ![s] = CallOf(r, [mode |-> mode, text |-> t])]
            /\ ref' = [r EXCEPT !.cur = s]
       /\ pill' = Busy(p, r, mode)
       /\ late' = (late \/ close' # "idle")

\* A save that waited goes on: it sends didSave, or finds another queue.
Resumed(sv, cur) ==
    IF sv.st = "loop" /\ cur # 0 THEN [sv EXCEPT !.st = "queue", !.on = cur]
    ELSE [sv EXCEPT !.st = "sent", !.on = 0]

\* Mutant: the loop ends without resolving the waiters of its queue.
EndedSilently(s) ==
    /\ loop' = [loop EXCEPT ![s] = NoLoop]
    /\ save' = IF save.st = "loop" /\ save.on = s THEN Resumed(save, ref'.cur) ELSE save

\* The finally of syncDocument.
Ended(s) ==
    /\ loop' = [loop EXCEPT ![s] = NoLoop]
    /\ save' = IF save.on = s
               THEN Resumed([save EXCEPT !.void = @ \/ loop[s].st = "failed"], ref'.cur)
               ELSE save

LeaveQueue(r, s) == [r EXCEPT !.cur = IF @ = s THEN 0 ELSE @]

\* The next text, or the end.  A text that follows an open of an active
\* document is sent as a change.
GoOn(s, r, ok) ==
    IF loop[s].next = NoJob
    THEN ref' = LeaveQueue(r, s) /\ Ended(s)
    ELSE LET job == loop[s].next
             mode == IF ok THEN "change" ELSE job.mode IN
         /\ loop' = [loop EXCEPT ![s] = CallOf(r, [job EXCEPT !.mode = mode])]
         /\ ref' = r
         /\ UNCHANGED save

\* Mutant: the answer of a call whose queue was closed is not looked at.
LoopAbandonedQuietly(s) ==
    /\ loop[s].st \in {"ok", "down"}
    /\ loop[s].closed \/ ~HasBuffer
    /\ ref' = LeaveQueue([ref EXCEPT !.active = (loop[s].st = "ok")], s)
    /\ Ended(s)
    /\ UNCHANGED <<tab, text, timer, pill, close, strays, stop, server,
                   opens, moves, faults, late>>

\* Answered after the queue was closed or the buffer is gone: the document
\* is closed (again).
LoopAbandoned(s) ==
    /\ loop[s].st \in {"ok", "down"}
    /\ loop[s].closed \/ ~HasBuffer
    /\ strays' = strays + 1
    /\ ref' = LeaveQueue([ref EXCEPT !.active = (loop[s].st = "ok")], s)
    /\ Ended(s)
    /\ UNCHANGED <<tab, text, timer, pill, close, stop, server, opens,
                   moves, faults, late>>

LoopAnswered(s) ==
    LET ok == loop[s].st = "ok"
        pending == loop[s].next # NoJob IN
    /\ loop[s].st \in {"ok", "down"}
    /\ ~loop[s].closed /\ HasBuffer
    /\ pill' = [status |-> IF ok THEN "active" ELSE "inactive",
                syncing |-> ~ok /\ pending, error |-> FALSE]
    /\ GoOn(s, [ref EXCEPT !.active = ok,
                           !.synced = IF ok THEN loop[s].text ELSE None,
                           !.inc = ok /\ Incremental], ok)
    /\ UNCHANGED <<tab, text, timer, close, strays, stop, server, opens,
                   moves, faults, late>>

\* Mutant: what is sent once more is the text that waits, which goes on waiting.
LoopRetriesNewest(s) ==
    /\ loop[s].st = "failed" /\ loop[s].omit
    /\ LET newest == IF loop[s].next = NoJob THEN loop[s].text ELSE loop[s].next.text IN
       loop' = [loop EXCEPT ![s] =
                   [loop[s] EXCEPT !.st = "sent", !.omit = FALSE, !.text = newest]]
    /\ UNCHANGED <<tab, text, timer, ref, pill, save, close, strays, stop,
                   server, opens, moves, faults, late>>

\* An edit sent without the text is sent once more with it.
LoopRetries(s) ==
    /\ loop[s].st = "failed" /\ loop[s].omit
    /\ loop' = [loop EXCEPT ![s] = [loop[s] EXCEPT !.st = "sent", !.omit = FALSE]]
    /\ UNCHANGED <<tab, text, timer, ref, pill, save, close, strays, stop,
                   server, opens, moves, faults, late>>

\* Mutant: a text that was not delivered counts as the one the server has.
LoopFailedSynced(s) ==
    /\ loop[s].st = "failed" /\ ~loop[s].omit
    /\ pill' = [pill EXCEPT !.syncing = FALSE, !.error = TRUE]
    /\ GoOn(s, [ref EXCEPT !.synced = loop[s].text], FALSE)
    /\ UNCHANGED <<tab, text, timer, close, strays, stop, server, opens,
                   moves, faults, late>>

LoopFailed(s) ==
    /\ loop[s].st = "failed" /\ ~loop[s].omit
    /\ IF loop[s].closed \/ ~HasBuffer
       THEN ref' = LeaveQueue(ref, s) /\ Ended(s) /\ UNCHANGED pill
       ELSE /\ pill' = [pill EXCEPT !.syncing = FALSE, !.error = TRUE]
            /\ GoOn(s, ref, FALSE)
    /\ UNCHANGED <<tab, text, timer, close, strays, stop, server, opens,
                   moves, faults, late>>

-----------------------------------------------------------------------------
(* The native side and the server.                                          *)

Absent == ~server.up \/ server.doc = None

\* content_change_for_sync, applied by the server
Changed(call) ==
    IF Incremental /\ call.base \notin {None, call.text}
    THEN IF server.doc = call.base THEN call.text ELSE Garbled
    ELSE call.text

\* lsp_open_document, lsp_change_document
ServeLoop(s) ==
    /\ loop[s].st = "sent"
    /\ \/ \* didOpen; a session is started when there is none
          /\ loop[s].mode = "open" \/ (Absent /\ ~loop[s].omit)
          /\ server' = [up |-> TRUE, doc |-> loop[s].text]
          /\ loop' = [loop EXCEPT ![s].st = "ok"]
          /\ UNCHANGED faults
       \/ \* there is no session and it does not start
          /\ ~server.up /\ ~loop[s].omit /\ Fault
          /\ loop' = [loop EXCEPT ![s].st = "down"]
          /\ UNCHANGED server
       \/ \* "LSP change requires full document text"
          /\ Absent /\ loop[s].omit
          /\ loop' = [loop EXCEPT ![s].st = "failed"]
          /\ UNCHANGED <<server, faults>>
       \/ \* didChange
          /\ loop[s].mode = "change" /\ ~Absent
          /\ server' = [server EXCEPT !.doc = Changed(loop[s])]
          /\ loop' = [loop EXCEPT ![s].st = "ok"]
          /\ UNCHANGED faults
       \/ \* the session cannot be written to
          /\ Fault
          /\ loop' = [loop EXCEPT ![s].st = "failed"]
          /\ UNCHANGED server
    /\ UNCHANGED <<tab, text, timer, ref, pill, save, close, strays, stop,
                   opens, moves, late>>

\* lsp_save_document
ServeSave ==
    /\ save.st = "sent"
    /\ \/ /\ save' = [save EXCEPT !.st = IF server.up THEN "ok" ELSE "down"]
          /\ UNCHANGED faults
       \/ /\ server.up /\ Fault
          /\ save' = [save EXCEPT !.st = "failed"]
    /\ UNCHANGED <<tab, text, timer, ref, pill, loop, close, strays, stop,
                   server, opens, moves, late>>

\* lsp_close_document
ServeClose ==
    /\ close = "sent"
    /\ \/ /\ server' = [server EXCEPT !.doc = None]
          /\ close' = "ok"
          /\ UNCHANGED faults
       \/ /\ server.up /\ Fault
          /\ close' = "failed"
          /\ UNCHANGED server
    /\ UNCHANGED <<tab, text, timer, ref, pill, loop, save, strays, stop,
                   opens, moves, late>>

ServeStray ==
    /\ strays > 0
    /\ strays' = strays - 1
    /\ server' = [server EXCEPT !.doc = None]
    /\ UNCHANGED <<tab, text, timer, ref, pill, loop, save, close, stop,
                   opens, moves, faults, late>>

\* stop_workspace
ServeStop ==
    /\ stop
    /\ stop' = FALSE
    /\ server' = [up |-> FALSE, doc |-> None]
    /\ UNCHANGED <<tab, text, timer, ref, pill, loop, save, close, strays,
                   opens, moves, faults, late>>

Crash ==
    /\ server.up /\ Fault
    /\ server' = [up |-> FALSE, doc |-> None]
    /\ UNCHANGED <<tab, text, timer, ref, pill, loop, save, close, strays,
                   stop, opens, moves, late>>

\* Another file of the workspace starts the session again.
OtherFileOpened ==
    /\ ~server.up /\ HasBuffer /\ faults > 0
    /\ server' = [server EXCEPT !.up = TRUE]
    /\ UNCHANGED <<tab, text, timer, ref, pill, loop, save, close, strays,
                   stop, opens, moves, faults, late>>

-----------------------------------------------------------------------------
(* The workspace.                                                           *)

\* shouldLiveSyncLsp, shouldProbeLsp
LiveSync == pill.status = "active" \/ pill.syncing
MayProbe ==
    \/ pill.status = "none"
    \/ pill.status = "inactive" /\ (~pill.error \/ pill.syncing)

Type(t) ==
    /\ tab = "open" /\ t # text /\ Move
    /\ text' = t
    /\ timer' = LiveSync
    /\ save' = IF save.st = "idle" THEN save ELSE [save EXCEPT !.void = TRUE]
    /\ UNCHANGED <<tab, ref, pill, loop, close, strays, stop, server,
                   opens, faults, late>>

TimerFires ==
    /\ timer /\ timer' = FALSE
    /\ UNCHANGED <<tab, text, save, close, strays, stop, server, opens,
                   moves, faults>>
    /\ IF HasBuffer /\ LiveSync /\ ~(pill.status = "active" /\ Synced(ref, text))
       THEN SyncDocument(text, IF pill.status = "active" THEN "change" ELSE "open",
                         ref, pill)
       ELSE UNCHANGED <<ref, pill, loop, late>>

OpenFile ==
    /\ tab = "closed" /\ Open
    /\ tab' = "open" /\ text' = First
    /\ pill' = NoPill
    /\ UNCHANGED <<timer, ref, loop, save, close, strays, stop, server, moves,
                   faults, late>>

\* The file is shown (again): a probe, unless it is known to be served.
Focus ==
    /\ tab \in {"open", "reopening"}
    /\ MayProbe
    /\ UNCHANGED <<tab, text, timer, save, close, strays, stop, server, opens,
                   moves, faults>>
    /\ SyncDocument(text, "open", ref, pill)

\* closeDocumentAndWait, as far as the didClose
CloseFile ==
    /\ tab \in {"open", "kept"} /\ close = "idle"
    /\ tab' = "closing"
    /\ close' = "sent"
    /\ loop' = IF ref.cur = 0 THEN loop
               ELSE [loop EXCEPT ![ref.cur] =
                        [loop[ref.cur] EXCEPT !.closed = TRUE, !.next = NoJob]]
    /\ ref' = [ref EXCEPT !.cur = 0]
    /\ save' = IF save.st = "queue" /\ save.on = ref.cur THEN Resumed(save, 0) ELSE save
    /\ UNCHANGED <<text, timer, pill, strays, stop, server, opens, moves, faults,
                   late>>

\* The tab is opened again: before the didClose is answered, or after it failed.
Reopen ==
    /\ tab \in {"closing", "kept"} /\ Open
    /\ tab' = IF tab = "closing" THEN "reopening" ELSE "open"
    /\ UNCHANGED <<text, timer, ref, pill, loop, save, close, strays, stop,
                   server, moves, faults, late>>

\* Forget the document; then the cleanup takes the buffer away, or the tab
\* that is there again is announced to the server.
CloseAnswered ==
    /\ close = "ok" /\ close' = "idle"
    /\ IF tab = "closing"
       THEN /\ tab' = "closed" /\ pill' = NoPill /\ timer' = FALSE
            /\ ref' = Forgotten(ref)
            /\ UNCHANGED <<loop, late>>
       ELSE /\ tab' = "open" /\ timer' = FALSE
            /\ SyncDocument(text, "open", Forgotten(ref), pill)
    /\ UNCHANGED <<text, save, strays, stop, server, opens, moves, faults>>

CloseFailed ==
    /\ close = "failed" /\ close' = "idle"
    /\ tab' = IF tab = "closing" THEN "kept" ELSE "open"
    /\ UNCHANGED <<text, timer, ref, pill, loop, save, strays, stop,
                   server, opens, moves, faults, late>>

\* Mutant: didSave is sent at once.
SaveAtOnce ==
    /\ tab = "open" /\ save.st = "idle" /\ Move
    /\ save' = [NoSave EXCEPT !.text = text, !.st = "sent"]
    /\ UNCHANGED <<tab, text, timer, close, strays, stop, server, opens,
                   faults>>
    /\ IF Synced(ref, text) THEN UNCHANGED <<ref, pill, loop, late>>
       ELSE SyncDocument(text, "change", ref, pill)

\* saveDocument, as far as its first await: the change goes first.
SaveDocument ==
    /\ tab = "open" /\ save.st = "idle" /\ Move
    /\ UNCHANGED <<tab, text, timer, close, strays, stop, server, opens,
                   faults>>
    /\ IF Synced(ref, text)
       THEN /\ save' = [NoSave EXCEPT !.text = text, !.st = "sent"]
            /\ UNCHANGED <<ref, pill, loop, late>>
       ELSE /\ SyncDocument(text, "change", ref, pill)
            /\ save' = [NoSave EXCEPT !.text = text, !.on = ref'.cur,
                           !.void = (ref'.cur = 0),
                           !.st = CASE ref'.cur = 0 -> "sent"
                                    [] ref.cur # 0 -> "queue"
                                    [] OTHER -> "loop"]

\* The didSave is answered: its text counts as the one the server has, and
\* a newer text is sent as a change.
SaveAnswered ==
    /\ save.st \in {"ok", "down"} /\ save' = NoSave
    /\ UNCHANGED <<tab, text, timer, close, strays, stop, server, opens,
                   moves, faults>>
    /\ IF ~HasBuffer THEN UNCHANGED <<ref, pill, loop, late>>
       ELSE LET ok == save.st = "ok"
                r == [ref EXCEPT !.synced = IF ok THEN save.text ELSE None,
                                 !.active = ok, !.misled = @ \/ (ok /\ save.void)]
                p == [status |-> IF ok THEN "active" ELSE "inactive",
                      syncing |-> FALSE, error |-> FALSE] IN
            IF text = save.text
            THEN ref' = r /\ pill' = p /\ UNCHANGED <<loop, late>>
            ELSE SyncDocument(text, "change", r, p)

SaveFailed ==
    /\ save.st = "failed" /\ save' = NoSave
    /\ pill' = IF HasBuffer THEN [pill EXCEPT !.syncing = FALSE, !.error = TRUE]
                            ELSE pill
    /\ UNCHANGED <<tab, text, timer, ref, loop, close, strays, stop,
                   server, opens, moves, faults, late>>

\* restartWorkspaceServers
Restart ==
    /\ ~stop /\ Fault
    /\ stop' = TRUE
    /\ ref' = Forgotten(ref)
    /\ UNCHANGED <<tab, text, timer, pill, loop, save, close, strays,
                   server, opens, moves, late>>

\* The answer of a completion, a hover and the like: updateStatus
FeatureAnswered ==
    /\ tab = "open" /\ pill.status = "active"
    /\ ref' = [ref EXCEPT !.active = server.up]
    /\ pill' = [status |-> IF server.up THEN "active" ELSE "inactive",
                syncing |-> FALSE, error |-> FALSE]
    /\ UNCHANGED <<tab, text, timer, loop, save, close, strays, stop,
                   server, opens, moves, faults, late>>

-----------------------------------------------------------------------------
LoopStep(s) ==
    ServeLoop(s) \/ LoopAbandoned(s) \/ LoopAnswered(s) \/ LoopRetries(s)
    \/ LoopFailed(s)

Next ==
    \/ \E s \in Slot : LoopStep(s)
    \/ ServeSave \/ ServeClose \/ ServeStray \/ ServeStop
    \/ Crash \/ OtherFileOpened
    \/ \E t \in Text : Type(t)
    \/ TimerFires \/ OpenFile \/ Focus
    \/ CloseFile \/ Reopen \/ CloseAnswered \/ CloseFailed
    \/ SaveDocument \/ SaveAnswered \/ SaveFailed
    \/ Restart \/ FeatureAnswered

Spec == Init /\ [][Next]_vars

-----------------------------------------------------------------------------
(* Properties.                                                              *)

\* Nothing is on its way.
Quiet ==
    /\ \A s \in Slot : loop[s].st = "idle"
    /\ save.st = "idle" /\ close = "idle" /\ strays = 0 /\ ~stop /\ ~timer

\* A save that waits for a queue waits for one that a loop still owns and that
\* was not closed, so that its end, or the close, resolves the wait: no loop
\* ends, no queue is forgotten, with the save left waiting.
SaveIsAwaited ==
    /\ save.st \in {"loop", "queue"} => loop[save.on].st # "idle"
    /\ save.st = "queue" => save.on = ref.cur /\ ~loop[save.on].closed

\* Once a file is closed and everything is answered, the server has let go of
\* the document, even when a didOpen or didChange was under way; unless a
\* loop was begun after the didClose, by a timer or by the end of a save.
NoOrphan == Quiet /\ tab = "closed" /\ ~late => server.doc = None

\* The file was opened once and stays open.
FirstLife == opens = 1 /\ tab = "open"

\* A text that is not sent again, because the session counts it as synced, is
\* the one the server has, unless it has none, having crashed or restarted;
\* and no edit was applied to a text it was not computed for.  For a file that
\* stays open, until the answer of a void save misleads the session.
SyncedIsTrue ==
    FirstLife /\ ~ref.misled =>
        /\ server.doc # Garbled
        /\ Synced(ref, text) => server.doc \in {None, text}

\* "didSave must follow any queued didChange for the same text": while the
\* file stays open, the server that reads a didSave has the text that was
\* saved, unless the change of that text failed or was ignored, more was typed
\* since; and until the answer of a save of that kind misleads the session.
SaveFollowsChange ==
    [][save.st = "sent" /\ save'.st = "ok" /\ FirstLife
       => \/ server.doc \in {None, save.text}
          \/ save.void \/ ref.misled]_vars

\* The text under way and the one that waits, of the queue that is not closed
Line ==
    IF ref.cur = 0 THEN <<>>
    ELSE LET l == loop[ref.cur] IN
         IF l.next = NoJob THEN <<l.text>> ELSE <<l.text, l.next.text>>

Mirror == INSTANCE MirroredDocument WITH
    buffer <- text, line <- Line, copy <- server.doc

\* While the file stays open, its texts reach the server's copy one at a time
\* and in the order they were handed over, whatever overtakes what: each step
\* is one of the mirrored document, until a void save misleads the session.
MirrorsBuffer ==
    /\ Mirror!Init
    /\ [][(opens # 0 /\ ~FirstLife) \/ ref.misled \/ Mirror!Next]_<<text, Line, server.doc>>
=============================================================================
