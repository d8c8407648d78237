----------------------------- MODULE SaveCommit -----------------------------
(***************************************************************************)
(* One file of the code workspace: its open buffer, the file on disk, and  *)
(* everything that reads or writes either.  Every handler of the editor    *)
(* runs to its next await without being interrupted, so an action is one   *)
(* such stretch; between two of them anything else may run.  A save is     *)
(*   prepare (format, imports) - history snapshot - pre-write boundary -   *)
(*   native write - watcher notification - writeback                       *)
(* and opening, reloading, closing and external changes interleave with    *)
(* it.  A hash is the content it is the hash of; encoding, line ends and   *)
(* the byte order mark are left out.                                       *)
(***************************************************************************)
EXTENDS Naturals, FiniteSets, TLC

CONSTANTS
    Text,               \* the contents a file or a buffer can have
    Blank,              \* the text of a buffer that is still loading
    None,               \* no hash, no content
    First,              \* what the file holds at the start
    Fmt,                \* what format-on-save turns a text into
    Opener,             \* the calls of openFile that can be in flight at once
    MaxTx,              \* save transactions
    MaxMoves,           \* bound: what users and programs do and what fails, in all
    ExternalDuringWrite \* other programs may write inside the native command

ASSUME TextAssumption ==
    /\ {First, Blank} \subseteq Text /\ None \notin Text
    /\ Text \cap {"idle", "waiting", "asked"} = {}
    /\ Fmt \in [Text -> Text]
    /\ {MaxTx, MaxMoves} \subseteq Nat
    /\ Opener \cap {"reload", "external"} = {}
    /\ ExternalDuringWrite \in BOOLEAN

VARIABLES
    disk,      \* the content of the file
    buf,       \* openFiles[key], or NoBuffer
    tab,       \* the key is in some editor group
    closing,   \* the staged cleanup of a closed tab waits for didClose
    epoch,     \* the owner epoch of the key in SaveTransactionRegistry
    style,     \* the generation of the style controller
    io,        \* the file reads in flight, by what asked for them
    held,      \* the buffer captured by a reload or an external change
    event,     \* a change of the file is announced and not yet handled
    conflict,  \* the disk content offered by the conflict dialog, or None
    tx,        \* the save transactions
    ledger,    \* the disk-effect rows of the recovery center
    moves,     \* bounded: what was done and what failed so far
    shown      \* history: the disk contents the user has been shown

vars == <<disk, buf, tab, closing, epoch, style, io, held, event, conflict,
          tx, ledger, moves, shown>>

Tx == 1 .. MaxTx
Reader == Opener \cup {"reload", "external"}

NoBuffer == [text |-> Blank, saved |-> Blank, hash |-> None, dirty |-> FALSE,
             saving |-> FALSE, loading |-> FALSE, rev |-> 0, there |-> FALSE]

Buffer == [text: Text, saved: Text,
           hash: Text \cup {None}, dirty: BOOLEAN, saving: BOOLEAN,
           loading: BOOLEAN, rev: Nat, there: BOOLEAN]

Phase == {"idle", "prepare", "history", "issued", "checked", "replaced",
          "answered", "readback", "watch", "done"}
Effect == {"none", "committed", "unknown"}

Transaction == [phase: Phase, text: Text, rev: Nat,
                hash: Text \cup {None}, style: Nat,
                epoch: Nat, answer: {"", "ok", "mismatch", "none", "unknown"},
                file: Text \cup {None}, live: Text \cup {None},
                liveRev: Nat, effect: {""} \cup Effect, wrote: BOOLEAN]

Idle == [phase |-> "idle", text |-> Blank, rev |-> 0, hash |-> None,
         style |-> 0, epoch |-> 0, answer |-> "", file |-> None,
         live |-> None, liveRev |-> 0, effect |-> "", wrote |-> FALSE]

TypeOK ==
    /\ disk \in Text
    /\ buf \in Buffer
    /\ tab \in BOOLEAN /\ closing \in BOOLEAN /\ event \in BOOLEAN
    /\ {epoch, style} \subseteq Nat
    /\ moves \in 0 .. MaxMoves
    /\ io \in [Reader -> {"idle", "waiting", "asked"} \cup Text]
    /\ held \in [{"reload", "external"} -> Buffer]
    /\ conflict \in Text \cup {None}
    /\ tx \in [Tx -> Transaction]
    /\ ledger \in [Tx -> {"none", "pending", "foreign", "confirmed"}]
    /\ shown \subseteq Text

Init ==
    /\ disk = First /\ buf = NoBuffer
    /\ tab = FALSE /\ closing = FALSE /\ event = FALSE
    /\ epoch = 0 /\ style = 0 /\ moves = 0
    /\ io = [r \in Reader |-> "idle"]
    /\ held = [r \in {"reload", "external"} |-> NoBuffer]
    /\ conflict = None
    /\ tx = [t \in Tx |-> Idle]
    /\ ledger = [t \in Tx |-> "none"]
    /\ shown = {}

-----------------------------------------------------------------------------
(* Buffers.  mutateOpenBuffer leaves a closed buffer closed and never       *)
(* lowers the revision of an open one.                                      *)

Loaded(x) == [NoBuffer EXCEPT !.text = x, !.saved = x, !.hash = x, !.there = TRUE]

Loading == [NoBuffer EXCEPT !.loading = TRUE, !.there = TRUE]

\* reason "user-edit" or "programmatic": the text, the revision, dirty.
Edited(b, x) == [b EXCEPT !.text = x, !.dirty = (x # b.saved), !.rev = b.rev + 1]

\* reason "save-metadata": flags only, and only on an open buffer.
SavingOff(b) == IF b.there THEN [b EXCEPT !.saving = FALSE] ELSE b

MarkFailed(b) ==
    IF b.there THEN [b EXCEPT !.dirty = TRUE, !.saving = FALSE] ELSE b

\* reason "reload": everything comes from the disk, the revision goes up.
Reloaded(b, x) ==
    IF b.there THEN [Loaded(x) EXCEPT !.rev = b.rev + 1] ELSE b

\* reason "save-writeback": the text read before the notification was awaited.
WrittenBack(b, t) ==
    [b EXCEPT !.text = tx[t].live, !.saved = tx[t].file, !.hash = tx[t].text,
              !.dirty = (tx[t].liveRev # tx[t].rev), !.saving = FALSE,
              !.loading = FALSE, !.rev = IF b.rev > tx[t].liveRev THEN b.rev ELSE tx[t].liveRev]

Editable == buf.there /\ ~buf.loading

\* The user or another program does one more thing, or something fails.
Move == moves < MaxMoves /\ moves' = moves + 1

Quietly == UNCHANGED moves

Type(x) ==
    /\ tab /\ Editable /\ x # buf.text /\ Move
    /\ buf' = Edited(buf, x)
    /\ UNCHANGED <<disk, tab, closing, epoch, style, io, held, event, conflict,
                   tx, ledger, shown>>

StyleChanged ==
    /\ Move
    /\ style' = style + 1
    /\ UNCHANGED <<disk, buf, tab, closing, epoch, io, held, event, conflict,
                   tx, ledger, shown>>

-----------------------------------------------------------------------------
(* Saving.                                                                  *)

\* The record of transaction t is replaced.
Goes(t, r) == tx' = [tx EXCEPT ![t] = r]

\* Mutant: any open buffer of the key will do.
ActiveIfOpen(t) == buf.there

\* SaveTransactionRegistry.check
Active(t) == tx[t].epoch = epoch

\* hasBlockingDiskEffectResolution
Blocked == \E t \in Tx : ledger[t] \in {"pending", "foreign"}

Snapshot(b, x) == [Idle EXCEPT !.text = x, !.rev = b.rev, !.hash = b.hash,
                               !.style = style]

\* The transaction ends: only what it reported is kept.
Ended(effect) == [Idle EXCEPT !.phase = "done", !.effect = effect]

\* Transactions are taken in order: which one a save gets does not matter.
IsNext(t) == tx[t].phase = "idle" /\ \A u \in 1 .. t - 1 : tx[u].phase # "idle"

\* saveFile, as far as its first await
StartSave(t) ==
    /\ IsNext(t)
    /\ tab /\ Editable /\ ~buf.saving /\ buf.dirty
    /\ ~Blocked /\ Move
    /\ Goes(t, [Snapshot(buf, buf.text) EXCEPT !.phase = "prepare"])
    /\ UNCHANGED <<disk, buf, tab, closing, epoch, style, io, held, event,
                   conflict, ledger, shown>>

\* commitOpenBufferPreparedSave, as far as the history snapshot
BeginCommit(b, t, prepared) ==
    /\ Goes(t, [prepared EXCEPT !.phase = "history", !.epoch = epoch])
    /\ buf' = [b EXCEPT !.saving = TRUE]

\* validatePreparedSaveBoundary
Unedited(t) ==
    buf.there /\ buf.rev = tx[t].rev /\ style = tx[t].style

\* executeSaveTransaction after format, imports and normalisation
PrepareDone(t) ==
    /\ tx[t].phase = "prepare"
    /\ \/ /\ Unedited(t)
          /\ \E x \in {tx[t].text, Fmt[tx[t].text]} :
                BeginCommit(buf, t, [tx[t] EXCEPT !.text = x])
          /\ Quietly
       \/ \* edited, restyled or closed meanwhile, or not encodable
          /\ IF Unedited(t) THEN Move ELSE Quietly
          /\ Goes(t, Ended("none"))
          /\ UNCHANGED buf
    /\ UNCHANGED <<disk, tab, closing, epoch, style, io, held, event, conflict,
                   ledger, shown>>

\* applyToOpenBuffer and saveOpenBuffer: a workspace edit of a clean buffer
EditAndSave(t, x) ==
    /\ IsNext(t)
    /\ Editable /\ ~buf.dirty /\ x # buf.text
    /\ ~Blocked /\ Move
    /\ LET b == Edited(buf, x) IN BeginCommit(b, t, Snapshot(b, x))
    /\ UNCHANGED <<disk, tab, closing, epoch, style, io, held, event, conflict,
                   ledger, shown>>

\* The owner check follows.
BoundaryHolds(t) == Unedited(t) /\ Active(t)

\* Mutant: a save that is cancelled leaves its mark.
HistoryDoneMarked(t) ==
    /\ tx[t].phase = "history"
    /\ Goes(t, IF BoundaryHolds(t) THEN [tx[t] EXCEPT !.phase = "issued"]
                                    ELSE Ended("none"))
    /\ UNCHANGED <<disk, buf, tab, closing, epoch, style, io, held, event,
                   conflict, ledger, moves, shown>>

\* The history snapshot is stored; check and write in the same turn.
HistoryDone(t) ==
    /\ tx[t].phase = "history"
    /\ IF BoundaryHolds(t)
       THEN /\ Goes(t, [tx[t] EXCEPT !.phase = "issued"])
            /\ UNCHANGED buf
       ELSE /\ Goes(t, Ended("none"))
            /\ buf' = SavingOff(buf)
    /\ UNCHANGED <<disk, tab, closing, epoch, style, io, held, event, conflict,
                   ledger, moves, shown>>

\* Mutant: the precondition is not looked at.
NativeCheckNothing(t) ==
    /\ tx[t].phase = "issued"
    /\ Goes(t, [tx[t] EXCEPT !.phase = "checked"])
    /\ UNCHANGED <<disk, buf, tab, closing, epoch, style, io, held, event,
                   conflict, ledger, moves, shown>>

\* write_workspace_bytes: the hash precondition, if there is one
NativeCheck(t) ==
    /\ tx[t].phase = "issued"
    /\ \/ /\ tx[t].hash \in {disk, None}
          /\ Goes(t, [tx[t] EXCEPT !.phase = "checked"])
          /\ Quietly
       \/ /\ tx[t].hash \notin {disk, None}
          /\ Goes(t, [tx[t] EXCEPT !.phase = "answered", !.answer = "mismatch"])
          /\ Quietly
       \/ \* the target cannot be read or resolved
          /\ Goes(t, [tx[t] EXCEPT !.phase = "answered", !.answer = "none"])
          /\ Move
    /\ UNCHANGED <<disk, buf, tab, closing, epoch, style, io, held, event,
                   conflict, ledger, shown>>

\* write_workspace_bytes: the temporary file takes the place of the target,
\* or fails to, surely or perhaps.
NativeReplace(t) ==
    /\ tx[t].phase = "checked"
    /\ \/ /\ disk' = tx[t].text
          /\ event' = TRUE
          /\ shown' = shown \cup {tx[t].text}
          /\ Goes(t, [tx[t] EXCEPT !.phase = "replaced", !.wrote = TRUE])
          /\ Quietly
       \/ /\ \E a \in {"none", "unknown"} :
                Goes(t, [tx[t] EXCEPT !.phase = "answered", !.answer = a])
          /\ Move
          /\ UNCHANGED <<disk, event, shown>>
    /\ UNCHANGED <<buf, tab, closing, epoch, style, io, held, conflict, ledger>>

\* Mutant: an answer that cannot be read is taken for a write that failed.
NativeRereadDenies(t) ==
    /\ tx[t].phase = "replaced"
    /\ Goes(t, [tx[t] EXCEPT !.phase = "answered", !.answer = "none"])
    /\ UNCHANGED <<disk, buf, tab, closing, epoch, style, io, held, event,
                   conflict, ledger, moves, shown>>

\* workspace_write_file_encoded reads the file again for its answer.
NativeReread(t) ==
    /\ tx[t].phase = "replaced"
    /\ \/ /\ Goes(t, [tx[t] EXCEPT !.phase = "answered", !.answer = "ok",
                                  !.file = disk])
          /\ Quietly
       \/ /\ Goes(t, [tx[t] EXCEPT !.phase = "answered", !.answer = "unknown"])
          /\ Move
    /\ UNCHANGED <<disk, buf, tab, closing, epoch, style, io, held, event,
                   conflict, ledger, shown>>

\* The bytes are on disk: either the owner is gone and the recovery center
\* gets a row, or the live buffer is read and the watchers are told.
Acknowledged(t, read) ==
    IF Active(t) /\ buf.there
    THEN /\ Goes(t, [tx[t] EXCEPT !.phase = "watch", !.file = read,
                                  !.live = buf.text, !.liveRev = buf.rev])
         /\ UNCHANGED ledger
    ELSE /\ Goes(t, Ended("committed"))
         /\ ledger' = [ledger EXCEPT ![t] = "confirmed"]

WriteAnswered(t) ==
    /\ tx[t].phase = "answered"
    /\ CASE tx[t].answer = "ok" ->
              Acknowledged(t, tx[t].file) /\ UNCHANGED buf
         [] tx[t].answer \in {"mismatch", "none"} ->
              /\ Goes(t, Ended("none"))
              /\ buf' = MarkFailed(buf)
              /\ UNCHANGED ledger
         [] tx[t].answer = "unknown" ->
              /\ Goes(t, [tx[t] EXCEPT !.phase = "readback"])
              /\ buf' = MarkFailed(buf)
              /\ UNCHANGED ledger
    /\ UNCHANGED <<disk, tab, closing, epoch, style, io, held, event, conflict,
                   moves, shown>>

\* readBackDiskSnapshot and classifyUnknownDiskEffect; the read may fail too.
ReadBack(t) ==
    /\ tx[t].phase = "readback"
    /\ \/ /\ disk = tx[t].text
          /\ Acknowledged(t, disk)
          /\ shown' = shown \cup {disk}
          /\ Quietly
       \/ /\ disk # tx[t].text /\ disk = tx[t].hash
          /\ Goes(t, Ended("none"))
          /\ ledger' = [ledger EXCEPT ![t] = "none"]
          /\ Quietly /\ UNCHANGED shown
       \/ /\ disk \notin {tx[t].text, tx[t].hash}
          /\ Goes(t, Ended("unknown"))
          /\ ledger' = [ledger EXCEPT ![t] = "foreign"]
          /\ Quietly /\ UNCHANGED shown
       \/ /\ Goes(t, Ended("unknown"))
          /\ ledger' = [ledger EXCEPT ![t] = "pending"]
          /\ Move /\ UNCHANGED shown
    /\ UNCHANGED <<disk, buf, tab, closing, epoch, style, io, held, event,
                   conflict>>

\* The watchers have been told: merge, unless the owner is gone by now.
WatchersTold(t) ==
    /\ tx[t].phase = "watch"
    /\ Goes(t, Ended("committed"))
    /\ IF Active(t)
       THEN /\ buf' = IF buf.there THEN WrittenBack(buf, t) ELSE buf
            /\ ledger' = [ledger EXCEPT ![t] = "none"]
       ELSE /\ ledger' = [ledger EXCEPT ![t] = "confirmed"]
            /\ UNCHANGED buf
    /\ UNCHANGED <<disk, tab, closing, epoch, style, io, held, event, conflict,
                   moves, shown>>

\* The user settles a row in the recovery center.
ResolveRow(t) ==
    /\ ledger[t] # "none" /\ Move
    /\ ledger' = [ledger EXCEPT ![t] = "none"]
    /\ UNCHANGED <<disk, buf, tab, closing, epoch, style, io, held, event,
                   conflict, tx, shown>>

-----------------------------------------------------------------------------
(* Opening, reloading, closing.                                             *)

\* A read command reaches the file.
NativeRead(r) ==
    /\ io[r] = "asked"
    /\ io' = [io EXCEPT ![r] = disk]
    /\ UNCHANGED <<disk, buf, tab, closing, epoch, style, held, event, conflict,
                   tx, ledger, moves, shown>>

\* openFile once no cleanup of the key is pending
ReadUnlessOpen(o) ==
    IF Editable
    THEN io' = [io EXCEPT ![o] = "idle"] /\ UNCHANGED buf
    ELSE /\ io' = [io EXCEPT ![o] = "asked"]
         /\ buf' = IF buf.there THEN buf ELSE Loading

\* openFile: the tab is there at once, the read waits for a pending cleanup.
OpenFile(o) ==
    /\ io[o] = "idle"
    /\ Move
    /\ tab' = TRUE
    /\ IF closing
       THEN io' = [io EXCEPT ![o] = "waiting"] /\ UNCHANGED buf
       ELSE ReadUnlessOpen(o)
    /\ UNCHANGED <<disk, closing, epoch, style, held, event, conflict, tx,
                   ledger, shown>>

OpenAfterCleanup(o) ==
    /\ io[o] = "waiting" /\ ~closing
    /\ ReadUnlessOpen(o)
    /\ UNCHANGED <<disk, tab, closing, epoch, style, held, event, conflict, tx,
                   ledger, moves, shown>>

\* The file has been read: whatever the key holds is replaced.
OpenDone(o) ==
    /\ io[o] \in Text
    /\ buf' = Loaded(io[o])
    /\ io' = [io EXCEPT ![o] = "idle"]
    /\ shown' = shown \cup {io[o]}
    /\ UNCHANGED <<disk, tab, closing, epoch, style, held, event, conflict, tx,
                   ledger, moves>>

\* The read fails: what the key holds, if only the empty buffer that was
\* loading, is shown with the error, ready to be edited, and without a hash.
OpenFailed(o) ==
    /\ io[o] = "asked" /\ Move
    /\ buf' = [IF buf.there THEN buf ELSE Loading EXCEPT
                 !.loading = FALSE, !.saving = FALSE]
    /\ shown' = shown \cup {buf'.text}
    /\ io' = [io EXCEPT ![o] = "idle"]
    /\ UNCHANGED <<disk, tab, closing, epoch, style, held, event, conflict, tx,
                   ledger>>

\* reloadFile; a dirty buffer is reloaded when the user confirms.
Reload ==
    /\ tab /\ buf.there /\ io["reload"] = "idle"
    /\ Move
    /\ buf' = [buf EXCEPT !.loading = TRUE]
    /\ held' = [held EXCEPT !["reload"] = buf]
    /\ io' = [io EXCEPT !["reload"] = "asked"]
    /\ UNCHANGED <<disk, tab, closing, epoch, style, event, conflict, tx,
                   ledger, shown>>

ReloadDone ==
    /\ io["reload"] \in Text
    /\ buf' = Reloaded(buf, io["reload"])
    /\ shown' = IF buf.there THEN shown \cup {io["reload"]} ELSE shown
    /\ io' = [io EXCEPT !["reload"] = "idle"]
    /\ held' = [held EXCEPT !["reload"] = NoBuffer]
    /\ UNCHANGED <<disk, tab, closing, epoch, style, event, conflict, tx,
                   ledger, moves>>

ReloadFailed ==
    /\ io["reload"] = "asked" /\ Move
    /\ buf' = [IF buf.there THEN buf ELSE held["reload"] EXCEPT
                 !.loading = FALSE, !.saving = FALSE]
    /\ shown' = shown \cup {buf'.text}
    /\ io' = [io EXCEPT !["reload"] = "idle"]
    /\ held' = [held EXCEPT !["reload"] = NoBuffer]
    /\ UNCHANGED <<disk, tab, closing, epoch, style, event, conflict, tx,
                   ledger>>

\* closeFile: the tab goes first; a cleanup already running is shared.
CloseTab ==
    /\ tab /\ Move
    /\ tab' = FALSE /\ closing' = TRUE
    /\ UNCHANGED <<disk, buf, epoch, style, io, held, event, conflict, tx,
                   ledger, shown>>

\* The stages after didClose.  A tab reopened meanwhile keeps its buffer.
CleanupDone ==
    /\ closing
    /\ closing' = FALSE
    /\ IF tab
       THEN UNCHANGED <<epoch, buf>>
       ELSE /\ epoch' = epoch + 1
            /\ buf' = NoBuffer
    /\ UNCHANGED <<disk, tab, style, io, held, event, conflict, tx, ledger,
                   moves, shown>>

\* didClose fails: the pipeline stops before the buffer stage.
CleanupFailed ==
    /\ closing /\ Move
    /\ closing' = FALSE
    /\ UNCHANGED <<disk, buf, tab, epoch, style, io, held, event, conflict, tx,
                   ledger, shown>>

-----------------------------------------------------------------------------
(* Changes by other programs.                                               *)

ExternalWrite(x) ==
    /\ x # disk /\ Move
    /\ ExternalDuringWrite \/ \A t \in Tx : tx[t].phase \notin {"checked", "replaced"}
    /\ disk' = x
    /\ event' = TRUE
    /\ UNCHANGED <<buf, tab, closing, epoch, style, io, held, conflict, tx,
                   ledger, shown>>

\* handleExternalFileChange, once the settle timer has fired
ExternalChange ==
    /\ event /\ io["external"] = "idle"
    /\ event' = FALSE
    /\ IF buf.there /\ ~buf.saving
       THEN /\ io' = [io EXCEPT !["external"] = "asked"]
            /\ held' = [held EXCEPT !["external"] = buf]
       ELSE UNCHANGED <<io, held>>
    /\ UNCHANGED <<disk, buf, tab, closing, epoch, style, conflict, tx, ledger,
                   moves, shown>>

\* handleExternalFileChange with the content it read
ExternalRead ==
    LET x == io["external"]
        latest == IF buf.there THEN buf ELSE held["external"] IN
    /\ x \in Text
    /\ io' = [io EXCEPT !["external"] = "idle"]
    /\ held' = [held EXCEPT !["external"] = NoBuffer]
    /\ \/ /\ x = latest.text
          /\ buf' = [latest EXCEPT !.saved = x, !.hash = x, !.dirty = FALSE]
          /\ shown' = shown \cup {x}
          /\ UNCHANGED conflict
       \/ /\ x # latest.text /\ x = latest.saved
          /\ buf' = [latest EXCEPT !.hash = x]
          /\ UNCHANGED <<shown, conflict>>
       \/ /\ x \notin {latest.text, latest.saved} /\ ~latest.dirty
          /\ buf' = Reloaded(buf, x)
          /\ shown' = IF buf.there THEN shown \cup {x} ELSE shown
          /\ UNCHANGED conflict
       \/ /\ x \notin {latest.text, latest.saved} /\ latest.dirty
          /\ conflict' = IF conflict = None THEN x ELSE conflict
          /\ shown' = shown \cup {conflict'}
          /\ UNCHANGED buf
    /\ UNCHANGED <<disk, tab, closing, epoch, style, event, tx, ledger, moves>>

ExternalReadFailed ==
    /\ io["external"] = "asked" /\ Move
    /\ io' = [io EXCEPT !["external"] = "idle"]
    /\ held' = [held EXCEPT !["external"] = NoBuffer]
    /\ UNCHANGED <<disk, buf, tab, closing, epoch, style, event, conflict, tx,
                   ledger, shown>>

\* Keep local, or a merge into the text m: the dialog's content is the base.
ResolveConflict(m) ==
    /\ conflict # None
    /\ buf' = IF buf.there
              THEN [buf EXCEPT !.text = m, !.saved = conflict, !.hash = conflict,
                               !.dirty = (m # conflict)]
              ELSE buf
    /\ conflict' = None
    /\ UNCHANGED <<disk, tab, closing, epoch, style, io, held, event, tx, ledger,
                   moves, shown>>

KeepLocal == ResolveConflict(buf.text)

Merge(x) == buf.there /\ ResolveConflict(x)

LoadDisk ==
    /\ conflict # None
    /\ buf' = Reloaded(buf, conflict)
    /\ conflict' = None
    /\ UNCHANGED <<disk, tab, closing, epoch, style, io, held, event, tx, ledger,
                   moves, shown>>

DismissConflict ==
    /\ conflict # None
    /\ conflict' = None
    /\ UNCHANGED <<disk, buf, tab, closing, epoch, style, io, held, event, tx,
                   ledger, moves, shown>>

-----------------------------------------------------------------------------
SaveStep(t) ==
    \/ PrepareDone(t) \/ HistoryDone(t)
    \/ NativeCheck(t) \/ NativeReplace(t) \/ NativeReread(t)
    \/ WriteAnswered(t) \/ ReadBack(t) \/ WatchersTold(t)

Next ==
    \/ \E x \in Text : Type(x) \/ ExternalWrite(x) \/ Merge(x)
    \/ \E t \in Tx : StartSave(t) \/ SaveStep(t) \/ ResolveRow(t)
    \/ \E t \in Tx, x \in Text : EditAndSave(t, x)
    \/ \E r \in Reader : NativeRead(r)
    \/ \E o \in Opener : OpenFile(o) \/ OpenAfterCleanup(o) \/ OpenDone(o)
                         \/ OpenFailed(o)
    \/ StyleChanged \/ Reload \/ ReloadDone \/ ReloadFailed
    \/ CloseTab \/ CleanupDone \/ CleanupFailed
    \/ ExternalChange \/ ExternalRead \/ ExternalReadFailed
    \/ KeepLocal \/ LoadDisk \/ DismissConflict

Spec == Init /\ [][Next]_vars

-----------------------------------------------------------------------------
(* Properties.                                                              *)

Ends(t, effect) ==
    tx[t].phase # "done" /\ tx'[t].phase = "done" /\ tx'[t].effect = effect

\* What a save reports about the disk is so: "none" after nothing was written
\* or the old content was read back, "committed" only for bytes that the
\* native writer put there or that were found there.
ReportIsTrue ==
    [][\A t \in Tx :
         /\ Ends(t, "none") =>
              \/ ~tx[t].wrote
              \/ tx[t].phase = "readback" /\ disk = tx[t].hash
         /\ Ends(t, "committed") =>
              tx[t].wrote \/ tx[t].text \in {disk, tx[t].file}]_vars

\* A save that carries a hash replaces only content the user was shown, in an
\* editor or by the conflict dialog, whatever was opened, reloaded, announced
\* or resolved on the way to it.
OverwriteIsSeen ==
    [][\A t \in Tx :
         ~tx[t].wrote /\ tx'[t].wrote /\ tx[t].hash # None => disk \in shown]_vars

\* A save begun before the buffer was closed does not touch the content of
\* the buffer that was opened since.
ClosedSaveSparesContent ==
    [][\A t \in Tx :
         /\ tx[t].phase \notin {"idle", "prepare"} /\ tx[t].epoch # epoch
         /\ tx'[t] # tx[t]
         => LET content(b) == <<b.text, b.saved, b.hash, b.rev, b.there>> IN
            content(buf') = content(buf)]_vars

\* A buffer is marked as being saved only while a save of it is on its way to
\* or back from the writer.  saveFile refuses a marked buffer and external
\* changes of it are ignored, so a mark nobody takes back lasts forever.
SavingIsOwned ==
    buf.saving => \E t \in Tx : tx[t].phase \notin {"idle", "prepare", "done"}

\* "must not [...] erase newer typing": the end of a save leaves the text of
\* the open buffer alone.
WritebackKeepsText ==
    [][\A t \in Tx :
         /\ tx[t].phase = "watch" /\ tx'[t].phase = "done"
         /\ buf.there /\ buf'.there
         => buf'.text = buf.text]_vars
=============================================================================
