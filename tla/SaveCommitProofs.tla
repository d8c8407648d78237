--------------------------- MODULE SaveCommitProofs ---------------------------
(***************************************************************************)
(* Proofs about SaveCommit, for any texts, any number of saves and of      *)
(* reads, and any number of things that users and programs do: the types,  *)
(* that a buffer is marked as being saved only while a save of it is       *)
(* under way, that a save reports the truth about the disk, that the save  *)
(* of a closed buffer spares its successor, and that no save replaces what *)
(* nobody was shown.                                                       *)
(***************************************************************************)
EXTENDS SaveCommit, TLAPS

-----------------------------------------------------------------------------
(* Buffers.                                                                 *)

(* A closed buffer is nothing at all.                                       *)
Sound(b) == b \in Buffer /\ (b.there \/ b = NoBuffer)

Content(b) == <<b.text, b.saved, b.hash, b.rev, b.there>>

LEMMA NoBufferSound == Sound(NoBuffer) /\ ~NoBuffer.saving /\ ~NoBuffer.there
BY TextAssumption DEF TextAssumption, Sound, NoBuffer, Buffer

LEMMA LoadedSound ==
    ASSUME NEW x \in Text
    PROVE  /\ Sound(Loaded(x)) /\ ~Loaded(x).saving /\ ~Loaded(x).loading
           /\ Loaded(x).there
           /\ Loaded(x).text = x /\ Loaded(x).saved = x /\ Loaded(x).hash = x
BY TextAssumption DEF TextAssumption, Loaded, Sound, NoBuffer, Buffer

LEMMA LoadingSound ==
    /\ Sound(Loading) /\ ~Loading.saving /\ Loading.loading /\ Loading.there
    /\ Loading.text = Loading.saved /\ Loading.hash = None
BY TextAssumption DEF TextAssumption, Loading, Sound, NoBuffer, Buffer

LEMMA EditedSound ==
    ASSUME NEW b, Sound(b), b.there, NEW x \in Text
    PROVE  LET c == Edited(b, x)
           IN  /\ Sound(c) /\ c.there /\ c.saving = b.saving /\ c.loading = b.loading
               /\ c.text = x /\ c.saved = b.saved /\ c.hash = b.hash
<1>1. (x # b.saved) \in BOOLEAN /\ b.rev + 1 \in Nat
  BY DEF Sound, Buffer
<1> DEFINE d == (x # b.saved)
           n == b.rev + 1
<1>2. Edited(b, x) = [b EXCEPT !.text = x, !.dirty = d, !.rev = n]
  BY DEF Edited
<1> HIDE DEF d, n
<1>3. d \in BOOLEAN /\ n \in Nat
  BY <1>1 DEF d, n
<1>4. LET c == [b EXCEPT !.text = x, !.dirty = d, !.rev = n]
      IN  /\ Sound(c) /\ c.there /\ c.saving = b.saving /\ c.loading = b.loading
          /\ c.text = x /\ c.saved = b.saved /\ c.hash = b.hash
  BY <1>3 DEF Sound, Buffer
<1> QED BY <1>2, <1>4

LEMMA MarkSound ==
    ASSUME NEW b, Sound(b), b.there
    PROVE  LET c == [b EXCEPT !.saving = TRUE]
           IN  /\ Sound(c) /\ c.there /\ c.loading = b.loading
               /\ Content(c) = Content(b)
BY DEF Sound, Buffer, Content

(* What the end of a save does to the mark.                                 *)
LEMMA UnmarkSound ==
    ASSUME NEW b, Sound(b), NEW c \in {SavingOff(b), MarkFailed(b)}
    PROVE  /\ Sound(c) /\ ~c.saving /\ c.loading = b.loading
           /\ Content(c) = Content(b)
<1>1. CASE b.there
  BY <1>1 DEF SavingOff, MarkFailed, Sound, Buffer, Content
<1>2. CASE ~b.there
  <2>1. c = b /\ b = NoBuffer
    BY <1>2 DEF SavingOff, MarkFailed, Sound
  <2> QED BY <2>1, NoBufferSound
<1> QED BY <1>1, <1>2

LEMMA ReloadedSound ==
    ASSUME NEW b, Sound(b), NEW x \in Text
    PROVE  LET c == Reloaded(b, x)
           IN  /\ Sound(c) /\ ~c.saving /\ c.there = b.there
               /\ b.there => c.text = x /\ c.saved = x /\ c.hash = x /\ ~c.loading
               /\ ~b.there => c = b
<1>1. CASE b.there
  <2> DEFINE n == b.rev + 1
  <2>1. n \in Nat /\ Reloaded(b, x) = [Loaded(x) EXCEPT !.rev = n]
    BY <1>1 DEF Reloaded, Sound, Buffer
  <2> HIDE DEF n
  <2>2. LET c == [Loaded(x) EXCEPT !.rev = n]
        IN  /\ Sound(c) /\ ~c.saving /\ c.there /\ c.text = x /\ c.saved = x
            /\ c.hash = x /\ ~c.loading
    BY <2>1, LoadedSound DEF Sound, Buffer
  <2> QED BY <1>1, <2>1, <2>2
<1>2. CASE ~b.there
  <2>1. Reloaded(b, x) = b /\ b = NoBuffer
    BY <1>2 DEF Reloaded, Sound
  <2> QED BY <1>2, <2>1, NoBufferSound
<1> QED BY <1>1, <1>2

(* A read that begins or fails changes what is shown of the buffer, not it. *)
LEMMA ReadSound ==
    ASSUME NEW b, Sound(b)
    PROVE  /\ LET c == [b EXCEPT !.loading = FALSE, !.saving = FALSE]
              IN  /\ Sound(c) /\ ~c.saving /\ Content(c) = Content(b)
                  /\ ~c.loading
           /\ b.there => LET c == [b EXCEPT !.loading = TRUE]
                         IN  /\ Sound(c) /\ c.saving = b.saving
                             /\ Content(c) = Content(b) /\ c.loading
<1>1. CASE b.there
  BY <1>1 DEF Sound, Buffer, Content
<1>2. CASE ~b.there
  <2>1. b = NoBuffer
    BY <1>2 DEF Sound
  <2>2. [b EXCEPT !.loading = FALSE, !.saving = FALSE] = b
    <3>1. b \in Buffer /\ b.loading = FALSE /\ b.saving = FALSE
      BY <2>1 DEF Sound, NoBuffer
    <3> HIDE <2>1
    <3> QED BY <3>1 DEF Buffer
  <2> QED BY <1>2, <2>1, <2>2, NoBufferSound DEF NoBuffer
<1> QED BY <1>1, <1>2

-----------------------------------------------------------------------------
(* Transactions.                                                            *)

(* What a transaction remembers of the native writer is so.                 *)
Recorded(r) ==
    /\ r.phase \in {"prepare", "history", "issued", "checked"} => ~r.wrote
    /\ r.phase = "replaced" => r.wrote
    /\ r.phase = "answered" =>
          /\ r.answer \in {"ok", "mismatch", "none", "unknown"}
          /\ r.answer \in {"mismatch", "none"} => ~r.wrote
          /\ r.answer = "ok" => r.wrote /\ r.file \in Text
    /\ r.phase = "watch" =>
          /\ r.live \in Text /\ r.file \in Text
          /\ r.wrote \/ r.file = r.text

Good(r) == r \in Transaction /\ Recorded(r)

(* A save that will take the mark of its buffer back.                       *)
Owns(r, e) ==
    /\ r.phase \in {"history", "issued", "checked", "replaced", "answered", "watch"}
    /\ r.epoch = e

LEMMA IdleGood == Good(Idle)
BY TextAssumption DEF TextAssumption, Good, Recorded, Idle, Transaction, Phase

LEMMA EndedGood ==
    ASSUME NEW effect \in Effect
    PROVE  /\ Good(Ended(effect))
           /\ LET r == Ended(effect)
              IN  r.phase = "done" /\ r.effect = effect /\ ~r.wrote /\ r.hash = None
BY TextAssumption
   DEF TextAssumption, Ended, Good, Recorded, Idle, Transaction, Phase, Effect

LEMMA SnapshotGood ==
    ASSUME NEW b, Sound(b), NEW x \in Text, style \in Nat
    PROVE  LET r == [Snapshot(b, x) EXCEPT !.phase = "prepare"]
           IN  Good(r) /\ r.phase = "prepare" /\ r.hash = b.hash /\ ~r.wrote
BY TextAssumption
   DEF TextAssumption, Sound, Buffer, Snapshot, Good, Recorded, Idle, Transaction,
       Phase, Effect

LEMMA CommitGood ==
    ASSUME NEW b, Sound(b), NEW x \in Text, style \in Nat, epoch \in Nat
    PROVE  LET r == [Snapshot(b, x) EXCEPT !.phase = "history", !.epoch = epoch]
           IN  /\ Good(r) /\ r.phase = "history" /\ r.hash = b.hash /\ Owns(r, epoch)
               /\ ~r.wrote
BY TextAssumption
   DEF TextAssumption, Sound, Buffer, Snapshot, Good, Recorded, Idle, Transaction,
       Phase, Effect, Owns

(* The steps of one transaction, by its phase.                              *)
Checks(r) == [r EXCEPT !.phase = "checked"]
Replaces(r) == [r EXCEPT !.phase = "replaced", !.wrote = TRUE]
Answers(r, a) == [r EXCEPT !.phase = "answered", !.answer = a]
Reports(r, d) == [r EXCEPT !.phase = "answered", !.answer = "ok", !.file = d]
Watches(r, d, x, n) ==
    [r EXCEPT !.phase = "watch", !.file = d, !.live = x, !.liveRev = n]

LEMMA PreparedGood ==
    ASSUME NEW r, Good(r), r.phase = "prepare", NEW x \in Text, epoch \in Nat
    PROVE  LET q == [[r EXCEPT !.text = x] EXCEPT !.phase = "history", !.epoch = epoch]
           IN  /\ Good(q) /\ q.phase = "history" /\ Owns(q, epoch) /\ q.hash = r.hash
               /\ ~q.wrote
BY DEF Good, Recorded, Transaction, Phase, Owns

LEMMA IssuedGood ==
    ASSUME NEW r, Good(r), r.phase = "history", NEW e
    PROVE  LET q == [r EXCEPT !.phase = "issued"]
           IN  /\ Good(q) /\ q.phase = "issued" /\ Owns(q, e) = Owns(r, e)
               /\ q.hash = r.hash /\ q.epoch = r.epoch /\ ~q.wrote
BY DEF Good, Recorded, Transaction, Phase, Owns

LEMMA CheckedGood ==
    ASSUME NEW r, Good(r), r.phase = "issued", NEW e
    PROVE  LET q == Checks(r)
           IN  /\ Good(q) /\ q.phase = "checked" /\ Owns(q, e) = Owns(r, e)
               /\ q.hash = r.hash /\ ~q.wrote
BY DEF Checks, Good, Recorded, Transaction, Phase, Owns

LEMMA ReplacedGood ==
    ASSUME NEW r, Good(r), r.phase = "checked", NEW e
    PROVE  LET q == Replaces(r)
           IN  /\ Good(q) /\ q.phase = "replaced" /\ Owns(q, e) = Owns(r, e)
               /\ q.hash = r.hash /\ q.wrote /\ q.text = r.text
BY DEF Replaces, Good, Recorded, Transaction, Phase, Owns

LEMMA ReportedGood ==
    ASSUME NEW r, Good(r), r.phase = "replaced", NEW e, NEW d \in Text
    PROVE  LET q == Reports(r, d)
           IN  /\ Good(q) /\ q.phase = "answered" /\ Owns(q, e) = Owns(r, e)
               /\ q.hash = r.hash /\ q.wrote = r.wrote /\ q.text = r.text
               /\ q.file = d
BY DEF Reports, Good, Recorded, Transaction, Phase, Owns

(* A refusal, or an answer that nobody can read.                            *)
LEMMA AnsweredGood ==
    ASSUME NEW r, Good(r), r.phase \in {"issued", "checked", "replaced"}, NEW e,
           NEW a \in {"mismatch", "none", "unknown"},
           r.phase = "replaced" => a = "unknown"
    PROVE  LET q == Answers(r, a)
           IN  /\ Good(q) /\ q.phase = "answered" /\ Owns(q, e) = Owns(r, e)
               /\ q.hash = r.hash /\ q.wrote = r.wrote /\ q.text = r.text
               /\ q.answer = a
BY DEF Answers, Good, Recorded, Transaction, Phase, Owns

LEMMA UnknownGood ==
    ASSUME NEW r, Good(r), r.phase = "answered"
    PROVE  LET q == [r EXCEPT !.phase = "readback"]
           IN  /\ Good(q) /\ q.phase = "readback" /\ q.hash = r.hash /\ q.wrote = r.wrote
               /\ q.text = r.text
BY DEF Good, Recorded, Transaction, Phase

LEMMA WatchGood ==
    ASSUME NEW r, Good(r), NEW d \in Text, r.wrote \/ d = r.text,
           NEW x \in Text, NEW n \in Nat
    PROVE  LET q == Watches(r, d, x, n)
           IN  /\ Good(q) /\ q.phase = "watch" /\ q.epoch = r.epoch
               /\ q.hash = r.hash /\ q.text = r.text /\ q.wrote = r.wrote
               /\ q.file = d
BY DEF Watches, Good, Recorded, Transaction, Phase

-----------------------------------------------------------------------------
(* The inductive invariant.                                                 *)

(* A buffer held while the file is read for an announced change is open,    *)
(* and was not being saved.                                                 *)
HeldSound ==
    /\ Sound(held["reload"]) /\ Sound(held["external"])
    /\ io["external"] # "idle" =>
          held["external"].there /\ ~held["external"].saving

(* The mark of the buffer will be taken back by a save of this very owner.  *)
MarkIsOwned == buf.saving => \E t \in Tx : Owns(tx[t], epoch)

OwnInv ==
    /\ TypeOK /\ Sound(buf) /\ HeldSound /\ MarkIsOwned
    /\ \A t \in Tx : Good(tx[t])

(* What a step may report, and what it may do to the buffer.                *)
ReportStep ==
    \A t \in Tx :
         /\ Ends(t, "none") =>
              \/ ~tx[t].wrote
              \/ tx[t].phase = "readback" /\ disk = tx[t].hash
         /\ Ends(t, "committed") =>
              tx[t].wrote \/ tx[t].text \in {disk, tx[t].file}

SpareStep ==
    \A t \in Tx :
         /\ tx[t].phase \notin {"idle", "prepare"} /\ tx[t].epoch # epoch
         /\ tx'[t] # tx[t]
         => LET content(b) == <<b.text, b.saved, b.hash, b.rev, b.there>> IN
            content(buf') = content(buf)

Holds == OwnInv' /\ ReportStep /\ SpareStep

(* No save moves: the mark stays owned if it was there before, or nobody's. *)
LEMMA SavesRest ==
    ASSUME OwnInv, tx' = tx, TypeOK', Sound(buf'), HeldSound',
           buf'.saving => buf.saving /\ epoch' = epoch
    PROVE  Holds
<1>1. MarkIsOwned'
  BY DEF OwnInv, MarkIsOwned
<1>2. ReportStep /\ SpareStep
  BY DEF ReportStep, SpareStep, Ends
<1> QED BY <1>1, <1>2 DEF OwnInv, Holds

(* Save t moves to the record r.                                            *)
LEMMA SaveMoves ==
    ASSUME OwnInv, NEW t \in Tx, NEW r, Good(r), Goes(t, r),
           UNCHANGED <<tab, closing, epoch, style, io, held, conflict>>,
           disk' \in Text, event' \in BOOLEAN, shown' \subseteq Text,
           moves' \in 0 .. MaxMoves,
           ledger' \in [Tx -> {"none", "pending", "foreign", "confirmed"}],
           Sound(buf'),
           buf'.saving => \/ Owns(r, epoch)
                          \/ buf.saving /\ ~Owns(tx[t], epoch),
           r.phase = "done" /\ tx[t].phase # "done" =>
              /\ r.effect = "none" => \/ ~tx[t].wrote
                                      \/ tx[t].phase = "readback" /\ disk = tx[t].hash
              /\ r.effect = "committed" =>
                    tx[t].wrote \/ tx[t].text \in {disk, tx[t].file},
           tx[t].phase \notin {"idle", "prepare"} /\ tx[t].epoch # epoch
              => Content(buf') = Content(buf)
    PROVE  Holds
<1>1. /\ tx' \in [Tx -> Transaction]
      /\ \A u \in Tx : tx'[u] = IF u = t THEN r ELSE tx[u]
  BY DEF OwnInv, TypeOK, Goes, Good
<1>2. TypeOK'
  BY <1>1 DEF OwnInv, TypeOK, Sound
<1>3. MarkIsOwned'
  BY <1>1 DEF OwnInv, MarkIsOwned
<1>4. \A u \in Tx : Good(tx'[u])
  BY <1>1 DEF OwnInv
<1>5. HeldSound'
  BY DEF OwnInv, HeldSound
<1>6. ReportStep
  BY <1>1 DEF ReportStep, Ends
<1>7. SpareStep
  BY <1>1 DEF SpareStep, Content
<1> QED BY <1>2, <1>3, <1>4, <1>5, <1>6, <1>7 DEF OwnInv, Holds

LEMMA Moves ==
    ASSUME TypeOK, Move \/ Quietly
    PROVE  moves' \in 0 .. MaxMoves
BY TextAssumption DEF TextAssumption, TypeOK, Move, Quietly

(* What is known of a save that moves.                                      *)
LEMMA Known ==
    ASSUME OwnInv, NEW t \in Tx
    PROVE  /\ TypeOK /\ Sound(buf) /\ Good(tx[t]) /\ tx[t] \in Transaction
           /\ epoch \in Nat /\ style \in Nat /\ disk \in Text /\ shown \subseteq Text
           /\ tx[t].text \in Text /\ tx[t].wrote \in BOOLEAN
           /\ event \in BOOLEAN /\ moves \in 0 .. MaxMoves
           /\ ledger \in [Tx -> {"none", "pending", "foreign", "confirmed"}]
BY DEF OwnInv, TypeOK, Good, Transaction

LEMMA StartSaveHolds ==
    ASSUME OwnInv, NEW t \in Tx, StartSave(t)
    PROVE  Holds
<1> DEFINE r == [Snapshot(buf, buf.text) EXCEPT !.phase = "prepare"]
<1>1. /\ UNCHANGED <<disk, buf, tab, closing, epoch, style, io, held, event,
                     conflict, ledger, shown>>
      /\ tx[t].phase = "idle" /\ Goes(t, r) /\ moves' \in 0 .. MaxMoves
  BY Known, Moves DEF StartSave, IsNext
<1>2. Good(r) /\ r.phase = "prepare"
  <2>1. buf.text \in Text
    BY DEF OwnInv, Sound, Buffer
  <2>2. Sound(buf) /\ style \in Nat
    BY Known
  <2> QED BY <2>1, <2>2, SnapshotGood
<1> HIDE DEF r
<1>3. ~Owns(tx[t], epoch)
  BY <1>1 DEF Owns
<1> QED BY <1>1, <1>2, <1>3, Known, SaveMoves

LEMMA EditAndSaveHolds ==
    ASSUME OwnInv, NEW t \in Tx, NEW x \in Text, EditAndSave(t, x)
    PROVE  Holds
<1> DEFINE b == Edited(buf, x)
           r == [Snapshot(b, x) EXCEPT !.phase = "history", !.epoch = epoch]
           c == [b EXCEPT !.saving = TRUE]
<1>1. /\ UNCHANGED <<disk, tab, closing, epoch, style, io, held, event,
                     conflict, ledger, shown>>
      /\ tx[t].phase = "idle" /\ Goes(t, r) /\ buf' = c /\ buf.there
      /\ moves' \in 0 .. MaxMoves
  BY Known, Moves DEF EditAndSave, IsNext, BeginCommit, Editable
<1>2. Sound(b) /\ b.there
  BY <1>1, Known, EditedSound
<1> HIDE DEF b
<1>3. Sound(c)
  BY <1>2, MarkSound
<1>4. Good(r) /\ r.phase = "history" /\ Owns(r, epoch)
  <2>1. style \in Nat /\ epoch \in Nat
    BY Known
  <2> QED BY <1>2, <2>1, CommitGood
<1> HIDE DEF r, c
<1> QED BY <1>1, <1>3, <1>4, Known, SaveMoves

LEMMA PrepareDoneHolds ==
    ASSUME OwnInv, NEW t \in Tx, PrepareDone(t)
    PROVE  Holds
<1>1. /\ UNCHANGED <<disk, tab, closing, epoch, style, io, held, event, conflict,
                     ledger, shown>>
      /\ tx[t].phase = "prepare" /\ ~Owns(tx[t], epoch) /\ moves' \in 0 .. MaxMoves
  BY Known, Moves DEF PrepareDone, Owns
<1>2. CASE /\ Unedited(t)
           /\ \E x \in {tx[t].text, Fmt[tx[t].text]} :
                BeginCommit(buf, t, [tx[t] EXCEPT !.text = x])
  <2>1. PICK x \in Text : BeginCommit(buf, t, [tx[t] EXCEPT !.text = x])
    BY <1>2, Known, TextAssumption DEF TextAssumption
  <2> DEFINE r == [[tx[t] EXCEPT !.text = x] EXCEPT !.phase = "history",
                                                    !.epoch = epoch]
             c == [buf EXCEPT !.saving = TRUE]
  <2>2. Goes(t, r) /\ buf' = c
    BY <2>1 DEF BeginCommit
  <2>3. Good(r) /\ r.phase = "history" /\ Owns(r, epoch)
    <3>1. Good(tx[t]) /\ epoch \in Nat
      BY Known
    <3> QED BY <1>1, <3>1, PreparedGood
  <2>4. Sound(c)
    BY <1>2, Known, MarkSound DEF Unedited
  <2> HIDE DEF r, c
  <2> QED BY <1>1, <2>2, <2>3, <2>4, Known, SaveMoves
<1>3. CASE Goes(t, Ended("none")) /\ UNCHANGED buf
  <2> DEFINE r == Ended("none")
  <2>1. Good(r) /\ r.phase = "done" /\ r.effect = "none" /\ Goes(t, r)
    BY <1>3, EndedGood DEF Effect
  <2>2. ~tx[t].wrote
    BY <1>1, Known DEF Good, Recorded
  <2> HIDE DEF r
  <2> QED BY <1>1, <1>3, <2>1, <2>2, Known, SaveMoves
<1> QED BY <1>2, <1>3 DEF PrepareDone

LEMMA HistoryDoneHolds ==
    ASSUME OwnInv, NEW t \in Tx, HistoryDone(t)
    PROVE  Holds
<1>1. /\ UNCHANGED <<disk, tab, closing, epoch, style, io, held, event,
                     conflict, ledger, moves, shown>>
      /\ tx[t].phase = "history"
  BY DEF HistoryDone
<1>2. CASE BoundaryHolds(t)
  <2> DEFINE r == [tx[t] EXCEPT !.phase = "issued"]
  <2>1. Goes(t, r) /\ buf' = buf
    BY <1>2 DEF HistoryDone
  <2>2. Good(r) /\ r.phase = "issued" /\ Owns(r, epoch) = Owns(tx[t], epoch)
    BY <1>1, Known, IssuedGood
  <2> HIDE DEF r
  <2> QED BY <1>1, <2>1, <2>2, Known, SaveMoves
<1>3. CASE ~BoundaryHolds(t)
  <2> DEFINE r == Ended("none")
             c == SavingOff(buf)
  <2>1. Goes(t, r) /\ buf' = c
    BY <1>3 DEF HistoryDone
  <2>2. Good(r) /\ r.phase = "done" /\ r.effect = "none"
    BY EndedGood DEF Effect
  <2>3. Sound(c) /\ ~c.saving /\ Content(c) = Content(buf)
    BY Known, UnmarkSound
  <2>4. ~tx[t].wrote
    BY <1>1, Known DEF Good, Recorded
  <2> HIDE DEF r, c
  <2> QED BY <1>1, <2>1, <2>2, <2>3, <2>4, Known, SaveMoves
<1> QED BY <1>2, <1>3

LEMMA NativeCheckHolds ==
    ASSUME OwnInv, NEW t \in Tx, NativeCheck(t)
    PROVE  Holds
<1>1. /\ UNCHANGED <<disk, buf, tab, closing, epoch, style, io, held, event,
                     conflict, ledger, shown>>
      /\ tx[t].phase = "issued" /\ moves' \in 0 .. MaxMoves
  BY Known, Moves DEF NativeCheck
<1>2. Good(tx[t]) /\ disk \in Text
  BY Known
<1>3. Goes(t, Checks(tx[t])) \/ \E a \in {"mismatch", "none"} : Goes(t, Answers(tx[t], a))
  BY DEF NativeCheck, Checks, Answers
<1>4. /\ Good(Checks(tx[t])) /\ Checks(tx[t]).phase = "checked"
      /\ Owns(Checks(tx[t]), epoch) = Owns(tx[t], epoch)
  BY <1>1, <1>2, CheckedGood
<1>5. ASSUME NEW a \in {"mismatch", "none"}
      PROVE  LET r == Answers(tx[t], a)
             IN  Good(r) /\ r.phase = "answered" /\ Owns(r, epoch) = Owns(tx[t], epoch)
  BY <1>1, <1>2, AnsweredGood
<1>6. PICK r : /\ Goes(t, r) /\ Good(r) /\ r.phase # "done"
               /\ Owns(r, epoch) = Owns(tx[t], epoch)
  BY <1>3, <1>4, <1>5
<1> QED BY <1>1, <1>6, Known, SaveMoves

LEMMA NativeReplaceHolds ==
    ASSUME OwnInv, NEW t \in Tx, NativeReplace(t)
    PROVE  Holds
<1>1. /\ UNCHANGED <<buf, tab, closing, epoch, style, io, held, conflict, ledger>>
      /\ tx[t].phase = "checked" /\ moves' \in 0 .. MaxMoves
      /\ disk' \in Text /\ event' \in BOOLEAN /\ shown' \subseteq Text
  BY Known, Moves DEF NativeReplace
<1>2. Good(tx[t]) /\ disk \in Text
  BY Known
<1>3. Goes(t, Replaces(tx[t])) \/ \E a \in {"none", "unknown"} : Goes(t, Answers(tx[t], a))
  BY DEF NativeReplace, Replaces, Answers
<1>4. /\ Good(Replaces(tx[t])) /\ Replaces(tx[t]).phase = "replaced"
      /\ Owns(Replaces(tx[t]), epoch) = Owns(tx[t], epoch)
  BY <1>1, <1>2, ReplacedGood
<1>5. ASSUME NEW a \in {"none", "unknown"}
      PROVE  LET r == Answers(tx[t], a)
             IN  Good(r) /\ r.phase = "answered" /\ Owns(r, epoch) = Owns(tx[t], epoch)
  BY <1>1, <1>2, AnsweredGood
<1>6. PICK r : /\ Goes(t, r) /\ Good(r) /\ r.phase # "done"
               /\ Owns(r, epoch) = Owns(tx[t], epoch)
  BY <1>3, <1>4, <1>5
<1> QED BY <1>1, <1>6, Known, SaveMoves

LEMMA NativeRereadHolds ==
    ASSUME OwnInv, NEW t \in Tx, NativeReread(t)
    PROVE  Holds
<1>1. /\ UNCHANGED <<disk, buf, tab, closing, epoch, style, io, held, event,
                     conflict, ledger, shown>>
      /\ tx[t].phase = "replaced" /\ moves' \in 0 .. MaxMoves
  BY Known, Moves DEF NativeReread
<1>2. Good(tx[t]) /\ disk \in Text
  BY Known
<1>3. Goes(t, Reports(tx[t], disk)) \/ \E a \in {"unknown"} : Goes(t, Answers(tx[t], a))
  BY DEF NativeReread, Reports, Answers
<1>4. /\ Good(Reports(tx[t], disk)) /\ Reports(tx[t], disk).phase = "answered"
      /\ Owns(Reports(tx[t], disk), epoch) = Owns(tx[t], epoch)
  BY <1>1, <1>2, ReportedGood
<1>5. ASSUME NEW a \in {"unknown"}
      PROVE  LET r == Answers(tx[t], a)
             IN  Good(r) /\ r.phase = "answered" /\ Owns(r, epoch) = Owns(tx[t], epoch)
  BY <1>1, <1>2, AnsweredGood
<1>6. PICK r : /\ Goes(t, r) /\ Good(r) /\ r.phase # "done"
               /\ Owns(r, epoch) = Owns(tx[t], epoch)
  BY <1>3, <1>4, <1>5
<1> QED BY <1>1, <1>6, Known, SaveMoves

(* The bytes d are on disk, found there or reported by the writer.          *)
LEMMA AcknowledgedHolds ==
    ASSUME OwnInv, NEW t \in Tx, NEW d \in Text, Acknowledged(t, d),
           tx[t].phase \in {"answered", "readback"},
           tx[t].wrote \/ (d = tx[t].text /\ d = disk),
           UNCHANGED <<disk, buf, tab, closing, epoch, style, io, held, event,
                       conflict>>,
           shown' \subseteq Text, moves' \in 0 .. MaxMoves
    PROVE  Holds
<1>1. Good(tx[t]) /\ Sound(buf)
  BY Known
<1>2. CASE Active(t) /\ buf.there
  <2> DEFINE r == Watches(tx[t], d, buf.text, buf.rev)
  <2>1. Goes(t, r) /\ ledger' = ledger
    BY <1>2 DEF Acknowledged, Watches
  <2>2. buf.text \in Text /\ buf.rev \in Nat
    BY <1>1 DEF Sound, Buffer
  <2>3. Good(r) /\ r.phase = "watch" /\ r.epoch = tx[t].epoch
    <3>1. tx[t].wrote \/ d = tx[t].text
      OBVIOUS
    <3> QED BY <1>1, <2>2, <3>1, WatchGood
  <2> HIDE DEF r
  <2>4. Owns(r, epoch)
    BY <1>2, <2>3 DEF Active, Owns
  <2> QED BY <2>1, <2>3, <2>4, Known, SaveMoves
<1>3. CASE ~(Active(t) /\ buf.there)
  <2> DEFINE r == Ended("committed")
  <2>1. Goes(t, r) /\ ledger' = [ledger EXCEPT ![t] = "confirmed"]
    BY <1>3 DEF Acknowledged
  <2>2. Good(r) /\ r.phase = "done" /\ r.effect = "committed"
    BY EndedGood DEF Effect
  <2> HIDE DEF r
  <2>3. buf.saving => ~Owns(tx[t], epoch)
    BY <1>1, <1>3, NoBufferSound DEF Sound, Active, Owns
  <2>4. ledger' \in [Tx -> {"none", "pending", "foreign", "confirmed"}]
    BY <2>1, Known
  <2> QED BY <2>1, <2>2, <2>3, <2>4, Known, SaveMoves
<1> QED BY <1>2, <1>3

LEMMA WriteAnsweredHolds ==
    ASSUME OwnInv, NEW t \in Tx, WriteAnswered(t)
    PROVE  Holds
<1>1. /\ UNCHANGED <<disk, tab, closing, epoch, style, io, held, event, conflict,
                     moves, shown>>
      /\ tx[t].phase = "answered"
  BY DEF WriteAnswered
<1>2. Good(tx[t]) /\ Sound(buf)
  BY Known
<1>3. tx[t].answer \in {"ok", "mismatch", "none", "unknown"}
  BY <1>1, <1>2 DEF Good, Recorded
<1> DEFINE c == MarkFailed(buf)
<1>4. Sound(c) /\ ~c.saving /\ Content(c) = Content(buf)
  BY <1>2, UnmarkSound
<1>5. CASE tx[t].answer = "ok"
  <2>1. Acknowledged(t, tx[t].file) /\ buf' = buf
    BY <1>5 DEF WriteAnswered
  <2>2. tx[t].wrote /\ tx[t].file \in Text
    BY <1>1, <1>2, <1>5 DEF Good, Recorded
  <2> QED BY <1>1, <2>1, <2>2, Known, AcknowledgedHolds
<1>6. CASE tx[t].answer \in {"mismatch", "none"}
  <2> DEFINE r == Ended("none")
  <2>1. Goes(t, r) /\ buf' = c /\ ledger' = ledger
    BY <1>6 DEF WriteAnswered
  <2>2. Good(r) /\ r.phase = "done" /\ r.effect = "none"
    BY EndedGood DEF Effect
  <2>3. ~tx[t].wrote
    BY <1>1, <1>2, <1>6 DEF Good, Recorded
  <2> HIDE DEF r, c
  <2> QED BY <1>1, <1>4, <2>1, <2>2, <2>3, Known, SaveMoves
<1>7. CASE tx[t].answer = "unknown"
  <2> DEFINE r == [tx[t] EXCEPT !.phase = "readback"]
  <2>1. Goes(t, r) /\ buf' = c /\ ledger' = ledger
    BY <1>7 DEF WriteAnswered
  <2>2. Good(r) /\ r.phase = "readback"
    BY <1>1, <1>2, UnknownGood
  <2> HIDE DEF r, c
  <2> QED BY <1>1, <1>4, <2>1, <2>2, Known, SaveMoves
<1> QED BY <1>3, <1>5, <1>6, <1>7

LEMMA ReadBackHolds ==
    ASSUME OwnInv, NEW t \in Tx, ReadBack(t)
    PROVE  Holds
<1>1. /\ UNCHANGED <<disk, buf, tab, closing, epoch, style, io, held, event,
                     conflict>>
      /\ tx[t].phase = "readback" /\ ~Owns(tx[t], epoch)
      /\ moves' \in 0 .. MaxMoves /\ shown' \subseteq Text
  BY Known, Moves DEF ReadBack, Owns
<1>2. CASE disk = tx[t].text /\ Acknowledged(t, disk)
  BY <1>1, <1>2, Known, AcknowledgedHolds
<1>3. CASE disk = tx[t].hash /\ Goes(t, Ended("none"))
           /\ ledger' = [ledger EXCEPT ![t] = "none"]
  <2> DEFINE r == Ended("none")
  <2>1. Good(r) /\ r.phase = "done" /\ r.effect = "none" /\ Goes(t, r)
    BY <1>3, EndedGood DEF Effect
  <2>2. ledger' \in [Tx -> {"none", "pending", "foreign", "confirmed"}]
    BY <1>3, Known
  <2> HIDE DEF r
  <2> QED BY <1>1, <1>3, <2>1, <2>2, Known, SaveMoves
<1>4. CASE Goes(t, Ended("unknown"))
           /\ \E l \in {"foreign", "pending"} : ledger' = [ledger EXCEPT ![t] = l]
  <2> DEFINE r == Ended("unknown")
  <2>1. Good(r) /\ r.phase = "done" /\ r.effect = "unknown" /\ Goes(t, r)
    BY <1>4, EndedGood DEF Effect
  <2>2. ledger' \in [Tx -> {"none", "pending", "foreign", "confirmed"}]
    BY <1>4, Known
  <2> HIDE DEF r
  <2> QED BY <1>1, <2>1, <2>2, Known, SaveMoves
<1> QED BY <1>2, <1>3, <1>4 DEF ReadBack

LEMMA WrittenBackSound ==
    ASSUME NEW b, Sound(b), b.there, NEW t \in Tx, Good(tx[t]), tx[t].phase = "watch"
    PROVE  Sound(WrittenBack(b, t)) /\ ~WrittenBack(b, t).saving
<1> DEFINE d == (tx[t].liveRev # tx[t].rev)
           n == IF b.rev > tx[t].liveRev THEN b.rev ELSE tx[t].liveRev
<1>1. /\ tx[t].live \in Text /\ tx[t].file \in Text /\ tx[t].text \in Text
      /\ d \in BOOLEAN /\ n \in Nat
  BY DEF Good, Recorded, Transaction, Sound, Buffer
<1>2. WrittenBack(b, t) =
        [b EXCEPT !.text = tx[t].live, !.saved = tx[t].file, !.hash = tx[t].text,
                  !.dirty = d, !.saving = FALSE, !.loading = FALSE, !.rev = n]
  BY DEF WrittenBack
<1> HIDE DEF d, n
<1> QED BY <1>1, <1>2 DEF Sound, Buffer

LEMMA WatchersToldHolds ==
    ASSUME OwnInv, NEW t \in Tx, WatchersTold(t)
    PROVE  Holds
<1> DEFINE r == Ended("committed")
<1>1. /\ UNCHANGED <<disk, tab, closing, epoch, style, io, held, event, conflict,
                     moves, shown>>
      /\ tx[t].phase = "watch" /\ Goes(t, r)
  BY DEF WatchersTold
<1>2. Good(tx[t]) /\ Sound(buf)
  BY Known
<1>3. Good(r) /\ r.phase = "done" /\ r.effect = "committed"
  BY EndedGood DEF Effect
<1>4. tx[t].wrote \/ tx[t].file = tx[t].text
  BY <1>1, <1>2 DEF Good, Recorded
<1>5. ledger' \in [Tx -> {"none", "pending", "foreign", "confirmed"}]
  BY Known DEF WatchersTold
<1> HIDE DEF r
<1>6. CASE Active(t)
  <2>1. Sound(buf') /\ ~buf'.saving
    <3>1. CASE buf.there
      BY <1>1, <1>2, <1>6, <3>1, WrittenBackSound DEF WatchersTold
    <3>2. CASE ~buf.there
      BY <1>2, <1>6, <3>2, NoBufferSound DEF WatchersTold, Sound
    <3> QED BY <3>1, <3>2
  <2>2. tx[t].epoch = epoch
    BY <1>6 DEF Active
  <2> QED BY <1>1, <1>3, <1>4, <1>5, <2>1, <2>2, Known, SaveMoves
<1>7. CASE ~Active(t)
  <2>1. buf' = buf /\ ~Owns(tx[t], epoch)
    BY <1>7 DEF WatchersTold, Active, Owns
  <2> QED BY <1>1, <1>2, <1>3, <1>4, <1>5, <2>1, Known, SaveMoves
<1> QED BY <1>6, <1>7

-----------------------------------------------------------------------------
(* Everything else leaves the saves alone.                                  *)

Read == {"idle", "waiting", "asked"} \cup Text

LEMMA Facts ==
    ASSUME OwnInv
    PROVE  /\ disk \in Text /\ Sound(buf) /\ buf \in Buffer /\ buf.text \in Text
           /\ tab \in BOOLEAN /\ closing \in BOOLEAN /\ event \in BOOLEAN
           /\ epoch \in Nat /\ style \in Nat /\ moves \in 0 .. MaxMoves
           /\ io \in [Reader -> Read] /\ conflict \in Text \cup {None}
           /\ held \in [{"reload", "external"} -> Buffer]
           /\ Sound(held["reload"]) /\ Sound(held["external"])
           /\ shown \subseteq Text /\ {"reload", "external"} \subseteq Reader
           /\ Opener \subseteq Reader /\ Blank \in Text
BY TextAssumption
   DEF TextAssumption, OwnInv, TypeOK, HeldSound, Sound, Buffer, Read, Reader

(* A step that moves neither a save nor a ledger row keeps the types when   *)
(* it keeps each of them.                                                   *)
LEMMA RestTypes ==
    ASSUME OwnInv, UNCHANGED tx,
           ledger' \in [Tx -> {"none", "pending", "foreign", "confirmed"}],
           disk' \in Text, Sound(buf'),
           tab' \in BOOLEAN, closing' \in BOOLEAN, event' \in BOOLEAN,
           epoch' \in Nat, style' \in Nat, Move \/ Quietly,
           io' \in [Reader -> Read],
           held' \in [{"reload", "external"} -> Buffer],
           conflict' \in Text \cup {None}, shown' \subseteq Text
    PROVE  TypeOK'
<1>1. moves' \in 0 .. MaxMoves
  BY Moves DEF OwnInv
<1>2. tx' \in [Tx -> Transaction]
  BY DEF OwnInv, TypeOK
<1> QED BY <1>1, <1>2 DEF TypeOK, Sound, Read

(* The common shape: the buffer or a read changes, and perhaps the disk.    *)
LEMMA RestHolds ==
    ASSUME OwnInv, UNCHANGED <<tx, ledger, epoch>>,
           disk' \in Text, Sound(buf'), buf'.saving => buf.saving,
           tab' \in BOOLEAN, closing' \in BOOLEAN, event' \in BOOLEAN,
           style' \in Nat, Move \/ Quietly,
           io' \in [Reader -> Read],
           held' \in [{"reload", "external"} -> Buffer], HeldSound',
           conflict' \in Text \cup {None}, shown' \subseteq Text
    PROVE  Holds
<1>1. ledger' \in [Tx -> {"none", "pending", "foreign", "confirmed"}] /\ epoch' \in Nat
  BY DEF OwnInv, TypeOK
<1>2. TypeOK'
  BY <1>1, RestTypes
<1> QED BY <1>2, SavesRest

LEMMA BufferMoves ==
    ASSUME OwnInv, UNCHANGED <<tx, ledger, epoch, disk, tab, closing, event, style,
                               io, held>>,
           Move \/ Quietly, Sound(buf'), buf'.saving => buf.saving,
           conflict' \in Text \cup {None}, shown' \subseteq Text
    PROVE  Holds
<1>1. HeldSound'
  BY DEF OwnInv, HeldSound
<1> QED BY <1>1, Facts, RestHolds

LEMMA TypeHolds ==
    ASSUME OwnInv, NEW x \in Text, Type(x)
    PROVE  Holds
<1>1. buf.there /\ Sound(buf)
  BY Facts DEF Type, Editable
<1> DEFINE c == Edited(buf, x)
<1>2. Sound(c) /\ c.saving = buf.saving
  BY <1>1, EditedSound
<1>3. buf' = c /\ Move
  BY DEF Type
<1> HIDE DEF c
<1> QED BY <1>2, <1>3, Facts, BufferMoves DEF Type

LEMMA StyleChangedHolds ==
    ASSUME OwnInv, StyleChanged
    PROVE  Holds
<1>1. style' \in Nat
  BY Facts DEF StyleChanged
<1>2. HeldSound'
  BY DEF OwnInv, HeldSound, StyleChanged
<1> QED BY <1>1, <1>2, Facts, RestHolds DEF StyleChanged

LEMMA ResolveRowHolds ==
    ASSUME OwnInv, NEW t \in Tx, ResolveRow(t)
    PROVE  Holds
<1>1. ledger' \in [Tx -> {"none", "pending", "foreign", "confirmed"}]
  BY DEF OwnInv, TypeOK, ResolveRow
<1>2. HeldSound' /\ Sound(buf')
  BY DEF OwnInv, HeldSound, ResolveRow
<1>3. TypeOK'
  BY <1>1, <1>2, Facts, RestTypes DEF ResolveRow
<1> QED BY <1>2, <1>3, SavesRest DEF ResolveRow

LEMMA NativeReadHolds ==
    ASSUME OwnInv, NEW r \in Reader, NativeRead(r)
    PROVE  Holds
<1>1. io' \in [Reader -> Read]
  BY Facts DEF NativeRead, Read
<1>2. HeldSound'
  BY Facts DEF OwnInv, HeldSound, NativeRead
<1> QED BY <1>1, <1>2, Facts, RestHolds DEF NativeRead, Quietly

(* openFile, now or when the cleanup is over.                               *)
LEMMA OpeningHolds ==
    ASSUME OwnInv, NEW o \in Opener, NEW v \in Read,
           io' = [io EXCEPT ![o] = v], buf' \in {buf, Loading},
           tab' \in BOOLEAN, Move \/ Quietly,
           UNCHANGED <<disk, closing, epoch, style, held, event, conflict, tx,
                       ledger, shown>>
    PROVE  Holds
<1>1. io' \in [Reader -> Read] /\ io'["external"] = io["external"]
  BY Facts, TextAssumption DEF TextAssumption
<1>2. HeldSound'
  BY <1>1 DEF OwnInv, HeldSound
<1>3. Sound(buf') /\ (buf'.saving => buf.saving)
  BY Facts, LoadingSound
<1> QED BY <1>1, <1>2, <1>3, Facts, RestHolds

LEMMA OpenFileHolds ==
    ASSUME OwnInv, NEW o \in Opener, OpenFile(o) \/ OpenAfterCleanup(o)
    PROVE  Holds
<1>1. PICK v \in {"idle", "waiting", "asked"} : io' = [io EXCEPT ![o] = v]
  BY DEF OpenFile, OpenAfterCleanup, ReadUnlessOpen
<1>2. buf' \in {buf, Loading}
  BY DEF OpenFile, OpenAfterCleanup, ReadUnlessOpen
<1>3. tab' \in BOOLEAN /\ (Move \/ Quietly)
  BY Facts DEF OpenFile, OpenAfterCleanup, Quietly
<1>4. v \in Read
  BY <1>1 DEF Read
<1> QED BY <1>1, <1>2, <1>3, <1>4, OpeningHolds DEF OpenFile, OpenAfterCleanup

LEMMA OpenEndsHolds ==
    ASSUME OwnInv, NEW o \in Opener, OpenDone(o) \/ OpenFailed(o)
    PROVE  Holds
<1>1. /\ io' = [io EXCEPT ![o] = "idle"]
      /\ UNCHANGED <<disk, tab, closing, epoch, style, held, event, conflict, tx,
                     ledger>>
      /\ Move \/ Quietly
  BY DEF OpenDone, OpenFailed, Quietly
<1>2. io' \in [Reader -> Read] /\ io'["external"] = io["external"]
  BY <1>1, Facts, TextAssumption DEF TextAssumption, Read
<1>3. HeldSound'
  BY <1>1, <1>2 DEF OwnInv, HeldSound
<1>4. Sound(buf') /\ ~buf'.saving /\ shown' \subseteq Text
  <2>1. CASE OpenDone(o)
    BY <2>1, Facts, LoadedSound DEF OpenDone
  <2>2. CASE OpenFailed(o)
    <3> DEFINE b == IF buf.there THEN buf ELSE Loading
    <3>1. Sound(b)
      BY Facts, LoadingSound
    <3>2. /\ buf' = [b EXCEPT !.loading = FALSE, !.saving = FALSE]
          /\ shown' = shown \cup {buf'.text}
      BY <2>2 DEF OpenFailed
    <3> HIDE DEF b
    <3>3. Sound(buf') /\ ~buf'.saving
      BY <3>1, <3>2, ReadSound
    <3> QED BY <3>2, <3>3, Facts DEF Sound, Buffer
  <2> QED BY <2>1, <2>2
<1> QED BY <1>1, <1>2, <1>3, <1>4, Facts, RestHolds

LEMMA ReloadHolds ==
    ASSUME OwnInv, Reload
    PROVE  Holds
<1> DEFINE c == [buf EXCEPT !.loading = TRUE]
<1>1. Sound(c) /\ c.saving = buf.saving
  BY Facts, ReadSound DEF Reload
<1>2. buf' = c
  BY DEF Reload
<1> HIDE DEF c
<1>3. /\ io' \in [Reader -> Read] /\ io'["external"] = io["external"]
      /\ held' \in [{"reload", "external"} -> Buffer]
      /\ held'["reload"] = buf /\ held'["external"] = held["external"]
  BY Facts DEF Reload, Read
<1>4. HeldSound'
  BY <1>3, Facts DEF OwnInv, HeldSound
<1> QED BY <1>1, <1>2, <1>3, <1>4, Facts, RestHolds DEF Reload

LEMMA ReloadEndsHolds ==
    ASSUME OwnInv, ReloadDone \/ ReloadFailed
    PROVE  Holds
<1>1. /\ io' = [io EXCEPT !["reload"] = "idle"]
      /\ held' = [held EXCEPT !["reload"] = NoBuffer]
      /\ UNCHANGED <<disk, tab, closing, epoch, style, event, conflict, tx, ledger>>
      /\ Move \/ Quietly
  BY DEF ReloadDone, ReloadFailed, Quietly
<1>2. /\ io' \in [Reader -> Read] /\ io'["external"] = io["external"]
      /\ held' \in [{"reload", "external"} -> Buffer]
      /\ held'["reload"] = NoBuffer /\ held'["external"] = held["external"]
  BY <1>1, Facts, NoBufferSound DEF Read, Sound
<1>3. HeldSound'
  BY <1>2, NoBufferSound DEF OwnInv, HeldSound
<1>4. Sound(buf') /\ ~buf'.saving /\ shown' \subseteq Text
  <2>1. CASE ReloadDone
    BY <2>1, Facts, ReloadedSound DEF ReloadDone
  <2>2. CASE ReloadFailed
    <3> DEFINE b == IF buf.there THEN buf ELSE held["reload"]
    <3>1. Sound(b)
      BY Facts
    <3>2. /\ buf' = [b EXCEPT !.loading = FALSE, !.saving = FALSE]
          /\ shown' = shown \cup {buf'.text}
      BY <2>2 DEF ReloadFailed
    <3> HIDE DEF b
    <3>3. Sound(buf') /\ ~buf'.saving
      BY <3>1, <3>2, ReadSound
    <3> QED BY <3>2, <3>3, Facts DEF Sound, Buffer
  <2> QED BY <2>1, <2>2
<1> QED BY <1>1, <1>2, <1>3, <1>4, Facts, RestHolds

LEMMA CloseTabHolds ==
    ASSUME OwnInv, CloseTab
    PROVE  Holds
<1>1. HeldSound'
  BY DEF OwnInv, HeldSound, CloseTab
<1> QED BY <1>1, Facts, RestHolds DEF CloseTab

LEMMA CleanupHolds ==
    ASSUME OwnInv, CleanupDone \/ CleanupFailed
    PROVE  Holds
<1>1. /\ UNCHANGED <<disk, tab, style, io, held, event, conflict, tx, ledger, shown>>
      /\ closing' = FALSE /\ (Move \/ Quietly)
  BY DEF CleanupDone, CleanupFailed, Quietly
<1>2. /\ epoch' \in Nat /\ Sound(buf')
      /\ buf'.saving => buf.saving /\ epoch' = epoch
  BY Facts, NoBufferSound DEF CleanupDone, CleanupFailed
<1>3. HeldSound'
  BY <1>1 DEF OwnInv, HeldSound
<1>4. ledger' \in [Tx -> {"none", "pending", "foreign", "confirmed"}]
  BY <1>1 DEF OwnInv, TypeOK
<1>5. TypeOK'
  BY <1>1, <1>2, <1>4, Facts, RestTypes
<1> QED BY <1>1, <1>2, <1>3, <1>5, SavesRest

LEMMA ExternalWriteHolds ==
    ASSUME OwnInv, NEW x \in Text, ExternalWrite(x)
    PROVE  Holds
<1>1. HeldSound'
  BY DEF OwnInv, HeldSound, ExternalWrite
<1> QED BY <1>1, Facts, RestHolds DEF ExternalWrite

LEMMA ExternalChangeHolds ==
    ASSUME OwnInv, ExternalChange
    PROVE  Holds
<1>1. /\ UNCHANGED <<disk, buf, tab, closing, epoch, style, conflict, tx, ledger,
                     moves, shown>>
      /\ event' = FALSE
  BY DEF ExternalChange
<1>2. CASE buf.there /\ ~buf.saving
  <2>1. /\ io' = [io EXCEPT !["external"] = "asked"]
        /\ held' = [held EXCEPT !["external"] = buf]
    BY <1>2 DEF ExternalChange
  <2>2. /\ io' \in [Reader -> Read] /\ held' \in [{"reload", "external"} -> Buffer]
        /\ held'["external"] = buf /\ held'["reload"] = held["reload"]
    BY <2>1, Facts DEF Read
  <2>3. HeldSound'
    BY <1>2, <2>2, Facts DEF HeldSound
  <2> QED BY <1>1, <2>2, <2>3, Facts, RestHolds DEF Quietly
<1>3. CASE UNCHANGED <<io, held>>
  <2>1. HeldSound'
    BY <1>3 DEF OwnInv, HeldSound
  <2> QED BY <1>1, <1>3, <2>1, Facts, RestHolds DEF Quietly
<1> QED BY <1>2, <1>3 DEF ExternalChange

LEMMA ExternalReadEndsHolds ==
    ASSUME OwnInv, ExternalRead \/ ExternalReadFailed
    PROVE  Holds
<1>1. /\ UNCHANGED <<disk, tab, closing, epoch, style, event, tx, ledger>>
      /\ io' = [io EXCEPT !["external"] = "idle"]
      /\ held' = [held EXCEPT !["external"] = NoBuffer]
      /\ Move \/ Quietly
  BY DEF ExternalRead, ExternalReadFailed, Quietly
<1>2. /\ io' \in [Reader -> Read] /\ io'["external"] = "idle"
      /\ held' \in [{"reload", "external"} -> Buffer]
      /\ held'["external"] = NoBuffer /\ held'["reload"] = held["reload"]
  BY <1>1, Facts, NoBufferSound DEF Read, Sound
<1>3. HeldSound'
  BY <1>2, NoBufferSound DEF OwnInv, HeldSound
<1>4. /\ Sound(buf') /\ (buf'.saving => buf.saving) /\ shown' \subseteq Text
      /\ conflict' \in Text \cup {None}
  <2>1. CASE ExternalRead
    <3> DEFINE x == io["external"]
               latest == IF buf.there THEN buf ELSE held["external"]
    <3>1. x \in Text /\ x # "idle"
      BY <2>1, TextAssumption DEF TextAssumption, ExternalRead
    <3>2. /\ Sound(latest) /\ latest.there /\ (latest.saving => buf.saving)
          /\ latest.text \in Text /\ latest.saved \in Text
      BY <3>1, Facts DEF OwnInv, HeldSound, Sound, Buffer
    <3>3. CASE /\ buf' = [latest EXCEPT !.saved = x, !.hash = x, !.dirty = FALSE]
               /\ shown' = shown \cup {x} /\ UNCHANGED conflict
      <4> HIDE DEF x, latest
      <4> QED BY <3>1, <3>2, <3>3, Facts DEF Sound, Buffer
    <3>4. CASE buf' = [latest EXCEPT !.hash = x] /\ UNCHANGED <<shown, conflict>>
      <4> HIDE DEF x, latest
      <4> QED BY <3>1, <3>2, <3>4, Facts DEF Sound, Buffer
    <3>5. CASE /\ buf' = Reloaded(buf, x) /\ UNCHANGED conflict
               /\ shown' = IF buf.there THEN shown \cup {x} ELSE shown
      <4> HIDE DEF x, latest
      <4> QED BY <3>1, <3>5, Facts, ReloadedSound
    <3>6. CASE /\ conflict' = IF conflict = None THEN x ELSE conflict
               /\ shown' = shown \cup {conflict'} /\ UNCHANGED buf
      <4> HIDE DEF x, latest
      <4> QED BY <3>1, <3>6, Facts
    <3> QED BY <2>1, <3>3, <3>4, <3>5, <3>6 DEF ExternalRead
  <2>2. CASE ExternalReadFailed
    BY <2>2, Facts DEF ExternalReadFailed
  <2> QED BY <2>1, <2>2
<1> QED BY <1>1, <1>2, <1>3, <1>4, Facts, RestHolds

LEMMA ResolveConflictHolds ==
    ASSUME OwnInv, NEW m \in Text, ResolveConflict(m)
    PROVE  Holds
<1>1. conflict \in Text /\ conflict' = None
  BY Facts DEF ResolveConflict
<1>2. Sound(buf') /\ (buf'.saving => buf.saving)
  <2>1. CASE buf.there
    <3> DEFINE d == (m # conflict)
    <3>1. /\ buf' = [buf EXCEPT !.text = m, !.saved = conflict, !.hash = conflict,
                                !.dirty = d]
          /\ d \in BOOLEAN
      BY <2>1 DEF ResolveConflict
    <3> HIDE DEF d
    <3> QED BY <1>1, <2>1, <3>1, Facts DEF Sound, Buffer
  <2>2. CASE ~buf.there
    BY <2>2, Facts DEF ResolveConflict
  <2> QED BY <2>1, <2>2
<1> QED BY <1>1, <1>2, Facts, BufferMoves DEF ResolveConflict, Quietly

LEMMA ConflictEndsHolds ==
    ASSUME OwnInv, LoadDisk \/ DismissConflict
    PROVE  Holds
<1>1. conflict \in Text
  BY Facts DEF LoadDisk, DismissConflict
<1>2. Sound(buf') /\ (buf'.saving => buf.saving)
  <2>1. LET c == Reloaded(buf, conflict) IN Sound(c) /\ ~c.saving
    BY <1>1, Facts, ReloadedSound
  <2> QED BY <2>1, Facts DEF LoadDisk, DismissConflict
<1> QED BY <1>2, Facts, BufferMoves DEF LoadDisk, DismissConflict, Quietly

-----------------------------------------------------------------------------
(* The theorems.                                                            *)

LEMMA OwnInit == Init => OwnInv
<1> SUFFICES ASSUME Init PROVE OwnInv
  OBVIOUS
<1>1. \A t \in Tx : tx[t] = Idle /\ Good(tx[t])
  BY IdleGood DEF Init
<1>2. Sound(buf) /\ ~buf.saving /\ HeldSound
  BY NoBufferSound, TextAssumption DEF Init, HeldSound, Reader
<1>3. TypeOK
  <2>1. /\ tx \in [Tx -> Transaction] /\ buf \in Buffer
        /\ held \in [{"reload", "external"} -> Buffer]
    BY NoBufferSound, IdleGood DEF Init, Sound, Good
  <2>2. First \in Text /\ moves \in 0 .. MaxMoves
    BY TextAssumption DEF TextAssumption, Init
  <2>3. /\ io \in [Reader -> {"idle", "waiting", "asked"} \cup Text]
        /\ ledger \in [Tx -> {"none", "pending", "foreign", "confirmed"}]
    BY DEF Init
  <2>4. disk \in Text /\ {epoch, style} \subseteq Nat
    BY <2>2 DEF Init
  <2>5. /\ conflict \in Text \cup {None} /\ shown \subseteq Text
        /\ tab \in BOOLEAN /\ closing \in BOOLEAN /\ event \in BOOLEAN
    BY DEF Init
  <2> QED BY <2>1, <2>2, <2>3, <2>4, <2>5 DEF TypeOK
<1> QED BY <1>1, <1>2, <1>3 DEF OwnInv, MarkIsOwned

LEMMA StutterHolds == OwnInv /\ UNCHANGED vars => Holds
<1> SUFFICES ASSUME OwnInv, UNCHANGED vars PROVE Holds
  OBVIOUS
<1>1. TypeOK' /\ Sound(buf') /\ HeldSound'
  BY DEF OwnInv, TypeOK, HeldSound, vars
<1> QED BY <1>1, SavesRest DEF vars

LEMMA NextHolds == OwnInv /\ [Next]_vars => Holds
<1> SUFFICES ASSUME OwnInv, [Next]_vars PROVE Holds
  OBVIOUS
<1>1. ASSUME NEW x \in Text, Type(x) \/ ExternalWrite(x) \/ Merge(x)
      PROVE  Holds
  BY <1>1, TypeHolds, ExternalWriteHolds, ResolveConflictHolds DEF Merge
<1>2. ASSUME NEW t \in Tx, StartSave(t) \/ ResolveRow(t)
      PROVE  Holds
  BY <1>2, StartSaveHolds, ResolveRowHolds
<1>3. ASSUME NEW t \in Tx, SaveStep(t)
      PROVE  Holds
  BY <1>3, PrepareDoneHolds, HistoryDoneHolds, NativeCheckHolds, NativeReplaceHolds,
     NativeRereadHolds, WriteAnsweredHolds, ReadBackHolds, WatchersToldHolds
     DEF SaveStep
<1>4. ASSUME NEW t \in Tx, NEW x \in Text, EditAndSave(t, x)
      PROVE  Holds
  BY <1>4, EditAndSaveHolds
<1>5. ASSUME NEW r \in Reader, NativeRead(r)
      PROVE  Holds
  BY <1>5, NativeReadHolds
<1>6. ASSUME NEW o \in Opener,
             OpenFile(o) \/ OpenAfterCleanup(o) \/ OpenDone(o) \/ OpenFailed(o)
      PROVE  Holds
  BY <1>6, OpenFileHolds, OpenEndsHolds
<1>7. CASE StyleChanged \/ Reload \/ ReloadDone \/ ReloadFailed
  BY <1>7, StyleChangedHolds, ReloadHolds, ReloadEndsHolds
<1>8. CASE CloseTab \/ CleanupDone \/ CleanupFailed
  BY <1>8, CloseTabHolds, CleanupHolds
<1>9. CASE ExternalChange \/ ExternalRead \/ ExternalReadFailed
  BY <1>9, ExternalChangeHolds, ExternalReadEndsHolds
<1>10. CASE KeepLocal \/ LoadDisk \/ DismissConflict
  BY <1>10, Facts, ResolveConflictHolds, ConflictEndsHolds DEF KeepLocal
<1>11. CASE UNCHANGED vars
  BY <1>11, StutterHolds
<1> QED BY <1>1, <1>2, <1>3, <1>4, <1>5, <1>6, <1>7, <1>8, <1>9, <1>10, <1>11
        DEF Next

LEMMA OwnAlways == Spec => []OwnInv
<1>1. OwnInv /\ [Next]_vars => OwnInv'
  BY NextHolds DEF Holds
<1> QED BY OwnInit, <1>1, PTL DEF Spec

(* Every variable keeps its type: revisions, epochs and style generations   *)
(* only ever count up, and a read in flight holds nothing or a content.     *)
THEOREM TypeCorrect == Spec => []TypeOK
<1>1. OwnInv => TypeOK
  BY DEF OwnInv
<1> QED BY OwnAlways, <1>1, PTL

(* saveFile refuses a buffer that is marked as being saved, and external    *)
(* changes of it are ignored: a mark always belongs to a save under way,    *)
(* of the owner the buffer has now, which will take it back.                *)
THEOREM SavingCorrect == Spec => []SavingIsOwned
<1>1. OwnInv => SavingIsOwned
  BY DEF OwnInv, MarkIsOwned, Owns, SavingIsOwned
<1> QED BY OwnAlways, <1>1, PTL

(* "none" and "committed" are what commitPreparedSave tells its callers of  *)
(* the file: they are true of it, whichever of the calls to the writer and  *)
(* of the reads after it failed.                                            *)
THEOREM ReportCorrect == Spec => ReportIsTrue
<1>1. OwnInv /\ [Next]_vars => [ReportStep]_vars
  BY NextHolds DEF Holds
<1>2. Spec => [][ReportStep]_vars
  BY OwnAlways, <1>1, PTL DEF Spec
<1> QED BY <1>2 DEF ReportIsTrue, ReportStep

(* A save whose buffer was closed, and perhaps opened again, since it began *)
(* to commit changes at most the marks of the buffer it finds.              *)
THEOREM SpareCorrect == Spec => ClosedSaveSparesContent
<1>1. OwnInv /\ [Next]_vars => [SpareStep]_vars
  BY NextHolds DEF Holds
<1>2. Spec => [][SpareStep]_vars
  BY OwnAlways, <1>1, PTL DEF Spec
<1> QED BY <1>2 DEF ClosedSaveSparesContent, SpareStep

-----------------------------------------------------------------------------
(* What the user was shown.                                                 *)

(* What a buffer s knows of the file was shown, unless it is still loading. *)
SeenBuffer(b, s) ==
    /\ b.hash # None => b.hash \in s
    /\ b.there => b.saved \in s \/ (b.loading /\ b.text = b.saved)

(* What a save knows of the file was shown; d is what the file holds.       *)
SeenSave(r, d, s) ==
    /\ r.hash # None => r.hash \in s
    /\ r.wrote => r.text \in s
    /\ r.phase = "checked" /\ r.hash # None => d \in s
    /\ r.phase = "replaced" => d \in s
    /\ r.phase = "answered" /\ r.answer = "ok" => r.file \in s
    /\ r.phase = "watch" => r.file \in s /\ r.text \in s

SeenInv ==
    /\ SeenBuffer(buf, shown)
    /\ SeenBuffer(held["reload"], shown) /\ SeenBuffer(held["external"], shown)
    /\ conflict # None => conflict \in shown
    /\ \A t \in Tx : SeenSave(tx[t], disk, shown)

SeenStep ==
    \A t \in Tx :
         ~tx[t].wrote /\ tx'[t].wrote /\ tx[t].hash # None => disk \in shown

Sees == SeenInv' /\ SeenStep

LEMMA NothingSeen ==
    /\ \A s : SeenBuffer(NoBuffer, s) /\ SeenBuffer(Loading, s)
    /\ \A d, s : SeenSave(Idle, d, s)
    /\ \A d, s, e : SeenSave(Ended(e), d, s)
BY DEF SeenBuffer, NoBuffer, Loading, SeenSave, Idle, Ended

LEMMA SeenSame ==
    ASSUME NEW s, NEW u, s \subseteq u, NEW b, SeenBuffer(b, s),
           NEW c, Content(c) = Content(b), b.loading => c.loading
    PROVE  SeenBuffer(c, u)
BY DEF SeenBuffer, Content

(* What was shown stays shown.                                              *)
LEMMA SeenGrows ==
    ASSUME SeenInv, NEW s, shown \subseteq s
    PROVE  /\ SeenBuffer(buf, s)
           /\ SeenBuffer(held["reload"], s) /\ SeenBuffer(held["external"], s)
           /\ conflict # None => conflict \in s
           /\ \A d : \A t \in Tx : d = disk \/ d \in s => SeenSave(tx[t], d, s)
BY DEF SeenInv, SeenBuffer, SeenSave

(* Save t moves to the record r.                                            *)
LEMMA SeenMoves ==
    ASSUME OwnInv, SeenInv, NEW t \in Tx, NEW r, Goes(t, r),
           UNCHANGED <<held, conflict>>, shown \subseteq shown',
           disk' = disk \/ disk' \in shown',
           SeenBuffer(buf', shown'), SeenSave(r, disk', shown'),
           r.wrote => tx[t].wrote \/ (tx[t].hash # None => disk \in shown)
    PROVE  Sees
<1>1. \A u \in Tx : tx'[u] = IF u = t THEN r ELSE tx[u]
  BY DEF OwnInv, TypeOK, Goes
<1>2. \A u \in Tx : SeenSave(tx'[u], disk', shown')
  BY <1>1, SeenGrows
<1>3. /\ SeenBuffer(held'["reload"], shown') /\ SeenBuffer(held'["external"], shown')
      /\ conflict' # None => conflict' \in shown'
  BY SeenGrows
<1>4. SeenStep
  BY <1>1 DEF SeenStep
<1> QED BY <1>2, <1>3, <1>4 DEF Sees, SeenInv

(* No save moves, nor does the file.                                        *)
LEMMA SeenRests ==
    ASSUME SeenInv, UNCHANGED <<disk, tx>>, shown \subseteq shown',
           SeenBuffer(buf', shown'),
           SeenBuffer(held'["reload"], shown'), SeenBuffer(held'["external"], shown'),
           conflict' # None => conflict' \in shown'
    PROVE  Sees
<1>1. \A t \in Tx : SeenSave(tx'[t], disk', shown')
  BY SeenGrows
<1>2. SeenStep
  BY DEF SeenStep
<1> QED BY <1>1, <1>2 DEF Sees, SeenInv

-----------------------------------------------------------------------------
(* A save that starts, and its way to the writer.                           *)

LEMMA StartSaveSees ==
    ASSUME OwnInv, SeenInv, NEW t \in Tx, StartSave(t) \/ PrepareDone(t)
                                          \/ \E x \in Text : EditAndSave(t, x)
    PROVE  Sees
<1>1. /\ UNCHANGED <<disk, held, conflict, shown>>
      /\ Sound(buf) /\ SeenBuffer(buf, shown) /\ epoch \in Nat /\ style \in Nat
  BY Facts, SeenGrows DEF StartSave, PrepareDone, EditAndSave
<1>2. CASE StartSave(t)
  <2> DEFINE r == [Snapshot(buf, buf.text) EXCEPT !.phase = "prepare"]
  <2>1. Goes(t, r) /\ buf' = buf
    BY <1>2 DEF StartSave
  <2>2. r.phase = "prepare" /\ r.hash = buf.hash /\ ~r.wrote
    <3>1. buf.text \in Text
      BY Facts
    <3> QED BY <1>1, <3>1, SnapshotGood
  <2>3. SeenSave(r, disk, shown)
    BY <1>1, <2>2 DEF SeenSave, SeenBuffer
  <2> HIDE DEF r
  <2> QED BY <1>1, <2>1, <2>2, <2>3, SeenMoves
<1>3. CASE PrepareDone(t)
  <2>1. Good(tx[t]) /\ tx[t].phase = "prepare" /\ SeenSave(tx[t], disk, shown)
    BY <1>3, Known, SeenGrows DEF PrepareDone
  <2>2. CASE /\ Unedited(t)
             /\ \E x \in {tx[t].text, Fmt[tx[t].text]} :
                  BeginCommit(buf, t, [tx[t] EXCEPT !.text = x])
    <3>1. PICK x \in Text : BeginCommit(buf, t, [tx[t] EXCEPT !.text = x])
      BY <2>2, Known, TextAssumption DEF TextAssumption
    <3> DEFINE r == [[tx[t] EXCEPT !.text = x] EXCEPT !.phase = "history",
                                                      !.epoch = epoch]
               c == [buf EXCEPT !.saving = TRUE]
    <3>2. Goes(t, r) /\ buf' = c
      BY <3>1 DEF BeginCommit
    <3>3. r.phase = "history" /\ r.hash = tx[t].hash /\ ~r.wrote
      BY <1>1, <2>1, PreparedGood
    <3>4. Content(c) = Content(buf) /\ c.loading = buf.loading
      BY <1>1, <2>2, MarkSound DEF Unedited
    <3>5. SeenSave(r, disk, shown)
      BY <2>1, <3>3 DEF SeenSave
    <3> HIDE DEF r, c
    <3>6. SeenBuffer(c, shown)
      BY <1>1, <3>4, SeenSame
    <3> QED BY <1>1, <3>2, <3>3, <3>5, <3>6, SeenMoves
  <2>3. CASE Goes(t, Ended("none")) /\ UNCHANGED buf
    <3> DEFINE r == Ended("none")
    <3>1. ~r.wrote /\ SeenSave(r, disk, shown) /\ Goes(t, r)
      BY <2>3, EndedGood, NothingSeen DEF Effect
    <3> HIDE DEF r
    <3> QED BY <1>1, <2>3, <3>1, SeenMoves
  <2> QED BY <1>3, <2>2, <2>3 DEF PrepareDone
<1>4. ASSUME NEW x \in Text, EditAndSave(t, x)
      PROVE  Sees
  <2> DEFINE b == Edited(buf, x)
             r == [Snapshot(b, x) EXCEPT !.phase = "history", !.epoch = epoch]
             c == [b EXCEPT !.saving = TRUE]
  <2>1. Goes(t, r) /\ buf' = c /\ buf.there /\ ~buf.loading
    BY <1>4 DEF EditAndSave, BeginCommit, Editable
  <2>2. /\ Sound(b) /\ b.there /\ b.loading = buf.loading
        /\ b.saved = buf.saved /\ b.hash = buf.hash
    BY <1>1, <2>1, EditedSound
  <2> HIDE DEF b
  <2>3. SeenBuffer(b, shown)
    BY <1>1, <2>1, <2>2 DEF SeenBuffer
  <2>4. Content(c) = Content(b) /\ c.loading = b.loading
    BY <2>2, MarkSound
  <2>5. r.phase = "history" /\ r.hash = b.hash /\ ~r.wrote
    BY <1>1, <2>2, CommitGood
  <2>6. SeenSave(r, disk, shown)
    BY <2>3, <2>5 DEF SeenSave, SeenBuffer
  <2> HIDE DEF r, c
  <2>7. SeenBuffer(c, shown)
    BY <2>3, <2>4, SeenSame
  <2> QED BY <1>1, <2>1, <2>5, <2>6, <2>7, SeenMoves
<1> QED BY <1>2, <1>3, <1>4

LEMMA HistoryDoneSees ==
    ASSUME OwnInv, SeenInv, NEW t \in Tx, HistoryDone(t)
    PROVE  Sees
<1>1. /\ UNCHANGED <<disk, held, conflict, shown>> /\ tx[t].phase = "history"
      /\ Sound(buf) /\ SeenBuffer(buf, shown)
      /\ Good(tx[t]) /\ SeenSave(tx[t], disk, shown)
  BY Known, SeenGrows DEF HistoryDone
<1>2. CASE BoundaryHolds(t)
  <2> DEFINE r == [tx[t] EXCEPT !.phase = "issued"]
  <2>1. Goes(t, r) /\ buf' = buf
    BY <1>2 DEF HistoryDone
  <2>2. r.phase = "issued" /\ r.hash = tx[t].hash /\ ~r.wrote
    BY <1>1, IssuedGood
  <2>3. SeenSave(r, disk, shown)
    BY <1>1, <2>2 DEF SeenSave
  <2> HIDE DEF r
  <2> QED BY <1>1, <2>1, <2>2, <2>3, SeenMoves
<1>3. CASE ~BoundaryHolds(t)
  <2> DEFINE r == Ended("none")
             c == SavingOff(buf)
  <2>1. Goes(t, r) /\ buf' = c
    BY <1>3 DEF HistoryDone
  <2>2. ~r.wrote /\ SeenSave(r, disk, shown)
    BY EndedGood, NothingSeen DEF Effect
  <2>3. c.loading = buf.loading /\ Content(c) = Content(buf)
    BY <1>1, UnmarkSound
  <2> HIDE DEF r, c
  <2>4. SeenBuffer(c, shown)
    BY <1>1, <2>3, SeenSame
  <2> QED BY <1>1, <2>1, <2>2, <2>4, SeenMoves
<1> QED BY <1>2, <1>3

(* The writer: the check of the hash is what makes the file a seen one.     *)
LEMMA NativeCheckSees ==
    ASSUME OwnInv, SeenInv, NEW t \in Tx, NativeCheck(t)
    PROVE  Sees
<1>1. /\ UNCHANGED <<disk, buf, held, conflict, shown>> /\ tx[t].phase = "issued"
      /\ SeenBuffer(buf, shown) /\ Good(tx[t]) /\ SeenSave(tx[t], disk, shown)
  BY Known, SeenGrows DEF NativeCheck
<1>2. CASE tx[t].hash \in {disk, None} /\ Goes(t, Checks(tx[t]))
  <2>1. LET r == Checks(tx[t])
        IN  r.phase = "checked" /\ r.hash = tx[t].hash /\ ~r.wrote
    BY <1>1, CheckedGood
  <2>2. SeenSave(Checks(tx[t]), disk, shown)
    BY <1>1, <1>2, <2>1 DEF SeenSave
  <2> QED BY <1>1, <1>2, <2>1, <2>2, SeenMoves
<1>3. ASSUME NEW a \in {"mismatch", "none"}, Goes(t, Answers(tx[t], a))
      PROVE  Sees
  <2>1. LET r == Answers(tx[t], a)
        IN  /\ r.phase = "answered" /\ r.hash = tx[t].hash /\ r.wrote = tx[t].wrote
            /\ r.text = tx[t].text /\ r.answer = a
    BY <1>1, AnsweredGood
  <2>2. SeenSave(Answers(tx[t], a), disk, shown)
    BY <1>1, <2>1 DEF SeenSave
  <2> QED BY <1>1, <1>3, <2>1, <2>2, SeenMoves
<1> QED BY <1>2, <1>3 DEF NativeCheck, Checks, Answers

LEMMA NativeReplaceSees ==
    ASSUME OwnInv, SeenInv, NEW t \in Tx, NativeReplace(t)
    PROVE  Sees
<1>1. /\ UNCHANGED <<buf, held, conflict>> /\ tx[t].phase = "checked"
      /\ SeenBuffer(buf, shown) /\ Good(tx[t]) /\ SeenSave(tx[t], disk, shown)
  BY Known, SeenGrows DEF NativeReplace
<1>2. CASE /\ disk' = tx[t].text /\ shown' = shown \cup {tx[t].text}
           /\ Goes(t, Replaces(tx[t]))
  <2>1. LET r == Replaces(tx[t])
        IN  /\ r.phase = "replaced" /\ r.hash = tx[t].hash /\ r.wrote
            /\ r.text = tx[t].text
    BY <1>1, ReplacedGood
  <2>2. SeenSave(Replaces(tx[t]), disk', shown')
    BY <1>1, <1>2, <2>1 DEF SeenSave
  <2>3. tx[t].hash # None => disk \in shown
    BY <1>1 DEF SeenSave
  <2>4. SeenBuffer(buf', shown')
    BY <1>1, <1>2 DEF SeenBuffer
  <2> QED BY <1>1, <1>2, <2>2, <2>3, <2>4, SeenMoves
<1>3. ASSUME NEW a \in {"none", "unknown"}, Goes(t, Answers(tx[t], a)),
             UNCHANGED <<disk, shown>>
      PROVE  Sees
  <2>1. LET r == Answers(tx[t], a)
        IN  /\ r.phase = "answered" /\ r.hash = tx[t].hash /\ r.wrote = tx[t].wrote
            /\ r.text = tx[t].text /\ r.answer = a
    BY <1>1, AnsweredGood
  <2>2. SeenSave(Answers(tx[t], a), disk, shown)
    BY <1>1, <2>1 DEF SeenSave
  <2> QED BY <1>1, <1>3, <2>1, <2>2, SeenMoves
<1> QED BY <1>2, <1>3 DEF NativeReplace, Replaces, Answers

LEMMA NativeRereadSees ==
    ASSUME OwnInv, SeenInv, NEW t \in Tx, NativeReread(t)
    PROVE  Sees
<1>1. /\ UNCHANGED <<disk, buf, held, conflict, shown>> /\ tx[t].phase = "replaced"
      /\ SeenBuffer(buf, shown) /\ Good(tx[t]) /\ SeenSave(tx[t], disk, shown)
      /\ disk \in Text
  BY Known, SeenGrows DEF NativeReread
<1>2. CASE Goes(t, Reports(tx[t], disk))
  <2>1. LET r == Reports(tx[t], disk)
        IN  /\ r.phase = "answered" /\ r.hash = tx[t].hash /\ r.wrote = tx[t].wrote
            /\ r.text = tx[t].text /\ r.file = disk
    BY <1>1, ReportedGood
  <2>2. SeenSave(Reports(tx[t], disk), disk, shown)
    BY <1>1, <2>1 DEF SeenSave
  <2> QED BY <1>1, <1>2, <2>1, <2>2, SeenMoves
<1>3. CASE Goes(t, Answers(tx[t], "unknown"))
  <2>1. LET r == Answers(tx[t], "unknown")
        IN  /\ r.phase = "answered" /\ r.hash = tx[t].hash /\ r.wrote = tx[t].wrote
            /\ r.text = tx[t].text /\ r.answer = "unknown"
    BY <1>1, AnsweredGood
  <2>2. SeenSave(Answers(tx[t], "unknown"), disk, shown)
    BY <1>1, <2>1 DEF SeenSave
  <2> QED BY <1>1, <1>3, <2>1, <2>2, SeenMoves
<1> QED BY <1>2, <1>3 DEF NativeReread, Reports, Answers

-----------------------------------------------------------------------------
(* A save on its way back, and everything else.                             *)

(* The bytes d are on disk, and were shown.                                 *)
LEMMA AcknowledgedSees ==
    ASSUME OwnInv, SeenInv, NEW t \in Tx, NEW d \in Text, Acknowledged(t, d),
           UNCHANGED <<disk, buf, held, conflict>>, shown \subseteq shown',
           d \in shown', tx[t].text \in shown',
           tx[t].wrote \/ d = tx[t].text
    PROVE  Sees
<1>1. Good(tx[t]) /\ Sound(buf) /\ SeenSave(tx[t], disk, shown)
  BY Known, SeenGrows
<1>2. SeenBuffer(buf', shown')
  BY SeenGrows
<1>3. CASE Active(t) /\ buf.there
  <2> DEFINE r == Watches(tx[t], d, buf.text, buf.rev)
  <2>1. Goes(t, r)
    BY <1>3 DEF Acknowledged, Watches
  <2>2. buf.text \in Text /\ buf.rev \in Nat
    BY <1>1 DEF Sound, Buffer
  <2>3. /\ r.phase = "watch" /\ r.hash = tx[t].hash /\ r.text = tx[t].text
        /\ r.wrote = tx[t].wrote /\ r.file = d
    BY <1>1, <2>2, WatchGood
  <2>4. SeenSave(r, disk', shown')
    BY <1>1, <2>3 DEF SeenSave
  <2> HIDE DEF r
  <2> QED BY <1>2, <2>1, <2>3, <2>4, SeenMoves
<1>4. CASE ~(Active(t) /\ buf.there)
  <2> DEFINE r == Ended("committed")
  <2>1. Goes(t, r)
    BY <1>4 DEF Acknowledged
  <2>2. ~r.wrote /\ SeenSave(r, disk', shown')
    BY EndedGood, NothingSeen DEF Effect
  <2> HIDE DEF r
  <2> QED BY <1>2, <2>1, <2>2, SeenMoves
<1> QED BY <1>3, <1>4

LEMMA WriteAnsweredSees ==
    ASSUME OwnInv, SeenInv, NEW t \in Tx, WriteAnswered(t)
    PROVE  Sees
<1>1. /\ UNCHANGED <<disk, held, conflict, shown>> /\ tx[t].phase = "answered"
      /\ Sound(buf) /\ SeenBuffer(buf, shown)
      /\ Good(tx[t]) /\ SeenSave(tx[t], disk, shown)
  BY Known, SeenGrows DEF WriteAnswered
<1> DEFINE c == MarkFailed(buf)
<1>2. c.loading = buf.loading /\ Content(c) = Content(buf)
  BY <1>1, UnmarkSound
<1> HIDE DEF c
<1>3. SeenBuffer(c, shown)
  BY <1>1, <1>2, SeenSame
<1>4. CASE tx[t].answer = "ok"
  <2>1. Acknowledged(t, tx[t].file) /\ buf' = buf
    BY <1>4 DEF WriteAnswered
  <2>2. /\ tx[t].wrote /\ tx[t].file \in Text
        /\ tx[t].file \in shown /\ tx[t].text \in shown
    BY <1>1, <1>4 DEF Good, Recorded, SeenSave
  <2> QED BY <1>1, <2>1, <2>2, AcknowledgedSees
<1>5. CASE tx[t].answer \in {"mismatch", "none"}
  <2> DEFINE r == Ended("none")
  <2>1. Goes(t, r) /\ buf' = c
    BY <1>5 DEF WriteAnswered, c
  <2>2. ~r.wrote /\ SeenSave(r, disk, shown)
    BY EndedGood, NothingSeen DEF Effect
  <2> HIDE DEF r
  <2> QED BY <1>1, <1>3, <2>1, <2>2, SeenMoves
<1>6. CASE tx[t].answer = "unknown"
  <2> DEFINE r == [tx[t] EXCEPT !.phase = "readback"]
  <2>1. Goes(t, r) /\ buf' = c
    BY <1>6 DEF WriteAnswered, c
  <2>2. /\ r.phase = "readback" /\ r.hash = tx[t].hash /\ r.wrote = tx[t].wrote
        /\ r.text = tx[t].text
    BY <1>1, UnknownGood
  <2>3. SeenSave(r, disk, shown)
    BY <1>1, <2>2 DEF SeenSave
  <2> HIDE DEF r
  <2> QED BY <1>1, <1>3, <2>1, <2>2, <2>3, SeenMoves
<1>7. tx[t].answer \in {"ok", "mismatch", "none", "unknown"}
  BY <1>1 DEF Good, Recorded
<1> QED BY <1>4, <1>5, <1>6, <1>7

LEMMA ReadBackSees ==
    ASSUME OwnInv, SeenInv, NEW t \in Tx, ReadBack(t)
    PROVE  Sees
<1>1. UNCHANGED <<disk, buf, held, conflict>> /\ shown \subseteq shown'
  BY DEF ReadBack
<1>2. CASE disk = tx[t].text /\ Acknowledged(t, disk) /\ shown' = shown \cup {disk}
  BY <1>1, <1>2, Known, AcknowledgedSees
<1>3. ASSUME NEW e \in Effect, Goes(t, Ended(e))
      PROVE  Sees
  <2> DEFINE r == Ended(e)
  <2>1. Goes(t, r) /\ ~r.wrote /\ SeenSave(r, disk', shown')
    BY <1>3, EndedGood, NothingSeen
  <2>2. SeenBuffer(buf', shown')
    BY <1>1, SeenGrows
  <2> HIDE DEF r
  <2> QED BY <1>1, <2>1, <2>2, SeenMoves
<1> QED BY <1>2, <1>3 DEF ReadBack, Effect

LEMMA WatchersToldSees ==
    ASSUME OwnInv, SeenInv, NEW t \in Tx, WatchersTold(t)
    PROVE  Sees
<1> DEFINE r == Ended("committed")
<1>1. /\ UNCHANGED <<disk, held, conflict, shown>> /\ tx[t].phase = "watch"
      /\ Goes(t, r) /\ buf \in Buffer /\ SeenBuffer(buf, shown)
      /\ SeenSave(tx[t], disk, shown)
  BY Facts, SeenGrows DEF WatchersTold
<1>2. ~r.wrote /\ SeenSave(r, disk, shown)
  BY EndedGood, NothingSeen DEF Effect
<1> HIDE DEF r
<1>3. SeenBuffer(WrittenBack(buf, t), shown)
  <2>1. WrittenBack(buf, t).saved = tx[t].file /\ WrittenBack(buf, t).hash = tx[t].text
    BY <1>1 DEF WrittenBack, Buffer
  <2> QED BY <1>1, <2>1 DEF SeenSave, SeenBuffer
<1>4. buf' \in {buf, WrittenBack(buf, t)}
  BY DEF WatchersTold
<1> QED BY <1>1, <1>2, <1>3, <1>4, SeenMoves

(* The user edits, opens or reloads.                                        *)
LEMMA EditsSee ==
    ASSUME OwnInv, SeenInv,
           \/ \E x \in Text : Type(x)
           \/ StyleChanged \/ CloseTab \/ CleanupDone \/ CleanupFailed
           \/ \E t \in Tx : ResolveRow(t)
           \/ \E q \in Reader : NativeRead(q)
           \/ \E o \in Opener : OpenFile(o) \/ OpenAfterCleanup(o)
    PROVE  Sees
<1>1. UNCHANGED <<disk, tx, held, conflict, shown>>
  BY DEF Type, StyleChanged, CloseTab, CleanupDone, CleanupFailed, ResolveRow,
         NativeRead, OpenFile, OpenAfterCleanup
<1>2. \/ buf' \in {buf, NoBuffer, Loading}
      \/ \E x \in Text : Type(x)
  BY DEF StyleChanged, CloseTab, CleanupDone, CleanupFailed, ResolveRow,
         NativeRead, OpenFile, OpenAfterCleanup, ReadUnlessOpen
<1>3. SeenBuffer(buf', shown')
  <2>1. CASE buf' \in {buf, NoBuffer, Loading}
    BY <1>1, <2>1, NothingSeen DEF SeenInv
  <2>2. ASSUME NEW x \in Text, Type(x)
        PROVE  SeenBuffer(buf', shown')
    <3>1. /\ Sound(buf) /\ buf.there /\ ~buf.loading /\ SeenBuffer(buf, shown)
          /\ buf' = Edited(buf, x)
      BY <2>2, Facts, SeenGrows DEF Type, Editable
    <3>2. LET c == Edited(buf, x)
          IN  c.there /\ c.saved = buf.saved /\ c.hash = buf.hash
      BY <3>1, EditedSound
    <3> QED BY <1>1, <3>1, <3>2 DEF SeenBuffer
  <2> QED BY <1>2, <2>1, <2>2
<1> QED BY <1>1, <1>3, SeenGrows, SeenRests

LEMMA OpenEndsSee ==
    ASSUME OwnInv, SeenInv, NEW o \in Opener, OpenDone(o) \/ OpenFailed(o)
    PROVE  Sees
<1>1. UNCHANGED <<disk, tx, held, conflict>> /\ shown \subseteq shown'
  BY DEF OpenDone, OpenFailed
<1>2. SeenBuffer(buf', shown')
  <2>1. CASE OpenDone(o)
    <3> DEFINE x == io[o]
    <3>1. x \in Text /\ buf' = Loaded(x) /\ x \in shown'
      BY <2>1 DEF OpenDone
    <3> HIDE DEF x
    <3>2. Loaded(x).saved = x /\ Loaded(x).hash = x
      BY <3>1, LoadedSound
    <3> QED BY <3>1, <3>2 DEF SeenBuffer
  <2>2. CASE OpenFailed(o)
    <3> DEFINE b == IF buf.there THEN buf ELSE Loading
               c == [b EXCEPT !.loading = FALSE, !.saving = FALSE]
    <3>1. Sound(b) /\ SeenBuffer(b, shown)
      BY Facts, LoadingSound, NothingSeen, SeenGrows
    <3>2. buf' = c /\ c.text \in shown'
      BY <2>2 DEF OpenFailed
    <3> HIDE DEF b
    <3>3. Content(c) = Content(b)
      BY <3>1, ReadSound
    <3> HIDE DEF c
    <3> QED BY <1>1, <3>1, <3>2, <3>3 DEF SeenBuffer, Content
  <2> QED BY <2>1, <2>2
<1> QED BY <1>1, <1>2, SeenGrows, SeenRests

LEMMA ReloadSees ==
    ASSUME OwnInv, SeenInv, Reload
    PROVE  Sees
<1> DEFINE c == [buf EXCEPT !.loading = TRUE]
<1>1. /\ UNCHANGED <<disk, tx, conflict, shown>> /\ buf' = c /\ SeenBuffer(buf, shown)
      /\ held'["reload"] = buf /\ held'["external"] = held["external"]
  BY Facts, SeenGrows DEF Reload
<1>2. Content(c) = Content(buf) /\ c.loading
  BY Facts, ReadSound DEF Reload
<1> HIDE DEF c
<1>3. SeenBuffer(c, shown)
  BY <1>1, <1>2, SeenSame
<1> QED BY <1>1, <1>3, SeenGrows, SeenRests

LEMMA ReloadedSees ==
    ASSUME OwnInv, SeenInv, NEW x \in Text, NEW s, shown \subseteq s,
           buf.there => x \in s
    PROVE  SeenBuffer(Reloaded(buf, x), s)
<1>1. Sound(buf) /\ SeenBuffer(buf, s)
  BY Facts, SeenGrows
<1>2. LET c == Reloaded(buf, x)
      IN  /\ buf.there => c.saved = x /\ c.hash = x
          /\ ~buf.there => c = buf
  BY <1>1, ReloadedSound
<1> QED BY <1>1, <1>2 DEF SeenBuffer

LEMMA ReloadEndsSee ==
    ASSUME OwnInv, SeenInv, ReloadDone \/ ReloadFailed
    PROVE  Sees
<1>1. /\ UNCHANGED <<disk, tx, conflict>> /\ shown \subseteq shown'
      /\ held'["reload"] = NoBuffer /\ held'["external"] = held["external"]
  BY Facts DEF ReloadDone, ReloadFailed
<1>2. SeenBuffer(buf', shown')
  <2>1. CASE ReloadDone
    BY <1>1, <2>1, ReloadedSees DEF ReloadDone
  <2>2. CASE ReloadFailed
    <3> DEFINE b == IF buf.there THEN buf ELSE held["reload"]
               c == [b EXCEPT !.loading = FALSE, !.saving = FALSE]
    <3>1. Sound(b) /\ SeenBuffer(b, shown)
      BY Facts, SeenGrows
    <3>2. buf' = c /\ c.text \in shown'
      BY <2>2 DEF ReloadFailed
    <3> HIDE DEF b
    <3>3. Content(c) = Content(b)
      BY <3>1, ReadSound
    <3> HIDE DEF c
    <3> QED BY <1>1, <3>1, <3>2, <3>3 DEF SeenBuffer, Content
  <2> QED BY <2>1, <2>2
<1> QED BY <1>1, <1>2, NothingSeen, SeenGrows, SeenRests

(* Other programs, and what the editor makes of it.                         *)
LEMMA ExternalWriteSees ==
    ASSUME OwnInv, SeenInv, ~ExternalDuringWrite, NEW x \in Text, ExternalWrite(x)
    PROVE  Sees
<1>1. /\ UNCHANGED <<buf, tx, held, conflict, shown>>
      /\ \A t \in Tx : tx[t].phase \notin {"checked", "replaced"}
  BY DEF ExternalWrite
<1>2. \A t \in Tx : SeenSave(tx'[t], disk', shown')
  BY <1>1 DEF SeenInv, SeenSave
<1>3. SeenStep
  BY <1>1 DEF SeenStep
<1> QED BY <1>1, <1>2, <1>3 DEF Sees, SeenInv

LEMMA ExternalChangeSees ==
    ASSUME OwnInv, SeenInv, ExternalChange
    PROVE  Sees
<1>1. /\ UNCHANGED <<disk, buf, tx, conflict, shown>>
      /\ held'["external"] \in {buf, held["external"]}
      /\ held'["reload"] = held["reload"]
  BY Facts DEF ExternalChange
<1> QED BY <1>1, SeenGrows, SeenRests

LEMMA ExternalReadEndsSee ==
    ASSUME OwnInv, SeenInv, ExternalRead \/ ExternalReadFailed
    PROVE  Sees
<1>1. /\ UNCHANGED <<disk, tx>>
      /\ held'["external"] = NoBuffer /\ held'["reload"] = held["reload"]
  BY Facts DEF ExternalRead, ExternalReadFailed
<1>2. /\ SeenBuffer(buf', shown') /\ shown \subseteq shown'
      /\ conflict' # None => conflict' \in shown'
  <2>1. CASE ExternalRead
    <3> DEFINE x == io["external"]
               latest == IF buf.there THEN buf ELSE held["external"]
    <3>1. x \in Text /\ x # "idle"
      BY <2>1, TextAssumption DEF TextAssumption, ExternalRead
    <3>2. latest \in Buffer /\ latest.there /\ SeenBuffer(latest, shown)
      BY <3>1, Facts, SeenGrows DEF OwnInv, HeldSound
    <3>3. CASE /\ buf' = [latest EXCEPT !.saved = x, !.hash = x, !.dirty = FALSE]
               /\ shown' = shown \cup {x} /\ UNCHANGED conflict
      <4> HIDE DEF x, latest
      <4>1. buf'.saved = x /\ buf'.hash = x
        BY <3>2, <3>3 DEF Buffer
      <4> QED BY <3>3, <4>1, SeenGrows DEF SeenBuffer
    <3>4. CASE /\ x # latest.text /\ x = latest.saved
               /\ buf' = [latest EXCEPT !.hash = x] /\ UNCHANGED <<shown, conflict>>
      <4> HIDE DEF x, latest
      <4>1. buf'.saved = x /\ buf'.hash = x /\ x \in shown
        BY <3>2, <3>4 DEF Buffer, SeenBuffer
      <4> QED BY <3>4, <4>1, SeenGrows DEF SeenBuffer
    <3>5. CASE /\ buf' = Reloaded(buf, x) /\ UNCHANGED conflict
               /\ shown' = IF buf.there THEN shown \cup {x} ELSE shown
      <4> HIDE DEF x, latest
      <4>1. shown \subseteq shown' /\ (buf.there => x \in shown')
        BY <3>5
      <4> QED BY <3>1, <3>5, <4>1, ReloadedSees, SeenGrows
    <3>6. CASE /\ conflict' = IF conflict = None THEN x ELSE conflict
               /\ shown' = shown \cup {conflict'} /\ UNCHANGED buf
      <4> HIDE DEF x, latest
      <4> QED BY <3>6, SeenGrows
    <3> QED BY <2>1, <3>3, <3>4, <3>5, <3>6 DEF ExternalRead
  <2>2. CASE ExternalReadFailed
    BY <2>2, SeenGrows DEF ExternalReadFailed
  <2> QED BY <2>1, <2>2
<1> QED BY <1>1, <1>2, NothingSeen, SeenGrows, SeenRests

LEMMA ConflictSees ==
    ASSUME OwnInv, SeenInv,
           (\E m \in Text : ResolveConflict(m)) \/ LoadDisk \/ DismissConflict
    PROVE  Sees
<1>1. /\ UNCHANGED <<disk, tx, held, shown>> /\ conflict' = None
      /\ conflict \in Text /\ conflict \in shown /\ buf \in Buffer
  BY Facts, SeenGrows DEF ResolveConflict, LoadDisk, DismissConflict
<1>2. SeenBuffer(buf', shown')
  <2>1. ASSUME NEW m \in Text, ResolveConflict(m), buf.there
        PROVE  SeenBuffer(buf', shown')
    <3> DEFINE d == (m # conflict)
    <3>1. buf' = [buf EXCEPT !.text = m, !.saved = conflict, !.hash = conflict,
                             !.dirty = d]
      BY <2>1 DEF ResolveConflict
    <3> HIDE DEF d
    <3>2. buf'.saved = conflict /\ buf'.hash = conflict
      BY <1>1, <3>1 DEF Buffer
    <3> QED BY <1>1, <3>2 DEF SeenBuffer
  <2>2. CASE buf' = buf
    BY <1>1, <2>2, SeenGrows
  <2>3. CASE LoadDisk
    BY <1>1, <2>3, ReloadedSees DEF LoadDisk
  <2> QED BY <2>1, <2>2, <2>3 DEF ResolveConflict, DismissConflict
<1> QED BY <1>1, <1>2, SeenGrows, SeenRests

LEMMA SeenInit == Init => SeenInv
BY NothingSeen DEF Init, SeenInv

LEMMA NextSees ==
    ASSUME ~ExternalDuringWrite, OwnInv, SeenInv, [Next]_vars
    PROVE  Sees
<1>1. ASSUME NEW x \in Text, Type(x) \/ ExternalWrite(x) \/ Merge(x)
      PROVE  Sees
  BY <1>1, EditsSee, ExternalWriteSees, ConflictSees DEF Merge
<1>2. ASSUME NEW t \in Tx, StartSave(t) \/ ResolveRow(t)
      PROVE  Sees
  BY <1>2, StartSaveSees, EditsSee
<1>3. ASSUME NEW t \in Tx, SaveStep(t)
      PROVE  Sees
  BY <1>3, StartSaveSees, HistoryDoneSees, NativeCheckSees, NativeReplaceSees,
     NativeRereadSees, WriteAnsweredSees, ReadBackSees, WatchersToldSees
     DEF SaveStep
<1>4. ASSUME NEW t \in Tx, NEW x \in Text, EditAndSave(t, x)
      PROVE  Sees
  BY <1>4, StartSaveSees
<1>5. ASSUME NEW r \in Reader, NativeRead(r)
      PROVE  Sees
  BY <1>5, EditsSee
<1>6. ASSUME NEW o \in Opener,
             OpenFile(o) \/ OpenAfterCleanup(o) \/ OpenDone(o) \/ OpenFailed(o)
      PROVE  Sees
  BY <1>6, EditsSee, OpenEndsSee
<1>7. CASE StyleChanged \/ Reload \/ ReloadDone \/ ReloadFailed
  BY <1>7, EditsSee, ReloadSees, ReloadEndsSee
<1>8. CASE CloseTab \/ CleanupDone \/ CleanupFailed
  BY <1>8, EditsSee
<1>9. CASE ExternalChange \/ ExternalRead \/ ExternalReadFailed
  BY <1>9, ExternalChangeSees, ExternalReadEndsSee
<1>10. CASE KeepLocal \/ LoadDisk \/ DismissConflict
  BY <1>10, Facts, ConflictSees DEF KeepLocal
<1>11. CASE UNCHANGED vars
  <2>1. UNCHANGED <<disk, buf, tx, held, conflict, shown>>
    BY <1>11 DEF vars
  <2> QED BY <2>1, SeenGrows, SeenRests
<1> QED BY <1>1, <1>2, <1>3, <1>4, <1>5, <1>6, <1>7, <1>8, <1>9, <1>10, <1>11
        DEF Next

(* As long as nobody writes the file while the native command runs, between *)
(* its check of the hash and its rename: a save that carries a hash         *)
(* replaces only content that an editor or the conflict dialog showed.      *)
THEOREM OverwriteCorrect ==
    ASSUME ~ExternalDuringWrite
    PROVE  Spec => OverwriteIsSeen
<1>1. OwnInv /\ SeenInv /\ [Next]_vars => SeenInv' /\ [SeenStep]_vars
  BY NextSees DEF Sees
<1>2. Spec => [](OwnInv /\ SeenInv)
  <2>1. OwnInv /\ SeenInv /\ [Next]_vars => (OwnInv /\ SeenInv)'
    BY <1>1, NextHolds DEF Holds
  <2>2. Init => OwnInv /\ SeenInv
    BY OwnInit, SeenInit
  <2> QED BY <2>1, <2>2, PTL DEF Spec
<1>3. Spec => [][SeenStep]_vars
  BY <1>1, <1>2, PTL DEF Spec
<1> QED BY <1>3 DEF OverwriteIsSeen, SeenStep
==============================================================================
