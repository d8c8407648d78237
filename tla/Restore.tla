------------------------------ MODULE Restore ------------------------------
(***************************************************************************)
(* Restoring a backup: src-tauri/src/backup/restore.rs.                    *)
(*                                                                         *)
(* A running application stages an archive: its files go to                *)
(* .pending_restore, are verified, and restore_intent.json is written.     *)
(* The next start finds the intent, copies the current files aside, puts   *)
(* the staged ones in their place and removes what was staged.  Every step *)
(* is one call of the file system; the process may end between two.        *)
(***************************************************************************)
EXTENDS Integers, FiniteSets

CONSTANTS
    File, Database,  \* what a backup may hold, and the databases among it
    Backup,    \* archives
    Contents,  \* the files each archive holds
    Original, Edited,  \* what the user's own files hold
    None,      \* no file, no archive
    Torn,      \* what a copy cut short leaves
    MaxStagings, MaxRestagings, MaxEnds, MaxFailures, MaxPuts
               \* bounds, by event

ASSUME ConstantsAssumption ==
    /\ Database \subseteq File
    /\ Contents \in [Backup -> SUBSET File]
    /\ {None, Torn, Original, Edited} \cap Backup = {}
    /\ Cardinality({None, Torn, Original, Edited}) = 4
    /\ {MaxStagings, MaxRestagings, MaxEnds, MaxFailures, MaxPuts}
          \subseteq Nat

VARIABLES
    app,      \* "down", "up", or what apply_pending_restore is at
    data,     \* the files in use
    copied,   \* pre_restore_safety_copy
    dir,      \* whether .pending_restore exists
    pending,  \* what it holds
    intent,   \* the archive restore_intent.json names
    staging,  \* the archive a running stage_restore is at
    todo,     \* files the loop under way has still to treat
    before,   \* history: the files when the application last ran
    used      \* how often each bounded event has happened

vars  == <<app, data, copied, dir, pending, intent, staging, todo, before, used>>
stage == <<dir, pending, intent, staging>>

Content == Backup \cup {None, Torn, Original, Edited}
Event   == {"staging", "restaging", "end", "failure", "put"}
Bound   == [staging |-> MaxStagings, restaging |-> MaxRestagings,
            end |-> MaxEnds, failure |-> MaxFailures, put |-> MaxPuts]

TypeOK ==
    /\ app \in {"down", "up", "copy", "replace", "fill", "clean", "settle"}
    /\ data \in [File -> Content] /\ copied \in [File -> Content]
    /\ dir \in BOOLEAN
    /\ pending \in [File -> Content]
    /\ ~dir => \A f \in File : pending[f] = None
    /\ intent \in Backup \cup {None}
    /\ staging \in Backup \cup {None}
    /\ todo \in SUBSET File
    /\ before \in [File -> Content]
    /\ used \in [Event -> Nat]

Empty == [f \in File |-> None]

Init ==
    /\ app = "up"
    /\ data = [f \in File |-> Original] /\ before = data
    /\ copied = Empty
    /\ dir = FALSE /\ pending = Empty
    /\ intent = None /\ staging = None
    /\ todo = {}
    /\ used = [e \in Event |-> 0]

Happens(e) == used[e] < Bound[e] /\ used' = [used EXCEPT ![e] = @ + 1]

-----------------------------------------------------------------------------
(* The application runs.                                                   *)

Work(f) ==
    /\ app = "up"
    /\ data' = [data EXCEPT ![f] = Edited]
    /\ UNCHANGED <<app, copied, stage, todo, before, used>>

(* stage_restore_to_dir: what was staged before goes first; its intent     *)
(* stays, whether a restore is waiting or one was carried out whose intent  *)
(* could not be removed any more.                                          *)
Stage(b) ==
    /\ app = "up" /\ staging = None
    /\ Happens(IF intent = None THEN "staging" ELSE "restaging")
    /\ staging' = b
    /\ dir' = TRUE /\ pending' = Empty
    /\ todo' = Contents[b]
    /\ UNCHANGED <<app, data, copied, intent, before>>

Extract(f) ==
    /\ app = "up" /\ staging # None
    /\ f \in todo
    /\ IF pending[f] = None
       THEN pending' = [pending EXCEPT ![f] = Torn] /\ todo' = todo
       ELSE /\ pending' = [pending EXCEPT ![f] = staging]
            /\ todo' = todo \ {f}
    /\ UNCHANGED <<app, data, copied, dir, intent, staging, before, used>>

(* The archive cannot be read to its end, or the disk is full.             *)
ExtractFails ==
    /\ app = "up" /\ staging # None /\ todo # {}
    /\ Happens("failure")
    /\ staging' = None /\ todo' = {}
    /\ UNCHANGED <<app, data, copied, dir, pending, intent, before>>

(* Mutant: an intent that does not wait for the verification.              *)
IntentFirst ==
    /\ app = "up" /\ staging # None /\ intent # staging
    /\ intent' = staging
    /\ UNCHANGED <<app, data, copied, dir, pending, staging, todo, before, used>>

(* Every file has its checksum.                                            *)
WriteIntent ==
    /\ app = "up" /\ staging # None /\ todo = {}
    /\ intent' = staging /\ staging' = None
    /\ UNCHANGED <<app, data, copied, dir, pending, todo, before, used>>

ChecksumDiffers ==
    /\ app = "up" /\ staging # None /\ todo = {}
    /\ Happens("failure")
    /\ dir' = FALSE /\ pending' = Empty
    /\ staging' = None
    /\ UNCHANGED <<app, data, copied, intent, todo, before>>

(* The process ends: closed, killed or without power.                      *)
End ==
    /\ app # "down"
    /\ Happens("end")
    /\ app' = "down"
    /\ before' = IF app = "up" THEN data ELSE before
    /\ staging' = None /\ todo' = {}
    /\ UNCHANGED <<data, copied, dir, pending, intent>>

-----------------------------------------------------------------------------
(* apply_pending_restore, before any database is opened.                   *)

Launch ==
    /\ app = "down"
    /\ IF intent # None /\ dir
       THEN app' = "copy" /\ todo' = {f \in Database : data[f] # None}
       ELSE app' = "up" /\ todo' = {}
    /\ UNCHANGED <<data, copied, stage, before, used>>

(* One step of a loop over the files, and the end of the loop.             *)
Turn(at, f)        == app = at /\ f \in todo /\ todo' = todo \ {f} /\ app' = app
Over(at, then, fs) == app = at /\ todo = {} /\ app' = then /\ todo' = fs

(* Mutant: the staged file is copied aside, not the one in use.            *)
CopyAsideStaged(f) ==
    /\ Turn("copy", f)
    /\ copied' = [copied EXCEPT ![f] = pending[f]]
    /\ UNCHANGED <<data, stage, before, used>>

CopyAside(f) ==
    /\ Turn("copy", f)
    /\ copied' = [copied EXCEPT ![f] = data[f]]
    /\ UNCHANGED <<data, stage, before, used>>

CopiedAside ==
    /\ Over("copy", "replace", {f \in File : pending[f] # None})
    /\ UNCHANGED <<data, copied, stage, before, used>>

(* replace_file: the file is removed, then the staged one copied.          *)
RemoveOld(f) ==
    /\ app = "replace" /\ f \in todo
    /\ data' = [data EXCEPT ![f] = None]
    /\ app' = "fill" /\ todo' = todo
    /\ UNCHANGED <<copied, stage, before, used>>

PutNew(f) ==
    /\ app = "fill" /\ f \in todo
    /\ data[f] \in {None, Torn}
    /\ IF data[f] = None
       THEN data' = [data EXCEPT ![f] = Torn] /\ UNCHANGED <<app, todo>>
       ELSE /\ data' = [data EXCEPT ![f] = pending[f]]
            /\ app' = "replace" /\ todo' = todo \ {f}
    /\ UNCHANGED <<copied, stage, before, used>>

(* A copy that fails is passed over.                                       *)
PutFails(f) ==
    /\ app = "fill" /\ f \in todo /\ data[f] \in {None, Torn}
    /\ Happens("put")
    /\ app' = "replace" /\ todo' = todo \ {f}
    /\ UNCHANGED <<data, copied, stage, before>>

Replaced ==
    /\ Over("replace", "clean", {f \in File : pending[f] # None})
    /\ UNCHANGED <<data, copied, stage, before, used>>

(* remove_dir_all.                                                         *)
RemoveStaged(f) ==
    /\ Turn("clean", f)
    /\ pending' = [pending EXCEPT ![f] = None]
    /\ UNCHANGED <<data, copied, dir, intent, staging, before, used>>

(* Mutant: cleaning up starts over as long as the intent is there.         *)
RemoveIntentLater ==
    /\ app = "settle"
    /\ app' = "copy" /\ todo' = {}
    /\ UNCHANGED <<data, copied, stage, before, used>>

RemoveDir ==
    /\ Over("clean", "settle", {})
    /\ dir' = FALSE
    /\ UNCHANGED <<data, copied, pending, intent, staging, before, used>>

RemoveIntent ==
    /\ app = "settle"
    /\ app' = "up"
    /\ intent' = None
    /\ UNCHANGED <<data, copied, dir, pending, staging, todo, before, used>>

-----------------------------------------------------------------------------
Start ==
    \/ Launch \/ CopiedAside \/ Replaced \/ RemoveDir \/ RemoveIntent
    \/ \E f \in File : \/ CopyAside(f) \/ RemoveOld(f) \/ PutNew(f)
                       \/ PutFails(f) \/ RemoveStaged(f)

Next ==
    \/ Start \/ End
    \/ WriteIntent \/ ExtractFails \/ ChecksumDiffers
    \/ \E f \in File : Work(f) \/ Extract(f)
    \/ \E b \in Backup : Stage(b)

Spec == Init /\ [][Next]_vars

(* The user starts the application again, and a start goes on.             *)
FairSpec == Spec /\ WF_vars(Start)

-----------------------------------------------------------------------------
(* The files the user gets at the next start: once the application is      *)
(* down, staged files with an intent count as restored.                    *)
NextFiles ==
    IF app = "up" \/ intent = None THEN data
    ELSE [f \in File |-> IF pending[f] = None THEN data[f] ELSE pending[f]]

Promise == INSTANCE AtomicRestore WITH files <- NextFiles

(* A restore is all or nothing, whenever the process ends: the files of    *)
(* the next session change as AtomicRestore says, so none of them is ever  *)
(* missing or torn, unless a copy failed or a restore was staged over the  *)
(* intent of another.                                                      *)
RestoreIsAtomic ==
    /\ Promise!Init
    /\ [][Promise!Next \/ used'["put"] > 0 \/ used'["restaging"] > 0]_NextFiles

(* "a safety rollback copy of existing database files": the databases the  *)
(* user had are there until the end of a restore that nobody interrupts.   *)
RollbackIsKept ==
    app \in {"replace", "fill", "clean", "settle"} /\ used["end"] = 1
        => \A f \in Database : copied[f] = before[f]

(* A restore that was staged is carried out at a later start.              *)
RestoreHappens ==
    (app = "down" /\ intent # None /\ dir) ~> (app = "up" /\ ~dir)
=============================================================================
