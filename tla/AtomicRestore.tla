--------------------------- MODULE AtomicRestore ---------------------------
(***************************************************************************)
(* What restoring a backup promises: from one session of the application   *)
(* to the next the files change all at once, to what the backup holds, or  *)
(* not at all.                                                             *)
(***************************************************************************)
CONSTANTS
    File,      \* the files a backup may hold
    Backup,    \* the archives
    Contents,  \* the files each archive holds
    Original, Edited  \* what the user's own files hold

VARIABLE files  \* what the user has, or gets at the next start

Init == files = [f \in File |-> Original]

(* The application changes a file of its own.                              *)
Work == \E f \in File : files' = [files EXCEPT ![f] = Edited]

Restore == \E b \in Backup :
    files' = [f \in File |-> IF f \in Contents[b] THEN b ELSE files[f]]

Next == Work \/ Restore

Spec == Init /\ [][Next]_files
=============================================================================
