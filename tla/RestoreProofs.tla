--------------------------- MODULE RestoreProofs ---------------------------
(***************************************************************************)
(* Proofs about Restore, for any files, any archives and any numbers of    *)
(* stagings, ends of the process and failures: the types, that a restore   *)
(* implements AtomicRestore, and that the safety copy holds what the user  *)
(* had.                                                                    *)
(***************************************************************************)
EXTENDS Restore, TLAPS

LEMMA Constants ==
    /\ None \notin Backup /\ Database \subseteq File
    /\ \A b \in Backup : Contents[b] \subseteq File
    /\ \A e \in Event : Bound[e] \in Nat
<1>1. \A e \in Event : Bound[e] \in Nat
  BY ConstantsAssumption DEF ConstantsAssumption, Event, Bound
<1> QED BY <1>1, ConstantsAssumption DEF ConstantsAssumption

LEMMA Counted ==
    ASSUME TypeOK, NEW e \in Event, Happens(e)
    PROVE  /\ used' \in [Event -> Nat]
           /\ \A x \in Event : used'[x] = IF x = e THEN used[x] + 1 ELSE used[x]
BY DEF TypeOK, Happens

-----------------------------------------------------------------------------
(* Types.                                                                   *)

(* A directory that is gone holds nothing (TypeOK): a staging has one, and  *)
(* the start removes every staged file before it.                           *)
Typed ==
    /\ TypeOK
    /\ staging # None => dir
    /\ app # "up" => staging = None
    /\ app = "clean" => \A f \in File : pending[f] # None => f \in todo

LEMMA TypeInit == Init => Typed
<1> SUFFICES ASSUME Init PROVE Typed
  OBVIOUS
<1>1. Original \in Content /\ None \in Content
  BY DEF Content
<1> QED BY <1>1 DEF Init, Typed, TypeOK, Empty

LEMMA TypeStep == Typed /\ [Next]_vars => Typed'
<1> SUFFICES ASSUME Typed, [Next]_vars PROVE Typed'
  OBVIOUS
<1>0. /\ data \in [File -> Content] /\ copied \in [File -> Content]
      /\ pending \in [File -> Content] /\ before \in [File -> Content]
      /\ todo \in SUBSET File /\ used \in [Event -> Nat]
      /\ intent \in Backup \cup {None} /\ staging \in Backup \cup {None}
      /\ dir \in BOOLEAN /\ (~dir => \A f \in File : pending[f] = None)
      /\ app \in {"down", "up", "copy", "replace", "fill", "clean", "settle"}
      /\ TypeOK /\ (staging # None => dir) /\ (app # "up" => staging = None)
      /\ app = "clean" => \A f \in File : pending[f] # None => f \in todo
  BY DEF Typed, TypeOK
<1>c. /\ {Original, Edited, None, Torn} \subseteq Content /\ Backup \subseteq Content
      /\ Empty \in [File -> Content] /\ \A f \in File : Empty[f] = None
  BY DEF Content, Empty
<1>e. {"staging", "restaging", "end", "failure", "put"} \subseteq Event
  BY DEF Event
<1>1. CASE UNCHANGED vars
  BY <1>0, <1>1 DEF vars, stage, Typed, TypeOK
<1>2. CASE Launch
  <2>1. todo' \in SUBSET File
    BY <1>2, Constants DEF Launch
  <2> QED BY <1>0, <1>2, <2>1 DEF Launch, stage, Typed, TypeOK
<1>3. CASE CopiedAside
  BY <1>0, <1>3 DEF CopiedAside, Over, stage, Typed, TypeOK
<1>4. CASE Replaced
  BY <1>0, <1>4 DEF Replaced, Over, stage, Typed, TypeOK
<1>5. CASE RemoveDir
  BY <1>0, <1>5 DEF RemoveDir, Over, Typed, TypeOK
<1>6. CASE RemoveIntent
  BY <1>0, <1>6 DEF RemoveIntent, Typed, TypeOK
<1>7. ASSUME NEW f \in File, CopyAside(f) PROVE Typed'
  BY <1>0, <1>7 DEF CopyAside, Turn, stage, Typed, TypeOK
<1>8. ASSUME NEW f \in File, RemoveOld(f) PROVE Typed'
  <2>1. data' \in [File -> Content]
    BY <1>0, <1>c, <1>8 DEF RemoveOld
  <2> QED BY <1>0, <1>8, <2>1 DEF RemoveOld, stage, Typed, TypeOK
<1>9. ASSUME NEW f \in File, PutNew(f) PROVE Typed'
  <2>1. data' \in [File -> Content]
    BY <1>0, <1>c, <1>9 DEF PutNew
  <2>2. /\ todo' \in SUBSET File
        /\ app' \in {"down", "up", "copy", "replace", "fill", "clean", "settle"}
        /\ app # "up" /\ app' # "clean" /\ app' # "up"
    BY <1>0, <1>9 DEF PutNew
  <2>3. UNCHANGED <<copied, dir, pending, intent, staging, before, used>>
    BY <1>9 DEF PutNew, stage
  <2> QED BY <1>0, <2>1, <2>2, <2>3 DEF Typed, TypeOK
<1>10. ASSUME NEW f \in File, PutFails(f) PROVE Typed'
  <2>1. used' \in [Event -> Nat]
    BY <1>0, <1>e, <1>10, Counted DEF PutFails
  <2> QED BY <1>0, <1>10, <2>1 DEF PutFails, stage, Typed, TypeOK
<1>11. ASSUME NEW f \in File, RemoveStaged(f) PROVE Typed'
  <2>1. /\ pending' \in [File -> Content]
        /\ ~dir' => \A x \in File : pending'[x] = None
        /\ \A x \in File : pending'[x] # None => x \in todo'
    BY <1>0, <1>c, <1>11 DEF RemoveStaged, Turn
  <2> QED BY <1>0, <1>11, <2>1 DEF RemoveStaged, Turn, Typed, TypeOK
<1>12. CASE End
  <2>1. used' \in [Event -> Nat]
    BY <1>0, <1>e, <1>12, Counted DEF End
  <2>2. before' \in [File -> Content]
    BY <1>0, <1>12 DEF End
  <2> QED BY <1>0, <1>12, <2>1, <2>2 DEF End, Typed, TypeOK
<1>13. CASE WriteIntent
  BY <1>0, <1>13 DEF WriteIntent, Typed, TypeOK
<1>14. CASE ExtractFails
  <2>1. used' \in [Event -> Nat]
    BY <1>0, <1>e, <1>14, Counted DEF ExtractFails
  <2> QED BY <1>0, <1>14, <2>1 DEF ExtractFails, Typed, TypeOK
<1>15. CASE ChecksumDiffers
  <2>1. used' \in [Event -> Nat]
    BY <1>0, <1>e, <1>15, Counted DEF ChecksumDiffers
  <2> QED BY <1>0, <1>c, <1>15, <2>1 DEF ChecksumDiffers, Typed, TypeOK
<1>16. ASSUME NEW f \in File, Work(f) PROVE Typed'
  BY <1>0, <1>c, <1>16 DEF Work, stage, Typed, TypeOK
<1>17. ASSUME NEW f \in File, Extract(f) PROVE Typed'
  <2>1. pending' \in [File -> Content]
    BY <1>0, <1>c, <1>17 DEF Extract
  <2>2. todo' \in SUBSET File /\ dir
    BY <1>0, <1>17 DEF Extract
  <2>3. app = "up" /\ UNCHANGED <<app, data, copied, dir, intent, staging, before, used>>
    BY <1>17 DEF Extract
  <2> QED BY <1>0, <2>1, <2>2, <2>3 DEF Typed, TypeOK
<1>18. ASSUME NEW b \in Backup, Stage(b) PROVE Typed'
  <2>1. used' \in [Event -> Nat]
    BY <1>0, <1>e, <1>18, Counted DEF Stage
  <2>2. todo' \in SUBSET File
    BY <1>18, Constants DEF Stage
  <2> QED BY <1>0, <1>c, <1>18, <2>1, <2>2 DEF Stage, Typed, TypeOK
<1> QED BY <1>1, <1>2, <1>3, <1>4, <1>5, <1>6, <1>7, <1>8, <1>9, <1>10, <1>11,
           <1>12, <1>13, <1>14, <1>15, <1>16, <1>17, <1>18 DEF Next, Start

(* The files in use, the copies, the staged files and the intent keep their *)
(* types; without its directory nothing is staged.                          *)
THEOREM TypeCorrect == Spec => []TypeOK
<1>1. Typed => TypeOK
  BY DEF Typed
<1> QED BY <1>1, TypeInit, TypeStep, PTL DEF Spec

-----------------------------------------------------------------------------
(* A restore is all or nothing.                                             *)

(* No copy failed, and no restore was staged over the intent of another.    *)
Clear == used["put"] = 0 /\ used["restaging"] = 0

(* What archive b has of f.                                                 *)
Part(b, f) == IF f \in Contents[b] THEN b ELSE None

(* What is staged, once there is an intent: all of the archive it names, or *)
(* nothing more, when only the intent was left to be removed.               *)
StagedWhole ==
    /\ staging # None =>
          /\ intent = None /\ app = "up" /\ todo \subseteq Contents[staging]
          /\ \A f \in File \ todo : pending[f] = Part(staging, f)
    /\ app = "up" /\ intent # None =>
          \/ \A f \in File : pending[f] = Part(intent, f)
          \/ \A f \in File : pending[f] = None

(* How far the start has come.                                              *)
PutSoFar ==
    /\ app \in {"replace", "fill"} =>
          /\ \A f \in todo : pending[f] # None
          /\ \A f \in File \ todo : pending[f] \in {None, data[f]}
    /\ app = "clean" => \A f \in File : pending[f] \in {None, data[f]}

(* A start that applies something has an intent, until it is all removed.   *)
Applies ==
    /\ app \notin {"up", "down"} => intent # None
    /\ app = "settle" => ~dir

Atomic == Typed /\ Applies /\ (Clear => StagedWhole /\ PutSoFar)

LEMMA ClearBefore ==
    ASSUME TypeOK, [Next]_vars, Clear'
    PROVE  Clear
<1>0. used \in [Event -> Nat] /\ {"put", "restaging"} \subseteq Event
  BY DEF TypeOK, Event
<1>1. ASSUME NEW e \in Event, Happens(e) PROVE Clear
  <2>1. \A x \in Event : used'[x] = IF x = e THEN used[x] + 1 ELSE used[x]
    BY <1>1, Counted
  <2>2. used["put"] \in Nat /\ used["restaging"] \in Nat
    BY <1>0
  <2> QED BY <1>0, <2>1, <2>2 DEF Clear
<1>2. CASE used' = used
  BY <1>2 DEF Clear
<1>3. used' = used \/ \E e \in Event : Happens(e)
  BY DEF Next, Start, vars, stage, Event, Launch, CopiedAside, Replaced, RemoveDir,
         RemoveIntent, CopyAside, RemoveOld, PutNew, PutFails, RemoveStaged, End,
         WriteIntent, ExtractFails, ChecksumDiffers, Work, Extract, Stage
<1> QED BY <1>1, <1>2, <1>3

LEMMA AppliesStep == Typed /\ Applies /\ [Next]_vars => Applies'
BY DEF Typed, TypeOK, Applies, Next, Start, vars, stage, Over, Turn, Launch,
       CopiedAside, Replaced, RemoveDir, RemoveIntent, CopyAside, RemoveOld, PutNew,
       PutFails, RemoveStaged, End, WriteIntent, ExtractFails, ChecksumDiffers,
       Work, Extract, Stage

LEMMA AtomicStep ==
    ASSUME Atomic, [Next]_vars, Clear'
    PROVE  StagedWhole' /\ PutSoFar'
<1>0. /\ data \in [File -> Content] /\ pending \in [File -> Content]
      /\ todo \in SUBSET File /\ used \in [Event -> Nat]
      /\ (~dir => \A f \in File : pending[f] = None)
      /\ app \in {"down", "up", "copy", "replace", "fill", "clean", "settle"}
      /\ TypeOK /\ (app # "up" => staging = None)
      /\ staging \in Backup \cup {None}
  BY DEF Atomic, Typed, TypeOK
<1>w. StagedWhole /\ PutSoFar /\ Applies
  BY <1>0, ClearBefore DEF Atomic
<1>e. {"staging", "restaging", "end", "failure", "put"} \subseteq Event
  BY DEF Event
<1>1. CASE UNCHANGED vars
  BY <1>w, <1>1 DEF vars, stage, StagedWhole, PutSoFar
<1>2. CASE Launch
  BY <1>0, <1>w, <1>2 DEF Launch, stage, StagedWhole, PutSoFar
<1>3. CASE CopiedAside
  BY <1>0, <1>w, <1>3 DEF CopiedAside, Over, stage, StagedWhole, PutSoFar
<1>4. CASE Replaced
  BY <1>0, <1>w, <1>4 DEF Replaced, Over, stage, StagedWhole, PutSoFar
<1>5. CASE RemoveDir
  BY <1>0, <1>w, <1>5 DEF RemoveDir, Over, StagedWhole, PutSoFar
<1>6. CASE RemoveIntent
  BY <1>0, <1>w, <1>6 DEF RemoveIntent, StagedWhole, PutSoFar
<1>7. ASSUME NEW f \in File, CopyAside(f) PROVE StagedWhole' /\ PutSoFar'
  BY <1>0, <1>w, <1>7 DEF CopyAside, Turn, stage, StagedWhole, PutSoFar
<1>8. ASSUME NEW f \in File, RemoveOld(f) PROVE StagedWhole' /\ PutSoFar'
  BY <1>0, <1>w, <1>8 DEF RemoveOld, stage, StagedWhole, PutSoFar
<1>9. ASSUME NEW f \in File, PutNew(f) PROVE StagedWhole' /\ PutSoFar'
  BY <1>0, <1>w, <1>9 DEF PutNew, stage, StagedWhole, PutSoFar
<1>10. ASSUME NEW f \in File, PutFails(f) PROVE FALSE
  <2>1. used'["put"] = used["put"] + 1 /\ used["put"] \in Nat
    BY <1>0, <1>e, <1>10, Counted DEF PutFails
  <2> QED BY <2>1 DEF Clear
<1>11. ASSUME NEW f \in File, RemoveStaged(f) PROVE StagedWhole' /\ PutSoFar'
  BY <1>0, <1>w, <1>11 DEF RemoveStaged, Turn, StagedWhole, PutSoFar
<1>12. CASE End
  BY <1>0, <1>w, <1>12 DEF End, StagedWhole, PutSoFar
<1>13. CASE WriteIntent
  BY <1>0, <1>w, <1>13 DEF WriteIntent, StagedWhole, PutSoFar
<1>14. CASE ExtractFails
  BY <1>0, <1>w, <1>14 DEF ExtractFails, StagedWhole, PutSoFar
<1>15. CASE ChecksumDiffers
  BY <1>0, <1>w, <1>15 DEF ChecksumDiffers, StagedWhole, PutSoFar
<1>16. ASSUME NEW f \in File, Work(f) PROVE StagedWhole' /\ PutSoFar'
  BY <1>0, <1>w, <1>16 DEF Work, stage, StagedWhole, PutSoFar
<1>17. ASSUME NEW f \in File, Extract(f) PROVE StagedWhole' /\ PutSoFar'
  BY <1>0, <1>w, <1>17 DEF Extract, StagedWhole, PutSoFar, Part
<1>18. ASSUME NEW b \in Backup, Stage(b) PROVE StagedWhole' /\ PutSoFar'
  <2>1. CASE intent = None
    <3>1. \A f \in File : pending'[f] = None
      BY <1>18 DEF Stage, Empty
    <3> QED BY <1>0, <1>18, <2>1, <3>1 DEF Stage, StagedWhole, PutSoFar, Part
  <2>2. CASE intent # None
    <3>1. used'["restaging"] = used["restaging"] + 1 /\ used["restaging"] \in Nat
      BY <1>0, <1>e, <1>18, <2>2, Counted DEF Stage
    <3> QED BY <3>1 DEF Clear
  <2> QED BY <2>1, <2>2
<1> QED BY <1>1, <1>2, <1>3, <1>4, <1>5, <1>6, <1>7, <1>8, <1>9, <1>10, <1>11,
           <1>12, <1>13, <1>14, <1>15, <1>16, <1>17, <1>18 DEF Next, Start

(* Every step changes the files of the next session as AtomicRestore says.  *)
LEMMA PromiseStep ==
    ASSUME Atomic, Atomic', [Next]_vars, Clear'
    PROVE  [Promise!Next]_NextFiles
<1>0. /\ data \in [File -> Content] /\ pending \in [File -> Content]
      /\ todo \in SUBSET File /\ intent \in Backup \cup {None}
      /\ (~dir => \A f \in File : pending[f] = None)
      /\ app \in {"down", "up", "copy", "replace", "fill", "clean", "settle"}
      /\ (app # "up" => staging = None)
  BY DEF Atomic, Typed, TypeOK
<1>w. Clear /\ StagedWhole /\ PutSoFar /\ Applies
  BY <1>0, ClearBefore DEF Atomic, Typed
<1> DEFINE over == [f \in File |-> IF pending[f] = None THEN data[f] ELSE pending[f]]
<1>n. /\ app = "up" \/ intent = None => NextFiles = data
      /\ app # "up" /\ intent # None => NextFiles = over
      /\ app' = "up" \/ intent' = None => NextFiles' = data'
      /\ app' # "up" /\ intent' # None => NextFiles' = over'
  BY DEF NextFiles
<1>p. (\A f \in File : pending[f] = None) => over = data
  BY <1>0
<1>s. UNCHANGED <<data, pending>> => over' = over
  OBVIOUS
<1>q. ASSUME app # "up", app' # "up", intent # None, intent' = intent,
             \A f \in File :
                 (IF pending'[f] = None THEN data'[f] ELSE pending'[f])
                     = (IF pending[f] = None THEN data[f] ELSE pending[f])
      PROVE  NextFiles' = NextFiles
  <2>1. over' = over
    BY <1>q
  <2> QED BY <1>n, <1>q, <2>1
<1> HIDE DEF over
<1>u. ASSUME app = "up", app' = "up", data' = data PROVE NextFiles' = NextFiles
  BY <1>n, <1>u
<1>v. ASSUME app # "up", app' # "up", UNCHANGED <<data, pending, intent>>
      PROVE  NextFiles' = NextFiles
  BY <1>n, <1>s, <1>v
<1>1. CASE UNCHANGED vars
  BY <1>n, <1>s, <1>1 DEF vars, stage
<1>2. CASE Launch
  BY <1>0, <1>n, <1>p, <1>s, <1>2 DEF Launch, stage
<1>3. CASE CopiedAside \/ Replaced
  BY <1>v, <1>3 DEF CopiedAside, Replaced, Over, stage
<1>4. CASE RemoveDir
  BY <1>v, <1>4 DEF RemoveDir, Over
<1>5. CASE RemoveIntent
  BY <1>0, <1>w, <1>n, <1>p, <1>5 DEF RemoveIntent, Applies
<1>6. ASSUME NEW f \in File, CopyAside(f) PROVE NextFiles' = NextFiles
  BY <1>v, <1>6 DEF CopyAside, Turn, stage
<1>7. ASSUME NEW f \in File, RemoveOld(f) PROVE NextFiles' = NextFiles
  BY <1>0, <1>w, <1>q, <1>7 DEF RemoveOld, stage, PutSoFar, Applies
<1>8. ASSUME NEW f \in File, PutNew(f) PROVE NextFiles' = NextFiles
  BY <1>0, <1>w, <1>q, <1>8 DEF PutNew, stage, PutSoFar, Applies
<1>9. ASSUME NEW f \in File, PutFails(f) PROVE NextFiles' = NextFiles
  BY <1>v, <1>9 DEF PutFails, stage
<1>10. ASSUME NEW f \in File, RemoveStaged(f) PROVE NextFiles' = NextFiles
  BY <1>0, <1>w, <1>q, <1>10 DEF RemoveStaged, Turn, PutSoFar, Applies
<1>11. CASE End
  <2>1. CASE app # "up"
    BY <1>v, <1>11, <2>1 DEF End
  <2>2. CASE app = "up" /\ intent = None
    BY <1>n, <1>11, <2>2 DEF End
  <2>3. CASE app = "up" /\ intent # None
    <3>1. NextFiles = data /\ NextFiles' = over
      BY <1>n, <1>s, <1>11, <2>3 DEF End
    <3>2. CASE \A f \in File : pending[f] = None
      BY <1>p, <3>1, <3>2
    <3>3. CASE \A f \in File : pending[f] = Part(intent, f)
      <4>1. intent \in Backup /\ intent # None
        BY <1>0, <2>3
      <4>2. over = [f \in File |-> IF f \in Contents[intent] THEN intent ELSE data[f]]
        BY <3>3, <4>1 DEF over, Part
      <4>3. Promise!Restore
        BY <3>1, <4>1, <4>2 DEF Promise!Restore
      <4> QED BY <4>3 DEF Promise!Next
    <3> QED BY <1>w, <2>3, <3>2, <3>3 DEF StagedWhole
  <2> QED BY <2>1, <2>2, <2>3
<1>12. CASE WriteIntent \/ ExtractFails \/ ChecksumDiffers
  BY <1>u, <1>12 DEF WriteIntent, ExtractFails, ChecksumDiffers
<1>13. ASSUME NEW f \in File, Work(f) PROVE Promise!Next
  <2>1. NextFiles' = [NextFiles EXCEPT ![f] = Edited]
    BY <1>n, <1>13 DEF Work
  <2> QED BY <2>1 DEF Promise!Next, Promise!Work
<1>14. ASSUME NEW f \in File, Extract(f) PROVE NextFiles' = NextFiles
  BY <1>u, <1>14 DEF Extract
<1>15. ASSUME NEW b \in Backup, Stage(b) PROVE NextFiles' = NextFiles
  BY <1>u, <1>15 DEF Stage
<1> QED BY <1>1, <1>2, <1>3, <1>4, <1>5, <1>6, <1>7, <1>8, <1>9, <1>10, <1>11,
           <1>12, <1>13, <1>14, <1>15 DEF Next, Start

(* The start and the commands of a restore implement AtomicRestore: whenever*)
(* the process ends, the next session has all of the files of a backup or   *)
(* none, unless a copy failed or a restore was staged over another.         *)
THEOREM RestoreCorrect == Spec => RestoreIsAtomic
<1>1. Init => Atomic
  <2> SUFFICES ASSUME Init PROVE Applies /\ StagedWhole /\ PutSoFar
    BY TypeInit DEF Atomic
  <2> QED BY DEF Init, Applies, StagedWhole, PutSoFar
<1>2. Atomic /\ [Next]_vars => Atomic'
  BY TypeStep, AppliesStep, AtomicStep DEF Atomic
<1>3. Init => Promise!Init
  BY DEF Init, NextFiles, Promise!Init
<1>4. Atomic /\ Atomic' /\ [Next]_vars =>
          [Promise!Next \/ used'["put"] > 0 \/ used'["restaging"] > 0]_NextFiles
  <2> SUFFICES ASSUME Atomic, Atomic', [Next]_vars, ~Clear'
               PROVE  used'["put"] > 0 \/ used'["restaging"] > 0
    BY PromiseStep
  <2>1. used'["put"] \in Nat /\ used'["restaging"] \in Nat
    BY DEF Atomic, Typed, TypeOK, Event
  <2> QED BY <2>1 DEF Clear
<1> QED BY <1>1, <1>2, <1>3, <1>4, PTL DEF Spec, RestoreIsAtomic

-----------------------------------------------------------------------------
(* The safety copy.                                                         *)

(* Until the process ends for the first time nothing is copied; after that, *)
(* and until it ends again, what was copied are the files it ended with,    *)
(* which are changed only when every database is copied.                    *)
CopiedSoFar ==
    /\ used["end"] = 0 => app = "up" /\ copied = Empty
    /\ used["end"] = 1 /\ app \in {"down", "copy"} => before = data
    /\ used["end"] = 1 /\ app = "down" => copied = Empty
    /\ used["end"] = 1 /\ app = "copy" =>
          \A f \in Database \ todo : copied[f] = before[f]

Kept == Typed /\ CopiedSoFar /\ RollbackIsKept

LEMMA KeptStep == Kept /\ [Next]_vars => Kept'
<1> SUFFICES ASSUME Kept, [Next]_vars PROVE CopiedSoFar' /\ RollbackIsKept'
  BY TypeStep DEF Kept
<1>0. /\ TypeOK /\ CopiedSoFar /\ RollbackIsKept
      /\ copied \in [File -> Content] /\ data \in [File -> Content]
      /\ used["end"] \in Nat /\ "end" \in Event
      /\ \A e \in Event \ {"end"} : Happens(e) => used'["end"] = used["end"]
  <2>1. TypeOK /\ "end" \in Event
    BY DEF Kept, Typed, Event
  <2>2. \A e \in Event \ {"end"} : Happens(e) => used'["end"] = used["end"]
    BY <2>1, Counted
  <2> QED BY <2>1, <2>2 DEF Kept, TypeOK
<1>e. {"staging", "restaging", "failure", "put"} \subseteq Event \ {"end"}
  BY DEF Event
<1>1. ASSUME used'["end"] = used["end"], copied' = copied, before' = before,
             \/ app = "up" /\ app' = "up"
             \/ /\ app \in {"replace", "fill", "clean", "settle"}
                /\ app' \in {"replace", "fill", "clean", "settle", "up"}
      PROVE  CopiedSoFar' /\ RollbackIsKept'
  BY <1>0, <1>1 DEF CopiedSoFar, RollbackIsKept
<1>2. CASE UNCHANGED vars
  BY <1>0, <1>2 DEF vars, stage, CopiedSoFar, RollbackIsKept
<1>3. CASE Launch
  <2>1. \A f \in Database : f \notin {x \in Database : data[x] # None} => data[f] = None
    OBVIOUS
  <2>2. \A f \in Database : Empty[f] = None
    BY Constants DEF Empty
  <2> QED BY <1>0, <1>3, <2>1, <2>2 DEF Launch, CopiedSoFar, RollbackIsKept
<1>4. CASE CopiedAside
  BY <1>0, <1>4 DEF CopiedAside, Over, CopiedSoFar, RollbackIsKept
<1>5. ASSUME NEW f \in File, CopyAside(f) PROVE CopiedSoFar' /\ RollbackIsKept'
  <2>1. \A x \in File : copied'[x] = IF x = f THEN data[f] ELSE copied[x]
    BY <1>0, <1>5 DEF CopyAside
  <2> QED BY <1>0, <1>5, <2>1, Constants
          DEF CopyAside, Turn, CopiedSoFar, RollbackIsKept
<1>6. CASE End
  <2>1. used'["end"] = used["end"] + 1
    BY <1>0, <1>6, Counted DEF End
  <2>2. app' = "down" /\ copied' = copied /\ data' = data
    BY <1>6 DEF End
  <2>3. CASE used["end"] = 0
    BY <1>0, <1>6, <2>1, <2>2, <2>3 DEF End, CopiedSoFar, RollbackIsKept
  <2>4. CASE used["end"] # 0
    BY <1>0, <2>1, <2>4 DEF CopiedSoFar, RollbackIsKept
  <2> QED BY <2>3, <2>4
<1>7. CASE Replaced \/ RemoveDir \/ RemoveIntent
  BY <1>1, <1>7 DEF Replaced, RemoveDir, RemoveIntent, Over
<1>8. ASSUME NEW f \in File, RemoveOld(f) \/ PutNew(f) \/ RemoveStaged(f)
      PROVE  CopiedSoFar' /\ RollbackIsKept'
  BY <1>1, <1>8 DEF RemoveOld, PutNew, RemoveStaged, Turn
<1>9. ASSUME NEW f \in File, PutFails(f) PROVE CopiedSoFar' /\ RollbackIsKept'
  BY <1>0, <1>e, <1>1, <1>9 DEF PutFails
<1>10. CASE WriteIntent \/ ExtractFails \/ ChecksumDiffers
  BY <1>0, <1>e, <1>1, <1>10 DEF WriteIntent, ExtractFails, ChecksumDiffers
<1>11. ASSUME NEW f \in File, Work(f) \/ Extract(f)
       PROVE  CopiedSoFar' /\ RollbackIsKept'
  BY <1>1, <1>11 DEF Work, Extract
<1>12. ASSUME NEW b \in Backup, Stage(b) PROVE CopiedSoFar' /\ RollbackIsKept'
  BY <1>0, <1>e, <1>1, <1>12 DEF Stage
<1> QED BY <1>2, <1>3, <1>4, <1>5, <1>6, <1>7, <1>8, <1>9, <1>10, <1>11, <1>12
        DEF Next, Start

(* While a restore that nobody interrupts changes the files, the safety     *)
(* copy holds every database as it was when the application last ran.       *)
THEOREM RollbackCorrect == Spec => []RollbackIsKept
<1>1. Init => Kept
  <2> SUFFICES ASSUME Init PROVE CopiedSoFar /\ RollbackIsKept
    BY TypeInit DEF Kept
  <2>1. used["end"] = 0 /\ app = "up" /\ copied = Empty
    BY DEF Init, Event
  <2> QED BY <2>1 DEF CopiedSoFar, RollbackIsKept
<1>2. Kept => RollbackIsKept
  BY DEF Kept
<1> QED BY <1>1, <1>2, KeptStep, PTL DEF Spec
=============================================================================
