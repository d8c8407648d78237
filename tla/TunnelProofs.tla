---------------------------- MODULE TunnelProofs ----------------------------
(***************************************************************************)
(* Proofs about Tunnel, for any numbers of processes, tunnels, commands    *)
(* and forwarders.  The argument is the ownership of the module lock: it   *)
(* is a command's from StartAcquire to StartSpawn and the forwarder's from *)
(* then until its very last step.                                          *)
(***************************************************************************)
EXTENDS Tunnel, TLAPS

Reserving == StartAt \ {"register"}

(* A live forwarder holds the lock of its tunnel.                          *)
LiveHoldsLock == \A t \in Task : Live(t) => lock[task[t].id] = t

(* A start that has the lock and has not handed it over; it has replaced   *)
(* an earlier error by Starting before it spawns.                          *)
StartHoldsLock ==
    \A c \in Call :
        /\ call[c].at \in {"announce", "spawn"} => lock[call[c].id] = c
        /\ call[c].at = "spawn" => status[call[c].proc][call[c].id] # "error"

(* The incarnation a start will spawn is its own and not spawned yet.      *)
ReservationIsOwn ==
    \A c \in Call : call[c].at \in Reserving =>
        /\ call[c].task \in Task
        /\ task[call[c].task].at = "unborn"
        /\ \A d \in Call : call[d].task = call[c].task => d = c

(* What is registered, or about to be, is a forwarder of that tunnel.      *)
RegistryNames ==
    /\ \A p \in Process, i \in Id : running[p][i] # None =>
          task[running[p][i]].at # "unborn" /\ task[running[p][i]].id = i
    /\ \A c \in Call :
          /\ call[c].at = "register" =>
                /\ call[c].task \in Task
                /\ task[call[c].task].at # "unborn"
                /\ task[call[c].task].id = call[c].id
          /\ call[c].at = "bridges" => call[c].task \in Task

IInv == /\ TypeOK
        /\ LiveHoldsLock
        /\ StartHoldsLock
        /\ ReservationIsOwn
        /\ RegistryNames
        /\ ErrorMeansDown

-----------------------------------------------------------------------------
(* Type correctness, one lemma for each way a record is updated.           *)

LEMMA AtTypes ==
    /\ StartAt \subseteq CallAt /\ StopAt \subseteq CallAt
    /\ {"idle", "next"} \subseteq CallAt
    /\ LiveAt \subseteq TaskAt /\ {"unborn", "done"} \subseteq TaskAt
BY DEF CallAt, TaskAt

LEMMA TypeInit == Init => TypeOK
<1> SUFFICES ASSUME Init PROVE TypeOK
  OBVIOUS
<1>1. call \in [Call -> CallState]
  BY AtTypes DEF Init, CallState
<1>2. task \in [Task -> TaskState]
  <2>1. /\ {"unborn"} \subseteq TaskAt /\ {FALSE} \subseteq BOOLEAN
        /\ {0} \subseteq Nat
    BY AtTypes
  <2>2. [at : {"unborn"}, proc : Process, id : Id, aborted : {FALSE},
         bridges : {0}, loose : {FALSE}] \subseteq TaskState
    BY <2>1, Zenon DEF TaskState
  <2> QED
    BY <2>2 DEF Init
<1>3. /\ running \in [Process -> [Id -> Task \cup {None}]]
      /\ status \in [Process -> [Id -> Status]]
      /\ lock \in [Id -> Task \cup Call \cup {None}]
  BY DEF Init, Status
<1>4. stored \in SUBSET Id
  BY DEF Init
<1> QED
  BY <1>1, <1>2, <1>3, <1>4 DEF TypeOK

LEMMA GotoType ==
    ASSUME TypeOK, NEW c \in Call, NEW at \in CallAt, Goto(c, at)
    PROVE  call' \in [Call -> CallState]
BY DEF TypeOK, Goto, CallState

LEMMA ReturnType ==
    ASSUME TypeOK, NEW c \in Call, Return(c)
    PROVE  call' \in [Call -> CallState]
<1> DEFINE at == IF call[c].todo = {} THEN "idle" ELSE "next"
<1>1. at \in CallAt
  BY AtTypes
<1>2. call' = [call EXCEPT ![c] = [@ EXCEPT !.at = at, !.task = None]]
  BY DEF Return
<1> HIDE DEF at
<1> QED
  BY <1>1, <1>2 DEF TypeOK, CallState

LEMMA TaskGotoType ==
    ASSUME TypeOK, NEW t \in Task, NEW at \in TaskAt, TaskGoto(t, at)
    PROVE  task' \in [Task -> TaskState]
BY DEF TypeOK, TaskGoto, TaskState

LEMMA SetStatusType ==
    ASSUME TypeOK, NEW p \in Process, NEW i \in Id, NEW s \in Status,
           SetStatus(p, i, s)
    PROVE  status' \in [Process -> [Id -> Status]]
BY DEF TypeOK, SetStatus

LEMMA UnlockedType ==
    ASSUME TypeOK, NEW t \in Task
    PROVE  Unlocked(t) \in [Id -> Task \cup Call \cup {None}]
BY DEF TypeOK, Unlocked, TaskState

LEMMA BeginType ==
    ASSUME TypeOK, NEW c \in Call, NEW p \in Process, NEW i \in Id,
           NEW op \in {"start", "stop", "delete"}, NEW todo \in SUBSET Id,
           Begin(c, p, i, op, todo)
    PROVE  call' \in [Call -> CallState]
<1>1. PICK t \in Task \cup {None}, at \in CallAt :
        call' = [call EXCEPT ![c] = [at |-> at, op |-> op, proc |-> p,
                                     id |-> i, todo |-> todo, task |-> t]]
  <2>1. CASE op = "start"
    BY <2>1 DEF Begin, CallAt, StartAt
  <2>2. CASE op = "stop"
    BY <2>2 DEF Begin, CallAt, StopAt
  <2>3. CASE op = "delete"
    BY <2>3 DEF Begin, CallAt, StopAt
  <2> QED
    BY <2>1, <2>2, <2>3
<1> QED
  BY <1>1 DEF TypeOK, CallState

LEMMA CallStepType ==
    ASSUME TypeOK, NEW c \in Call, CallStep(c),
           RegistryNames, ReservationIsOwn
    PROVE  TypeOK'
<1> DEFINE s == call[c]
<1> USE AtTypes
<1>0. s \in CallState
  BY DEF TypeOK
<1>1. CASE StartCheck(c)
  <2>1. call' \in [Call -> CallState]
    BY <1>1, ReturnType, GotoType DEF StartCheck, StartAt
  <2> QED
    BY <1>1, <2>1 DEF TypeOK, StartCheck
<1>2. CASE StartLoad(c)
  <2>1. call' \in [Call -> CallState]
    BY <1>2, ReturnType, GotoType DEF StartLoad, StartAt
  <2> QED
    BY <1>2, <2>1 DEF TypeOK, StartLoad
<1>3. CASE StartResolve(c)
  <2>1. call' \in [Call -> CallState]
    BY <1>3, ReturnType, GotoType DEF StartResolve, StartAt
  <2> QED
    BY <1>3, <2>1 DEF TypeOK, StartResolve
<1>4. CASE StartAcquire(c)
  <2>1. call' \in [Call -> CallState]
    BY <1>4, ReturnType, GotoType DEF StartAcquire, StartAt
  <2>2. lock' \in [Id -> Task \cup Call \cup {None}]
    BY <1>4 DEF TypeOK, StartAcquire
  <2> QED
    BY <1>4, <2>1, <2>2 DEF TypeOK, StartAcquire
<1>5. CASE StartAnnounce(c)
  <2>1. call' \in [Call -> CallState]
    BY <1>5, GotoType DEF StartAnnounce, StartAt
  <2>2. status' \in [Process -> [Id -> Status]]
    BY <1>0, <1>5, SetStatusType DEF StartAnnounce, Status, CallState
  <2> QED
    BY <1>5, <2>1, <2>2 DEF TypeOK, StartAnnounce
<1>6. CASE StartSpawn(c)
  <2>1. call' \in [Call -> CallState]
    BY <1>6, GotoType DEF StartSpawn, StartAt
  <2>2. s.task \in Task
    BY <1>6 DEF StartSpawn, ReservationIsOwn, Reserving, StartAt
  <2>3. task' \in [Task -> TaskState]
    BY <1>0, <1>6, <2>2, ConstantsAssumption
       DEF TypeOK, StartSpawn, CallState, TaskState, LiveAt
  <2>4. lock' \in [Id -> Task \cup Call \cup {None}]
    BY <1>6, <2>2 DEF TypeOK, StartSpawn
  <2> QED
    BY <1>6, <2>1, <2>3, <2>4 DEF TypeOK, StartSpawn
<1>7. CASE StartRegister(c)
  <2>1. call' \in [Call -> CallState]
    BY <1>7, ReturnType DEF StartRegister
  <2>2. running' \in [Process -> [Id -> Task \cup {None}]]
    BY <1>0, <1>7 DEF TypeOK, StartRegister, CallState
  <2> QED
    BY <1>7, <2>1, <2>2 DEF TypeOK, StartRegister
<1>8. CASE DeleteUnstore(c)
  <2>1. call' \in [Call -> CallState]
    BY <1>8, GotoType DEF DeleteUnstore, StopAt
  <2> QED
    BY <1>8, <2>1 DEF TypeOK, DeleteUnstore
<1>9. CASE StopRemove(c)
  <2> DEFINE t == running[s.proc][s.id]
  <2>1. t \in Task \cup {None}
    BY <1>0 DEF TypeOK, CallState
  <2>2. running' \in [Process -> [Id -> Task \cup {None}]]
    BY <1>0, <1>9 DEF TypeOK, StopRemove, CallState
  <2>3. CASE t = None
    <3>1. call' \in [Call -> CallState]
      BY <1>9, <2>3, GotoType DEF StopRemove, StopAt
    <3> QED
      BY <1>9, <2>2, <2>3, <3>1 DEF TypeOK, StopRemove
  <2>4. CASE t # None
    <3>0. /\ task' = [task EXCEPT ![t].aborted = TRUE]
          /\ call' = [call EXCEPT ![c] = [@ EXCEPT !.at = "bridges", !.task = t]]
          /\ t \in Task /\ "bridges" \in CallAt
      BY <1>9, <2>1, <2>4 DEF StopRemove, StopAt
    <3> HIDE DEF t
    <3>1. task' \in [Task -> TaskState]
      BY <3>0 DEF TypeOK, TaskState
    <3>2. call' \in [Call -> CallState]
      BY <3>0 DEF TypeOK, CallState
    <3> QED
      BY <1>9, <2>2, <3>1, <3>2 DEF TypeOK, StopRemove
  <2> QED
    BY <2>3, <2>4
<1>10. CASE StopBridges(c)
  <2>1. call' \in [Call -> CallState]
    BY <1>10, GotoType DEF StopBridges, StopAt
  <2>2. call[c].task \in Task
    BY <1>10 DEF StopBridges, RegistryNames
  <2>3. task' \in [Task -> TaskState]
    BY <1>10, <2>2 DEF TypeOK, StopBridges, TaskState
  <2> QED
    BY <1>10, <2>1, <2>3 DEF TypeOK, StopBridges
<1>11. CASE StopSettle(c)
  <2>1. call' \in [Call -> CallState]
    BY <1>11, ReturnType DEF StopSettle
  <2>2. status' \in [Process -> [Id -> Status]]
    BY <1>0, <1>11, SetStatusType DEF StopSettle, Status, CallState
  <2> QED
    BY <1>11, <2>1, <2>2 DEF TypeOK, StopSettle
<1>12. CASE CommandNext(c)
  <2>1. call' \in [Call -> CallState]
    BY <1>0, <1>12, BeginType DEF CommandNext, CallState
  <2> QED
    BY <1>12, <2>1 DEF TypeOK, CommandNext
<1> QED
  BY <1>1, <1>2, <1>3, <1>4, <1>5, <1>6, <1>7, <1>8, <1>9, <1>10, <1>11,
     <1>12 DEF CallStep

LEMMA TaskStepType ==
    ASSUME TypeOK, NEW t \in Task, TaskStep(t)
    PROVE  TypeOK'
<1> DEFINE s == task[t]
<1> USE AtTypes
<1>0. s \in TaskState
  BY DEF TypeOK
<1>1. CASE TaskConnect(t)
  BY <1>1, TaskGotoType DEF TypeOK, TaskConnect, LiveAt
<1>2. CASE TaskFail(t)
  BY <1>2, TaskGotoType DEF TypeOK, TaskFail, LiveAt
<1>3. CASE TaskReady(t)
  <2>1. task' \in [Task -> TaskState]
    BY <1>3, TaskGotoType DEF TaskReady, LiveAt
  <2>2. status' \in [Process -> [Id -> Status]]
    BY <1>0, <1>3, SetStatusType DEF TaskReady, Status, TaskState
  <2> QED
    BY <1>3, <2>1, <2>2 DEF TypeOK, TaskReady
<1>4. CASE TaskAccept(t)
  <2>1. task' \in [Task -> TaskState]
    BY <1>0, <1>4 DEF TypeOK, TaskAccept, TaskState
  <2> QED
    BY <1>4, <2>1 DEF TypeOK, TaskAccept
<1>5. CASE TaskPush(t)
  <2>1. task' \in [Task -> TaskState]
    <3> DEFINE n == s.bridges + 1
    <3>1. n \in Nat
      BY <1>0 DEF TaskState
    <3>2. task' = [task EXCEPT ![t] = [@ EXCEPT !.loose = FALSE, !.bridges = n]]
      BY <1>5 DEF TypeOK, TaskPush
    <3> HIDE DEF n
    <3> QED
      BY <3>1, <3>2 DEF TypeOK, TaskState
  <2> QED
    BY <1>5, <2>1 DEF TypeOK, TaskPush
<1>6. CASE BridgeEnd(t)
  <2>1. task' \in [Task -> TaskState]
    <3>1. CASE /\ s.bridges > 0
               /\ task' = [task EXCEPT ![t].bridges = s.bridges - 1]
      <4> DEFINE n == s.bridges - 1
      <4>1. n \in Nat
        BY <1>0, <3>1 DEF TaskState
      <4> HIDE DEF n
      <4> QED
        BY <3>1, <4>1 DEF TypeOK, TaskState, n
    <3>2. CASE task' = [task EXCEPT ![t].loose = FALSE]
      BY <1>0, <3>2 DEF TypeOK, TaskState
    <3> QED
      BY <1>6, <3>1, <3>2 DEF BridgeEnd
  <2> QED
    BY <1>6, <2>1 DEF TypeOK, BridgeEnd
<1>7. CASE TaskError(t)
  <2>1. task' \in [Task -> TaskState]
    BY <1>7, TaskGotoType DEF TaskError, LiveAt
  <2>2. status' \in [Process -> [Id -> Status]]
    BY <1>0, <1>7, SetStatusType DEF TaskError, Status, TaskState
  <2> QED
    BY <1>7, <2>1, <2>2 DEF TypeOK, TaskError
<1>8. CASE TaskCleanup(t)
  <2>1. task' \in [Task -> TaskState]
    <3>1. "exiting" \in TaskAt
      BY DEF LiveAt
    <3> QED
      BY <1>0, <1>8, <3>1 DEF TypeOK, TaskCleanup, TaskState
  <2>2. running' \in [Process -> [Id -> Task \cup {None}]]
    BY <1>0, <1>8 DEF TypeOK, TaskCleanup, TaskState
  <2> QED
    BY <1>8, <2>1, <2>2 DEF TypeOK, TaskCleanup
<1>9. CASE TaskExit(t)
  BY <1>9, TaskGotoType, UnlockedType DEF TypeOK, TaskExit
<1>10. CASE TaskCancel(t)
  BY <1>10, TaskGotoType, UnlockedType DEF TypeOK, TaskCancel
<1> QED
  BY <1>1, <1>2, <1>3, <1>4, <1>5, <1>6, <1>7, <1>8, <1>9, <1>10
     DEF TaskStep

LEMMA CrashType ==
    ASSUME TypeOK, NEW p \in Process, Crash(p)
    PROVE  TypeOK'
<1> USE AtTypes
<1>1. running' \in [Process -> [Id -> Task \cup {None}]]
  BY DEF TypeOK, Crash
<1>2. status' \in [Process -> [Id -> Status]]
  BY DEF TypeOK, Crash, Status
<1>3. lock' \in [Id -> Task \cup Call \cup {None}]
  BY DEF TypeOK, Crash
<1>4. ASSUME NEW c \in Call
      PROVE  call'[c] \in CallState
  <2>1. call[c] \in CallState
    BY DEF TypeOK
  <2>2. [call[c] EXCEPT !.at = "idle", !.todo = {}, !.task = None] \in CallState
    BY <2>1 DEF CallState
  <2> QED
    BY <2>1, <2>2 DEF Crash
<1>5. ASSUME NEW t \in Task
      PROVE  task'[t] \in TaskState
  <2>1. task[t] \in TaskState
    BY DEF TypeOK
  <2>2. [task[t] EXCEPT !.at = "done", !.bridges = 0, !.loose = FALSE] \in TaskState
    BY <2>1 DEF TaskState
  <2> QED
    BY <2>1, <2>2 DEF Crash
<1>6. call' \in [Call -> CallState] /\ task' \in [Task -> TaskState]
  BY <1>4, <1>5 DEF Crash
<1> QED
  BY <1>1, <1>2, <1>3, <1>6 DEF TypeOK, Crash

LEMMA CommandType ==
    ASSUME TypeOK, NEW c \in Call, NEW p \in Process,
           \/ \E i \in Id, op \in {"start", "stop", "delete"} : Command(c, p, i, op)
           \/ \E op \in {"start", "stop"}, ids \in SUBSET Id : CommandAll(c, p, op, ids)
    PROVE  TypeOK'
<1>1. ASSUME NEW i \in Id, NEW op \in {"start", "stop", "delete"},
             Command(c, p, i, op)
      PROVE  TypeOK'
  <2>1. call' \in [Call -> CallState]
    BY <1>1, BeginType DEF Command
  <2> QED
    BY <1>1, <2>1 DEF TypeOK, Command
<1>2. ASSUME NEW op \in {"start", "stop"}, NEW ids \in SUBSET Id,
             CommandAll(c, p, op, ids)
      PROVE  TypeOK'
  <2>1. call' \in [Call -> CallState]
    BY <1>2, AtTypes DEF TypeOK, CommandAll, CallState
  <2> QED
    BY <1>2, <2>1 DEF TypeOK, CommandAll
<1> QED
  BY <1>1, <1>2

-----------------------------------------------------------------------------
(* What a step of a forwarder can do to the facts above.                   *)

TaskEffect(t) ==
    /\ call' = call
    /\ \A u \in Task : /\ task'[u].id = task[u].id
                       /\ task'[u].proc = task[u].proc
                       /\ task'[u].at = "unborn" <=> task[u].at = "unborn"
                       /\ u # t => task'[u] = task[u]
    /\ task'[t].at \in LiveAt => task[t].at \in LiveAt /\ lock' = lock
    /\ \/ lock' = lock
       \/ task[t].at \in LiveAt /\ lock' = Unlocked(t)
    /\ \A p \in Process, i \in Id : running'[p][i] \in {running[p][i], None}
    /\ \A p \in Process, i \in Id : status'[p][i] = "error" =>
          \/ status[p][i] = "error"
          \/ p = task[t].proc /\ i = task[t].id /\ task'[t].at = "cleanup"
    /\ task'[t].at \in LiveAt \ {"cleanup", "exiting"} =>
          task[t].at \in LiveAt \ {"cleanup", "exiting"}

LEMMA TaskStepEffect ==
    ASSUME TypeOK, NEW t \in Task, TaskStep(t)
    PROVE  TaskEffect(t)
<1> DEFINE s == task[t]
<1>0. s \in TaskState
  BY DEF TypeOK
<1> USE <1>0 DEF TypeOK, TaskEffect, TaskState, LiveAt
<1>1. CASE TaskConnect(t)
  BY <1>1 DEF TaskConnect, TaskGoto
<1>2. CASE TaskFail(t)
  BY <1>2 DEF TaskFail, TaskGoto
<1>3. CASE TaskReady(t)
  BY <1>3 DEF TaskReady, TaskGoto, SetStatus
<1>4. CASE TaskAccept(t)
  BY <1>4 DEF TaskAccept
<1>5. CASE TaskPush(t)
  BY <1>5 DEF TaskPush
<1>6. CASE BridgeEnd(t)
  BY <1>6 DEF BridgeEnd
<1>7. CASE TaskError(t)
  BY <1>7 DEF TaskError, TaskGoto, SetStatus
<1>8. CASE TaskCleanup(t)
  BY <1>8 DEF TaskCleanup
<1>9. CASE TaskExit(t)
  BY <1>9 DEF TaskExit, TaskGoto
<1>10. CASE TaskCancel(t)
  BY <1>10 DEF TaskCancel, Cancellable, CancelPoints, TaskGoto
<1> QED
  BY <1>1, <1>2, <1>3, <1>4, <1>5, <1>6, <1>7, <1>8, <1>9, <1>10
     DEF TaskStep

LEMMA TaskEffectKeeps ==
    ASSUME IInv, TypeOK', NEW t \in Task, TaskEffect(t)
    PROVE  IInv'
<1>1. LiveHoldsLock'
  <2> SUFFICES ASSUME NEW u \in Task, Live(u)'
               PROVE  lock'[task'[u].id] = u
    BY DEF LiveHoldsLock
  <2>1. Live(u) /\ lock[task[u].id] = u /\ task[u].id \in Id
    BY DEF Live, TaskEffect, IInv, LiveHoldsLock, TypeOK, TaskState
  <2> QED
    BY <2>1 DEF TaskEffect, Unlocked, IInv, TypeOK, Live
<1>2. StartHoldsLock'
  <2> SUFFICES ASSUME NEW c \in Call
               PROVE  /\ call[c].at \in {"announce", "spawn"} =>
                            lock'[call[c].id] = c
                      /\ call[c].at = "spawn" =>
                            status'[call[c].proc][call[c].id] # "error"
    BY DEF StartHoldsLock, TaskEffect
  <2>1. c # t /\ call[c].id \in Id /\ call[c].proc \in Process
    BY ConstantsAssumption DEF IInv, TypeOK, CallState
  <2>2. call[c].at \in {"announce", "spawn"} => lock'[call[c].id] = c
    BY <2>1 DEF TaskEffect, Unlocked, IInv, TypeOK, StartHoldsLock
  <2>3. ASSUME call[c].at = "spawn"
        PROVE  status'[call[c].proc][call[c].id] # "error"
    <3>1. lock'[call[c].id] = c /\ lock[call[c].id] = c
      BY <2>2, <2>3 DEF IInv, StartHoldsLock
    <3>2. task'[t].at = "cleanup" => task[t].id # call[c].id
      BY <2>1, <3>1 DEF TaskEffect, IInv, LiveHoldsLock, Live, LiveAt
    <3> QED
      BY <2>1, <2>3, <3>2 DEF TaskEffect, IInv, StartHoldsLock
  <2> QED
    BY <2>2, <2>3
<1>3. ReservationIsOwn'
  BY DEF TaskEffect, IInv, ReservationIsOwn, Reserving
<1>4. RegistryNames'
  <2>1. ASSUME NEW p \in Process, NEW i \in Id, running'[p][i] # None
        PROVE  /\ task'[running'[p][i]].at # "unborn"
               /\ task'[running'[p][i]].id = i
    BY <2>1 DEF TaskEffect, IInv, TypeOK, RegistryNames
  <2> QED
    BY <2>1 DEF TaskEffect, IInv, RegistryNames
<1>5. ErrorMeansDown'
  <2> SUFFICES ASSUME NEW u \in Task, Live(u)',
                      status'[task'[u].proc][task'[u].id] = "error"
               PROVE  task'[u].at \in {"cleanup", "exiting"}
    BY DEF ErrorMeansDown
  <2>1. /\ task[u].proc \in Process /\ task[u].id \in Id
        /\ Live(u) /\ task'[u].proc = task[u].proc /\ task'[u].id = task[u].id
    BY DEF IInv, TypeOK, TaskState, TaskEffect, Live
  <2>2. CASE status[task[u].proc][task[u].id] = "error"
    BY <2>1, <2>2 DEF IInv, ErrorMeansDown, TaskEffect, Live, LiveAt
  <2>3. CASE task[u].id = task[t].id /\ task'[t].at = "cleanup"
    BY <2>1, <2>3 DEF IInv, LiveHoldsLock, TaskEffect, Live, LiveAt
  <2> QED
    BY <2>1, <2>2, <2>3 DEF TaskEffect
<1> QED
  BY <1>1, <1>2, <1>3, <1>4, <1>5 DEF IInv

-----------------------------------------------------------------------------
(* Steps of a command that neither gain, hand over nor register anything.  *)

Quiet(c) ==
    /\ task' = task /\ lock' = lock /\ running' = running
    /\ \A d \in Call : d # c => call'[d] = call[d]
    /\ call'[c].at \notin {"announce", "spawn", "register", "bridges"}
    /\ \/ call'[c].task = None
       \/ /\ call'[c].task = call[c].task
          /\ call'[c].at \in Reserving => call[c].at \in Reserving
       \/ call'[c].task \in Task /\ Fresh(call'[c].task)
    /\ call'[c].at \in Reserving => call'[c].task \in Task
    /\ \A p \in Process, i \in Id :
          status'[p][i] = "error" => status[p][i] = "error"

LEMMA QuietKeeps ==
    ASSUME IInv, TypeOK', NEW c \in Call, Quiet(c)
    PROVE  IInv'
<1>1. LiveHoldsLock'
  BY DEF Quiet, IInv, LiveHoldsLock, Live
<1>2. StartHoldsLock'
  <2> SUFFICES ASSUME NEW d \in Call
               PROVE  /\ call'[d].at \in {"announce", "spawn"} =>
                            lock[call'[d].id] = d
                      /\ call'[d].at = "spawn" =>
                            status'[call'[d].proc][call'[d].id] # "error"
    BY DEF StartHoldsLock, Quiet
  <2>1. CASE d = c
    BY <2>1 DEF Quiet
  <2>2. CASE d # c
    <3>1. call'[d] = call[d] /\ call[d].proc \in Process /\ call[d].id \in Id
      BY <2>2 DEF Quiet, IInv, TypeOK, CallState
    <3> QED
      BY <3>1 DEF Quiet, IInv, StartHoldsLock
  <2> QED
    BY <2>1, <2>2
<1>3. ReservationIsOwn'
  <2> SUFFICES ASSUME NEW d \in Call, call'[d].at \in Reserving
               PROVE  /\ call'[d].task \in Task
                      /\ task[call'[d].task].at = "unborn"
                      /\ \A e \in Call : call'[e].task = call'[d].task => e = d
    BY DEF ReservationIsOwn, Quiet
  <2>0. \A e \in Call : e # c => call'[e] = call[e]
    BY DEF Quiet
  <2>1. CASE d = c
    <3>1. call'[c].task \in Task /\ call'[c].task # None
      BY <2>1, ConstantsAssumption DEF Quiet
    <3>2. CASE call'[c].task = call[c].task /\ call[c].at \in Reserving
      BY <2>0, <2>1, <3>1, <3>2 DEF IInv, ReservationIsOwn
    <3>3. CASE Fresh(call'[c].task)
      BY <2>0, <2>1, <3>1, <3>3 DEF Fresh
    <3> QED
      BY <2>1, <3>1, <3>2, <3>3 DEF Quiet
  <2>2. CASE d # c
    <3>1. /\ call'[d] = call[d] /\ call[d].at \in Reserving
          /\ call[d].task \in Task /\ task[call[d].task].at = "unborn"
          /\ \A e \in Call : call[e].task = call[d].task => e = d
      BY <2>0, <2>2 DEF IInv, ReservationIsOwn
    <3>2. call'[c].task # call[d].task
      BY <2>2, <3>1, ConstantsAssumption DEF Quiet, Fresh
    <3> QED
      BY <2>0, <3>1, <3>2
  <2> QED
    BY <2>1, <2>2
<1>4. RegistryNames'
  BY DEF Quiet, IInv, RegistryNames
<1>5. ErrorMeansDown'
  BY DEF Quiet, IInv, ErrorMeansDown, Live, TypeOK, TaskState
<1> QED
  BY <1>1, <1>2, <1>3, <1>4, <1>5 DEF IInv

LEMMA ReturnIsQuiet ==
    ASSUME TypeOK, NEW c \in Call, Return(c), status' = status,
           task' = task, lock' = lock, running' = running
    PROVE  Quiet(c)
BY DEF Return, Quiet, TypeOK, CallState, Reserving, StartAt

LEMMA BeginIsQuiet ==
    ASSUME TypeOK, NEW c \in Call, NEW p \in Process, NEW i \in Id,
           NEW op \in {"start", "stop", "delete"}, NEW todo \in SUBSET Id,
           Begin(c, p, i, op, todo),
           task' = task, lock' = lock, running' = running, status' = status
    PROVE  Quiet(c)
<1>1. CASE op = "start"
  <2>1. PICK t \in Task :
          /\ Fresh(t)
          /\ call' = [call EXCEPT ![c] = [at |-> "check", op |-> op, proc |-> p,
                                          id |-> i, todo |-> todo, task |-> t]]
    BY <1>1 DEF Begin
  <2> QED
    BY <2>1 DEF Quiet, TypeOK
<1>2. CASE op # "start"
  <2>1. PICK at \in {"remove", "unstore"} :
          call' = [call EXCEPT ![c] = [at |-> at, op |-> op, proc |-> p,
                                       id |-> i, todo |-> todo, task |-> None]]
    <3>1. CASE op = "stop"
      BY <3>1 DEF Begin
    <3>2. CASE op = "delete"
      BY <3>2 DEF Begin
    <3> QED
      BY <1>2, <3>1, <3>2
  <2> QED
    BY <2>1 DEF Quiet, TypeOK, Reserving, StartAt
<1> QED
  BY <1>1, <1>2

LEMMA CommandKeeps ==
    ASSUME IInv, NEW c \in Call, NEW p \in Process,
           \/ \E i \in Id, op \in {"start", "stop", "delete"} : Command(c, p, i, op)
           \/ \E op \in {"start", "stop"}, ids \in SUBSET Id : CommandAll(c, p, op, ids)
    PROVE  IInv'
<1>0. TypeOK'
  BY CommandType DEF IInv
<1>1. ASSUME NEW i \in Id, NEW op \in {"start", "stop", "delete"},
             Command(c, p, i, op)
      PROVE  Quiet(c)
  BY <1>1, BeginIsQuiet DEF Command, IInv
<1>2. ASSUME NEW op \in {"start", "stop"}, NEW ids \in SUBSET Id,
             CommandAll(c, p, op, ids)
      PROVE  Quiet(c)
  BY <1>2 DEF CommandAll, IInv, TypeOK, Quiet, Reserving, StartAt
<1> QED
  BY <1>0, <1>1, <1>2, QuietKeeps

LEMMA AcquireKeeps ==
    ASSUME IInv, TypeOK', NEW c \in Call, StartAcquire(c)
    PROVE  IInv'
<1> DEFINE i == call[c].id
<1>1. CASE ~CanAcquire(i)
  BY <1>1, ReturnIsQuiet, QuietKeeps DEF StartAcquire, IInv
<1>2. CASE CanAcquire(i)
  <2>1. /\ call[c].at = "acquire" /\ lock[i] = None /\ i \in Id
        /\ lock' = [lock EXCEPT ![i] = c]
        /\ call' = [call EXCEPT ![c].at = "announce"]
        /\ UNCHANGED <<stored, running, status, task>>
    BY <1>2 DEF StartAcquire, CanAcquire, LockFree, Goto, IInv, TypeOK, CallState
  <2>2. LiveHoldsLock'
    BY <2>1, ConstantsAssumption
       DEF IInv, LiveHoldsLock, Live, TypeOK, TaskState
  <2>3. StartHoldsLock'
    BY <2>1, ConstantsAssumption DEF IInv, StartHoldsLock, TypeOK, CallState
  <2>4. ReservationIsOwn'
    BY <2>1 DEF IInv, ReservationIsOwn, TypeOK, CallState, Reserving, StartAt
  <2>5. RegistryNames'
    BY <2>1 DEF IInv, RegistryNames, TypeOK, CallState
  <2>6. ErrorMeansDown'
    BY <2>1 DEF IInv, ErrorMeansDown, Live
  <2> QED
    BY <2>2, <2>3, <2>4, <2>5, <2>6 DEF IInv
<1> QED
  BY <1>1, <1>2

LEMMA AnnounceKeeps ==
    ASSUME IInv, TypeOK', NEW c \in Call, StartAnnounce(c)
    PROVE  IInv'
<1>1. /\ call[c].at = "announce"
      /\ status' = [status EXCEPT ![call[c].proc][call[c].id] = "starting"]
      /\ call' = [call EXCEPT ![c].at = "spawn"]
      /\ UNCHANGED <<stored, running, lock, task>>
  BY DEF StartAnnounce, SetStatus, Goto
<1>2. LiveHoldsLock'
  BY <1>1 DEF IInv, LiveHoldsLock, Live
<1>3. StartHoldsLock'
  BY <1>1 DEF IInv, StartHoldsLock, TypeOK, CallState
<1>4. ReservationIsOwn'
  BY <1>1 DEF IInv, ReservationIsOwn, TypeOK, CallState, Reserving, StartAt
<1>5. RegistryNames'
  BY <1>1 DEF IInv, RegistryNames, TypeOK, CallState
<1>6. ErrorMeansDown'
  BY <1>1 DEF IInv, ErrorMeansDown, Live, TypeOK, CallState, TaskState
<1> QED
  BY <1>2, <1>3, <1>4, <1>5, <1>6 DEF IInv

LEMMA SpawnKeeps ==
    ASSUME IInv, TypeOK', NEW c \in Call, StartSpawn(c)
    PROVE  IInv'
<1> DEFINE s == call[c]  t == s.task
<1>1. /\ s.at = "spawn" /\ s.id \in Id /\ s.proc \in Process /\ t \in Task
      /\ task[t].at = "unborn" /\ \A d \in Call : call[d].task = t => d = c
      /\ lock[s.id] = c /\ status[s.proc][s.id] # "error"
  BY DEF StartSpawn, IInv, StartHoldsLock, ReservationIsOwn, Reserving,
         StartAt, TypeOK, CallState
<1>2. /\ call' = [call EXCEPT ![c].at = "register"]
      /\ task' = [task EXCEPT ![t] =
            [at |-> "setup", proc |-> s.proc, id |-> s.id, aborted |-> FALSE,
             bridges |-> 0, loose |-> FALSE]]
      /\ lock' = [lock EXCEPT ![s.id] = t]
      /\ UNCHANGED <<stored, running, status>>
  BY DEF StartSpawn, Goto
<1>3. /\ \A d \in Call : d # c => call'[d] = call[d]
      /\ call'[c].at = "register" /\ call'[c].task = t /\ call'[c].id = s.id
      /\ \A u \in Task : u # t => task'[u] = task[u]
      /\ task'[t].at = "setup" /\ task'[t].id = s.id /\ task'[t].proc = s.proc
      /\ lock'[s.id] = t /\ \A i \in Id : i # s.id => lock'[i] = lock[i]
  BY <1>1, <1>2 DEF IInv, TypeOK, CallState
<1>4. LiveHoldsLock'
  <2> SUFFICES ASSUME NEW u \in Task, Live(u)'
               PROVE  lock'[task'[u].id] = u
    BY DEF LiveHoldsLock
  <2>1. CASE u = t
    BY <1>3, <2>1
  <2>2. CASE u # t
    <3>1. Live(u) /\ task'[u] = task[u] /\ task[u].id \in Id
      BY <1>3, <2>2 DEF Live, IInv, TypeOK, TaskState
    <3>2. lock[task[u].id] = u /\ u # c
      BY <3>1, ConstantsAssumption DEF IInv, LiveHoldsLock
    <3> QED
      BY <1>1, <1>3, <3>1, <3>2
  <2> QED
    BY <2>1, <2>2
<1>5. StartHoldsLock'
  BY <1>1, <1>2, <1>3, ConstantsAssumption
     DEF IInv, StartHoldsLock, TypeOK, CallState
<1>6. ReservationIsOwn'
  BY <1>1, <1>3 DEF IInv, ReservationIsOwn, Reserving
<1>7. RegistryNames'
  <2>1. ASSUME NEW p \in Process, NEW i \in Id, running'[p][i] # None
        PROVE  /\ task'[running'[p][i]].at # "unborn"
               /\ task'[running'[p][i]].id = i
    BY <1>1, <1>2, <1>3, <2>1 DEF IInv, RegistryNames, TypeOK
  <2> QED
    BY <1>1, <1>3, <2>1 DEF IInv, RegistryNames
<1>8. ErrorMeansDown'
  BY <1>1, <1>2, <1>3 DEF IInv, ErrorMeansDown, Live
<1> QED
  BY <1>4, <1>5, <1>6, <1>7, <1>8 DEF IInv

LEMMA RegisterKeeps ==
    ASSUME IInv, TypeOK', NEW c \in Call, StartRegister(c)
    PROVE  IInv'
<1> DEFINE s == call[c]
<1>1. /\ s.at = "register" /\ s.id \in Id /\ s.proc \in Process
      /\ s.task \in Task /\ task[s.task].at # "unborn" /\ task[s.task].id = s.id
      /\ running' = [running EXCEPT ![s.proc][s.id] = s.task]
      /\ UNCHANGED <<stored, status, lock, task>>
  BY DEF StartRegister, IInv, RegistryNames, TypeOK, CallState
<1>2. /\ \A d \in Call : d # c => call'[d] = call[d]
      /\ call'[c].at \in {"idle", "next"} /\ call'[c].task = None
  BY DEF StartRegister, Return, IInv, TypeOK, CallState
<1>3. LiveHoldsLock'
  BY <1>1 DEF IInv, LiveHoldsLock, Live
<1>4. StartHoldsLock'
  BY <1>1, <1>2 DEF IInv, StartHoldsLock
<1>5. ReservationIsOwn'
  BY <1>1, <1>2, ConstantsAssumption
     DEF IInv, ReservationIsOwn, Reserving, StartAt
<1>6. RegistryNames'
  <2>1. ASSUME NEW p \in Process, NEW i \in Id, running'[p][i] # None
        PROVE  /\ task'[running'[p][i]].at # "unborn"
               /\ task'[running'[p][i]].id = i
    BY <1>1, <2>1 DEF IInv, RegistryNames, TypeOK
  <2> QED
    BY <1>1, <1>2, <2>1 DEF IInv, RegistryNames
<1>7. ErrorMeansDown'
  BY <1>1 DEF IInv, ErrorMeansDown, Live
<1> QED
  BY <1>3, <1>4, <1>5, <1>6, <1>7 DEF IInv

LEMMA RemoveKeeps ==
    ASSUME IInv, TypeOK', NEW c \in Call, StopRemove(c)
    PROVE  IInv'
<1> DEFINE s == call[c]  t == running[s.proc][s.id]
<1>1. /\ s.at = "remove" /\ s.id \in Id /\ s.proc \in Process
      /\ t \in Task \cup {None}
      /\ t # None => task[t].at # "unborn" /\ task[t].id = s.id
      /\ running' = [running EXCEPT ![s.proc][s.id] = None]
      /\ UNCHANGED <<stored, status, lock>>
  BY DEF StopRemove, IInv, RegistryNames, TypeOK, CallState
<1>2. /\ \A d \in Call : d # c => call'[d] = call[d]
      /\ \/ call'[c].at = "settle" /\ call'[c].task = s.task
         \/ call'[c].at = "bridges" /\ call'[c].task = t /\ t \in Task
      /\ \A u \in Task : /\ task'[u].at = task[u].at
                         /\ task'[u].id = task[u].id
                         /\ task'[u].proc = task[u].proc
  <2>1. CASE t = None
    BY <1>1, <2>1 DEF StopRemove, Goto, IInv, TypeOK, CallState
  <2>2. CASE t # None
    <3>1. /\ call' = [call EXCEPT ![c] = [@ EXCEPT !.at = "bridges", !.task = t]]
          /\ task' = [task EXCEPT ![t].aborted = TRUE]
          /\ t \in Task
      BY <1>1, <2>2 DEF StopRemove
    <3> HIDE DEF t
    <3> QED
      BY <3>1 DEF IInv, TypeOK, CallState, TaskState
  <2> QED
    BY <2>1, <2>2
<1> HIDE DEF t
<1>3. LiveHoldsLock'
  BY <1>1, <1>2 DEF IInv, LiveHoldsLock, Live
<1>4. StartHoldsLock'
  BY <1>1, <1>2 DEF IInv, StartHoldsLock
<1>5. ReservationIsOwn'
  <2>1. call'[c].at \notin Reserving
    BY <1>2 DEF Reserving, StartAt
  <2> QED
    BY <1>1, <1>2, <2>1, ConstantsAssumption
       DEF IInv, ReservationIsOwn
<1>6. RegistryNames'
  <2>1. ASSUME NEW p \in Process, NEW i \in Id, running'[p][i] # None
        PROVE  /\ task'[running'[p][i]].at # "unborn"
               /\ task'[running'[p][i]].id = i
    <3>1. running'[p][i] = running[p][i] /\ running[p][i] \in Task
      BY <1>1, <2>1 DEF IInv, TypeOK
    <3> QED
      BY <1>2, <2>1, <3>1 DEF IInv, RegistryNames
  <2>2. ASSUME NEW d \in Call
        PROVE  /\ call'[d].at = "register" =>
                     /\ call'[d].task \in Task
                     /\ task'[call'[d].task].at # "unborn"
                     /\ task'[call'[d].task].id = call'[d].id
               /\ call'[d].at = "bridges" => call'[d].task \in Task
    BY <1>1, <1>2 DEF IInv, RegistryNames
  <2> QED
    BY <2>1, <2>2 DEF RegistryNames
<1>7. ErrorMeansDown'
  BY <1>1, <1>2 DEF IInv, ErrorMeansDown, Live
<1> QED
  BY <1>3, <1>4, <1>5, <1>6, <1>7 DEF IInv

LEMMA BridgesKeeps ==
    ASSUME IInv, TypeOK', NEW c \in Call, StopBridges(c)
    PROVE  IInv'
<1>1. /\ call[c].at = "bridges" /\ call[c].task \in Task
      /\ \A d \in Call : d # c => call'[d] = call[d]
      /\ call'[c].at = "settle" /\ call'[c].task = call[c].task
      /\ \A u \in Task : /\ task'[u].at = task[u].at
                         /\ task'[u].id = task[u].id
                         /\ task'[u].proc = task[u].proc
      /\ UNCHANGED <<stored, running, status, lock>>
  BY DEF StopBridges, Goto, IInv, RegistryNames, TypeOK, CallState, TaskState
<1>2. LiveHoldsLock'
  BY <1>1 DEF IInv, LiveHoldsLock, Live
<1>3. StartHoldsLock'
  BY <1>1 DEF IInv, StartHoldsLock
<1>4. ReservationIsOwn'
  BY <1>1 DEF IInv, ReservationIsOwn, Reserving, StartAt
<1>5. RegistryNames'
  <2>1. ASSUME NEW p \in Process, NEW i \in Id, running'[p][i] # None
        PROVE  /\ task'[running'[p][i]].at # "unborn"
               /\ task'[running'[p][i]].id = i
    <3>1. running'[p][i] = running[p][i] /\ running[p][i] \in Task
      BY <1>1, <2>1 DEF IInv, TypeOK
    <3> QED
      BY <1>1, <2>1, <3>1 DEF IInv, RegistryNames
  <2> QED
    BY <1>1, <2>1 DEF IInv, RegistryNames
<1>6. ErrorMeansDown'
  BY <1>1 DEF IInv, ErrorMeansDown, Live
<1> QED
  BY <1>2, <1>3, <1>4, <1>5, <1>6 DEF IInv

LEMMA CallStepKeeps ==
    ASSUME IInv, NEW c \in Call, CallStep(c)
    PROVE  IInv'
<1>0. TypeOK'
  BY CallStepType DEF IInv
<1>1. CASE StartCheck(c)
  <2>1. ASSUME Return(c) PROVE Quiet(c)
    BY <1>1, <2>1, ReturnIsQuiet DEF StartCheck, IInv
  <2>2. ASSUME NEW at \in Reserving \ {"announce", "spawn"}, Goto(c, at)
        PROVE  Quiet(c)
    BY <1>1, <2>2 DEF StartCheck, Goto, Quiet, IInv, TypeOK, CallState,
                      ReservationIsOwn, Reserving, StartAt
  <2>3. Quiet(c)
    BY <1>1, <2>1, <2>2 DEF StartCheck, Reserving, StartAt
  <2> QED
    BY <1>0, <2>3, QuietKeeps
<1>2. CASE StartLoad(c)
  <2>1. ASSUME Return(c) PROVE Quiet(c)
    BY <1>2, <2>1, ReturnIsQuiet DEF StartLoad, IInv
  <2>2. ASSUME NEW at \in Reserving \ {"announce", "spawn"}, Goto(c, at)
        PROVE  Quiet(c)
    BY <1>2, <2>2 DEF StartLoad, Goto, Quiet, IInv, TypeOK, CallState,
                      ReservationIsOwn, Reserving, StartAt
  <2>3. Quiet(c)
    BY <1>2, <2>1, <2>2 DEF StartLoad, Reserving, StartAt
  <2> QED
    BY <1>0, <2>3, QuietKeeps
<1>3. CASE StartResolve(c)
  <2>1. ASSUME Return(c) PROVE Quiet(c)
    BY <1>3, <2>1, ReturnIsQuiet DEF StartResolve, IInv
  <2>2. ASSUME NEW at \in Reserving \ {"announce", "spawn"}, Goto(c, at)
        PROVE  Quiet(c)
    BY <1>3, <2>2 DEF StartResolve, Goto, Quiet, IInv, TypeOK, CallState,
                      ReservationIsOwn, Reserving, StartAt
  <2>3. Quiet(c)
    BY <1>3, <2>1, <2>2 DEF StartResolve, Reserving, StartAt
  <2> QED
    BY <1>0, <2>3, QuietKeeps
<1>4. CASE DeleteUnstore(c)
  <2>1. Quiet(c)
    BY <1>4 DEF DeleteUnstore, Goto, Quiet, IInv, TypeOK, CallState,
                Reserving, StartAt
  <2> QED
    BY <1>0, <2>1, QuietKeeps
<1>5. CASE StopSettle(c)
  <2>1. Quiet(c)
    BY <1>5 DEF StopSettle, Return, SetStatus, Quiet, IInv, TypeOK, CallState,
                Reserving, StartAt
  <2> QED
    BY <1>0, <2>1, QuietKeeps
<1>6. CASE CommandNext(c)
  <2>1. Quiet(c)
    <3>1. /\ call[c].proc \in Process /\ call[c].todo \subseteq Id
          /\ call[c].op \in {"start", "stop", "delete"}
      BY DEF IInv, TypeOK, CallState
    <3>2. PICK i \in call[c].todo :
            Begin(c, call[c].proc, i, call[c].op, call[c].todo \ {i})
      BY <1>6 DEF CommandNext
    <3> QED
      BY <1>6, <3>1, <3>2, BeginIsQuiet DEF CommandNext, IInv
  <2> QED
    BY <1>0, <2>1, QuietKeeps
<1> QED
  BY <1>0, <1>1, <1>2, <1>3, <1>4, <1>5, <1>6, AcquireKeeps, AnnounceKeeps,
     SpawnKeeps, RegisterKeeps, RemoveKeeps, BridgesKeeps DEF CallStep

LEMMA CrashKeeps ==
    ASSUME IInv, NEW p \in Process, Crash(p)
    PROVE  IInv'
<1>0. TypeOK'
  BY CrashType DEF IInv
<1>1. ASSUME NEW t \in Task
      PROVE  /\ task'[t].id = task[t].id /\ task'[t].proc = task[t].proc
             /\ task'[t].at = "unborn" <=> task[t].at = "unborn"
             /\ Live(t)' => Live(t) /\ task[t].proc # p /\ task'[t] = task[t]
  BY DEF Crash, IInv, TypeOK, TaskState, Live, LiveAt
<1>2. ASSUME NEW c \in Call
      PROVE  \/ call'[c] = call[c] /\ call[c].proc # p
             \/ call'[c].at = "idle" /\ call'[c].task = None
  BY DEF Crash, IInv, TypeOK, CallState
<1>3. LiveHoldsLock'
  <2> SUFFICES ASSUME NEW t \in Task, Live(t)'
               PROVE  lock'[task'[t].id] = t
    BY DEF LiveHoldsLock
  <2>1. /\ lock[task[t].id] = t /\ task[t].id \in Id /\ ~Mine(p, t)
        /\ task'[t].id = task[t].id
    BY <1>1, ConstantsAssumption DEF IInv, LiveHoldsLock, TypeOK, TaskState, Mine
  <2> QED
    BY <2>1 DEF Crash
<1>4. StartHoldsLock'
  <2> SUFFICES ASSUME NEW c \in Call, call'[c].at \in {"announce", "spawn"}
               PROVE  /\ lock'[call'[c].id] = c
                      /\ call'[c].at = "spawn" =>
                            status'[call'[c].proc][call'[c].id] # "error"
    BY DEF StartHoldsLock
  <2>1. /\ call'[c] = call[c] /\ call[c].proc # p
        /\ call[c].id \in Id /\ call[c].proc \in Process
        /\ lock[call[c].id] = c
    BY <1>2 DEF IInv, TypeOK, CallState, StartHoldsLock
  <2>2. ~Mine(p, c)
    BY <2>1, ConstantsAssumption DEF Mine
  <2>3. status'[call[c].proc] = status[call[c].proc]
    BY <2>1 DEF Crash, IInv, TypeOK
  <2> QED
    BY <2>1, <2>2, <2>3 DEF Crash, IInv, StartHoldsLock
<1>5. ReservationIsOwn'
  <2> SUFFICES ASSUME NEW c \in Call, call'[c].at \in Reserving
               PROVE  /\ call'[c].task \in Task
                      /\ task'[call'[c].task].at = "unborn"
                      /\ \A d \in Call : call'[d].task = call'[c].task => d = c
    BY DEF ReservationIsOwn
  <2>1. call'[c] = call[c]
    BY <1>2 DEF Reserving, StartAt
  <2>2. /\ call[c].task \in Task /\ task[call[c].task].at = "unborn"
        /\ \A d \in Call : call[d].task = call[c].task => d = c
    BY <2>1 DEF IInv, ReservationIsOwn
  <2> QED
    BY <1>1, <1>2, <2>1, <2>2, ConstantsAssumption
<1>6. RegistryNames'
  <2>1. ASSUME NEW q \in Process, NEW i \in Id, running'[q][i] # None
        PROVE  /\ task'[running'[q][i]].at # "unborn"
               /\ task'[running'[q][i]].id = i
    <3>1. running'[q][i] = running[q][i]
      <4>1. CASE q = p
        BY <2>1, <4>1 DEF Crash, IInv, TypeOK
      <4>2. CASE q # p
        BY <4>2 DEF Crash, IInv, TypeOK
      <4> QED
        BY <4>1, <4>2
    <3>2. running[q][i] \in Task
      BY <2>1, <3>1 DEF IInv, TypeOK
    <3> QED
      BY <1>1, <2>1, <3>1, <3>2 DEF IInv, RegistryNames
  <2>2. ASSUME NEW c \in Call
        PROVE  /\ call'[c].at = "register" =>
                     /\ call'[c].task \in Task
                     /\ task'[call'[c].task].at # "unborn"
                     /\ task'[call'[c].task].id = call'[c].id
               /\ call'[c].at = "bridges" => call'[c].task \in Task
    BY <1>1, <1>2 DEF IInv, RegistryNames
  <2> QED
    BY <2>1, <2>2 DEF RegistryNames
<1>7. ErrorMeansDown'
  <2> SUFFICES ASSUME NEW t \in Task, Live(t)',
                      status'[task'[t].proc][task'[t].id] = "error"
               PROVE  task'[t].at \in {"cleanup", "exiting"}
    BY DEF ErrorMeansDown
  <2>1. /\ Live(t) /\ task'[t] = task[t] /\ task[t].proc # p
        /\ task[t].proc \in Process
    BY <1>1 DEF IInv, TypeOK, TaskState
  <2>2. status'[task[t].proc] = status[task[t].proc]
    BY <2>1 DEF Crash, IInv, TypeOK
  <2> QED
    BY <2>1, <2>2 DEF IInv, ErrorMeansDown
<1> QED
  BY <1>0, <1>3, <1>4, <1>5, <1>6, <1>7 DEF IInv

-----------------------------------------------------------------------------
LEMMA Initially == Init => IInv
<1> SUFFICES ASSUME Init PROVE IInv
  OBVIOUS
<1>1. TypeOK
  BY TypeInit
<1>2. /\ \A t \in Task : task[t].at = "unborn"
      /\ \A c \in Call : call[c].at = "idle"
      /\ \A p \in Process, i \in Id : running[p][i] = None
  BY DEF Init
<1> QED
  BY <1>1, <1>2 DEF IInv, LiveHoldsLock, StartHoldsLock, ReservationIsOwn,
     RegistryNames, ErrorMeansDown, Live, LiveAt, Reserving, StartAt

LEMMA Inductive == IInv /\ [Next]_vars => IInv'
<1> SUFFICES ASSUME IInv, [Next]_vars PROVE IInv'
  OBVIOUS
<1>1. ASSUME NEW i \in Id, Upsert(i)
      PROVE  IInv'
  <2>1. TypeOK'
    BY <1>1 DEF Upsert, IInv, TypeOK
  <2> QED
    BY <1>1, <2>1 DEF Upsert, IInv, LiveHoldsLock, StartHoldsLock,
       ReservationIsOwn, RegistryNames, ErrorMeansDown, Live
<1>2. ASSUME NEW t \in Task, TaskStep(t)
      PROVE  IInv'
  BY <1>2, TaskStepType, TaskStepEffect, TaskEffectKeeps DEF IInv
<1>3. CASE UNCHANGED vars
  BY <1>3 DEF vars, IInv, TypeOK, LiveHoldsLock, StartHoldsLock,
     ReservationIsOwn, RegistryNames, ErrorMeansDown, Live
<1> QED
  BY <1>1, <1>2, <1>3, CommandKeeps, CallStepKeeps, CrashKeeps DEF Next

(* The inductive invariant holds in every reachable state.                 *)
THEOREM Invariant == Spec => []IInv
BY Initially, Inductive, PTL DEF Spec

(* The types are right: the basis of every other result of this module.    *)
THEOREM TypeCorrect == Spec => []TypeOK
<1>1. IInv => TypeOK
  BY DEF IInv
<1> QED
  BY <1>1, Invariant, PTL

LEMMA LockMeansOne == IInv => OneForwarder
BY DEF IInv, LiveHoldsLock, OneForwarder

(* However many windows and processes start a tunnel, and whenever one of  *)
(* them dies, at most one forwarder of it is alive.                        *)
THEOREM AtMostOneForwarder == Spec => []OneForwarder
BY Invariant, LockMeansOne, PTL

(* A status of Error never hides a forwarder that serves.                  *)
THEOREM ErrorIsTruthful == Spec => []ErrorMeansDown
<1>1. IInv => ErrorMeansDown
  BY DEF IInv
<1> QED
  BY <1>1, Invariant, PTL

(* The unconditional running.remove at the end of a failed forwarder never *)
(* unregisters another live forwarder, because it still holds the lock.    *)
THEOREM CleanupIsHarmless == Spec => CleanupSparesOthers
<1> DEFINE Spares ==
      \A t, u \in Task : \A p \in Process, i \in Id :
         /\ task[t].at = "cleanup" /\ task'[t].at = "exiting"
         /\ running[p][i] = u /\ running'[p][i] # u /\ u # t
         => ~Live(u)
<1>1. IInv /\ [Next]_vars => [Spares]_vars
  <2> SUFFICES ASSUME IInv, [Next]_vars,
                      NEW t \in Task, NEW u \in Task,
                      NEW p \in Process, NEW i \in Id,
                      task[t].at = "cleanup", task'[t].at = "exiting",
                      running[p][i] = u, running'[p][i] # u, u # t, Live(u)
               PROVE  FALSE
    OBVIOUS
  <2>1. TaskCleanup(t)
    <3>1. ASSUME NEW c \in Call, CallStep(c)
          PROVE  task'[t].at = task[t].at
      <4>1. CASE StopRemove(c)
        BY <4>1 DEF StopRemove, IInv, TypeOK, TaskState, CallState
      <4>2. CASE StopBridges(c)
        BY <4>2 DEF StopBridges, IInv, TypeOK, TaskState
      <4>3. CASE StartSpawn(c)
        BY <4>3 DEF StartSpawn, IInv, TypeOK, ReservationIsOwn, Reserving, StartAt
      <4> QED
        BY <3>1, <4>1, <4>2, <4>3 DEF CallStep, StartCheck, StartLoad,
           StartResolve, StartAcquire, StartAnnounce, StartRegister,
           DeleteUnstore, StopSettle, CommandNext
    <3>2. ASSUME NEW v \in Task, TaskStep(v)
          PROVE  TaskCleanup(t)
      BY <3>2 DEF TaskStep, TaskConnect, TaskFail, TaskReady, TaskAccept,
         TaskPush, BridgeEnd, TaskError, TaskCleanup, TaskExit, TaskCancel,
         TaskGoto, IInv, TypeOK, TaskState
    <3>3. ASSUME NEW q \in Process, Crash(q)
          PROVE  FALSE
      BY <3>3 DEF Crash, IInv, TypeOK, TaskState
    <3> QED
      BY <3>1, <3>2, <3>3 DEF Next, Upsert, Command, CommandAll, vars
  <2>2. task[u].id = i /\ task[t].id = i
    BY <2>1, ConstantsAssumption
       DEF TaskCleanup, IInv, RegistryNames, TypeOK, TaskState
  <2>3. Live(t)
    BY DEF Live, LiveAt
  <2> QED
    BY <2>2, <2>3, LockMeansOne DEF OneForwarder
<1> QED
  BY <1>1, Invariant, PTL DEF CleanupSparesOthers, Spec

-----------------------------------------------------------------------------
(* Starting is not shown for ever: who works on it.                        *)

(* A process registers its own forwarders only.                            *)
RegistryIsLocal ==
    /\ \A p \in Process, i \in Id :
          running[p][i] # None => task[running[p][i]].proc = p
    /\ \A c \in Call : call[c].at = "register" =>
          task[call[c].task].proc = call[c].proc

Setting == {"setup", "connected", "failed"}

CallWorks(c, p, i) == /\ call[c].proc = p /\ call[c].id = i
                      /\ call[c].at \in {"spawn", "bridges", "settle"}

TaskWorks(t, p, i) == /\ task[t].proc = p /\ task[t].id = i
                      /\ task[t].at \in Setting /\ ~task[t].aborted

(* Stronger than StartingIsLive: a forwarder that was told to stop does    *)
(* not count, because it may be dropped before it reports.                 *)
StartingIsWorkedOn ==
    \A p \in Process, i \in Id : status[p][i] = "starting" =>
        \/ \E c \in Call : CallWorks(c, p, i)
        \/ \E t \in Task : TaskWorks(t, p, i)

(* A forwarder that was born stays one of its process and tunnel.          *)
LEMMA BornStays ==
    ASSUME IInv, [Next]_vars, NEW t \in Task, task[t].at # "unborn"
    PROVE  task'[t].proc = task[t].proc /\ task'[t].id = task[t].id
<1> USE DEF IInv, TypeOK, TaskState
<1>1. ASSUME NEW c \in Call, CallStep(c)
      PROVE  task'[t].proc = task[t].proc /\ task'[t].id = task[t].id
  <2>1. CASE StopRemove(c)
    <3> DEFINE u == running[call[c].proc][call[c].id]
    <3>1. task' = task \/ task' = [task EXCEPT ![u].aborted = TRUE]
      BY <2>1 DEF StopRemove
    <3> HIDE DEF u
    <3>2. task \in [Task -> TaskState] /\ task[t] \in TaskState
      OBVIOUS
    <3>3. task'[t] = task[t] \/ task'[t] = [task[t] EXCEPT !.aborted = TRUE]
      BY <3>1, <3>2
    <3> QED
      BY <3>2, <3>3
  <2>2. CASE StopBridges(c)
    BY <2>2 DEF StopBridges
  <2>3. CASE StartSpawn(c)
    BY <2>3 DEF StartSpawn, ReservationIsOwn, Reserving, StartAt
  <2> QED
    BY <1>1, <2>1, <2>2, <2>3 DEF CallStep, StartCheck, StartLoad,
       StartResolve, StartAcquire, StartAnnounce, StartRegister,
       DeleteUnstore, StopSettle, CommandNext
<1>2. ASSUME NEW u \in Task, TaskStep(u)
      PROVE  task'[t].proc = task[t].proc /\ task'[t].id = task[t].id
  BY <1>2, TaskStepEffect DEF TaskEffect
<1>3. ASSUME NEW p \in Process, Crash(p)
      PROVE  task'[t].proc = task[t].proc /\ task'[t].id = task[t].id
  BY <1>3 DEF Crash
<1> QED
  BY <1>1, <1>2, <1>3 DEF Next, Upsert, Command, CommandAll, vars

(* Only StartRegister makes an entry.                                      *)
LEMMA EntriesComeFromStarts ==
    ASSUME IInv, [Next]_vars, NEW p \in Process, NEW i \in Id,
           running'[p][i] # None
    PROVE  \/ running'[p][i] = running[p][i]
           \/ \E c \in Call : /\ call[c].at = "register" /\ call[c].proc = p
                              /\ running'[p][i] = call[c].task
                              /\ task' = task
<1> USE DEF IInv, TypeOK
<1>1. ASSUME NEW c \in Call, CallStep(c), running' # running
      PROVE  StopRemove(c) \/ StartRegister(c)
  BY <1>1 DEF CallStep, StartCheck, StartLoad, StartResolve, StartAcquire,
     StartAnnounce, StartSpawn, DeleteUnstore, StopBridges, StopSettle,
     CommandNext
<1>2. ASSUME NEW c \in Call, StopRemove(c)
      PROVE  running'[p][i] = running[p][i]
  BY <1>2 DEF StopRemove, CallState
<1>3. ASSUME NEW c \in Call, StartRegister(c)
      PROVE  \/ running'[p][i] = running[p][i]
             \/ /\ call[c].at = "register" /\ call[c].proc = p
                /\ running'[p][i] = call[c].task /\ task' = task
  BY <1>3 DEF StartRegister, CallState
<1>4. ASSUME NEW u \in Task, TaskStep(u)
      PROVE  running'[p][i] = running[p][i]
  BY <1>4, TaskStepEffect DEF TaskEffect
<1>5. ASSUME NEW q \in Process, Crash(q)
      PROVE  running'[p][i] = running[p][i]
  BY <1>5 DEF Crash
<1> QED
  BY <1>1, <1>2, <1>3, <1>4, <1>5 DEF Next, Upsert, Command, CommandAll, vars

(* What a command's end and a command's next await do to the commands.     *)
LEMMA ReturnEffect ==
    ASSUME TypeOK, NEW d \in Call, Return(d)
    PROVE  /\ call'[d].at \in {"idle", "next"}
           /\ \A c \in Call : c # d => call'[c] = call[c]
BY DEF Return, TypeOK, CallState

LEMMA GotoEffect ==
    ASSUME TypeOK, NEW d \in Call, NEW at, Goto(d, at)
    PROVE  /\ call'[d].at = at /\ call'[d].id = call[d].id
           /\ call'[d].proc = call[d].proc /\ call'[d].task = call[d].task
           /\ \A c \in Call : c # d => call'[c] = call[c]
BY DEF Goto, TypeOK, CallState

(* What one command does to the others, and how it comes to be registering.*)
LEMMA CallStepEffect ==
    ASSUME IInv, NEW d \in Call, CallStep(d)
    PROVE  /\ \A c \in Call : c # d => call'[c] = call[c]
           /\ call'[d].at = "register" => StartSpawn(d)
<1>0. TypeOK
  BY DEF IInv
<1>1. CASE StartCheck(d) \/ StartLoad(d) \/ StartResolve(d) \/ StartAcquire(d)
  <2>1. Return(d) \/ Goto(d, "load") \/ Goto(d, "resolve")
        \/ Goto(d, "acquire") \/ Goto(d, "announce")
    BY <1>1 DEF StartCheck, StartLoad, StartResolve, StartAcquire
  <2> QED
    BY <1>0, <2>1, ReturnEffect, GotoEffect
<1>2. CASE StartAnnounce(d)
  BY <1>0, <1>2, GotoEffect DEF StartAnnounce
<1>3. CASE StartSpawn(d)
  BY <1>0, <1>3, GotoEffect DEF StartSpawn
<1>4. CASE StartRegister(d) \/ StopSettle(d)
  <2>1. Return(d)
    BY <1>4 DEF StartRegister, StopSettle
  <2> QED
    BY <1>0, <2>1, ReturnEffect
<1>5. CASE DeleteUnstore(d) \/ StopBridges(d)
  <2>1. Goto(d, "remove") \/ Goto(d, "settle")
    BY <1>5 DEF DeleteUnstore, StopBridges
  <2> QED
    BY <1>0, <2>1, GotoEffect
<1>6. CASE StopRemove(d)
  <2> DEFINE t == running[call[d].proc][call[d].id]
  <2>1. \/ Goto(d, "settle")
        \/ call' = [call EXCEPT ![d] = [@ EXCEPT !.at = "bridges", !.task = t]]
    BY <1>6 DEF StopRemove
  <2> HIDE DEF t
  <2>2. CASE Goto(d, "settle")
    BY <1>0, <2>2, GotoEffect
  <2>3. CASE call' = [call EXCEPT ![d] = [@ EXCEPT !.at = "bridges", !.task = t]]
    BY <1>0, <2>3 DEF TypeOK, CallState
  <2> QED
    BY <2>1, <2>2, <2>3
<1>7. CASE CommandNext(d)
  <2>1. PICK i \in call[d].todo :
          Begin(d, call[d].proc, i, call[d].op, call[d].todo \ {i})
    BY <1>7 DEF CommandNext
  <2>2. call[d].op \in {"start", "stop", "delete"}
    BY <1>0 DEF TypeOK, CallState
  <2> QED
    BY <1>0, <2>1, <2>2 DEF Begin, TypeOK
<1> QED
  BY <1>1, <1>2, <1>3, <1>4, <1>5, <1>6, <1>7 DEF CallStep

(* Only StartSpawn makes a start that is about to register.                *)
LEMMA RegisteringFollowsSpawn ==
    ASSUME IInv, [Next]_vars, NEW c \in Call, call'[c].at = "register"
    PROVE  \/ call'[c] = call[c]
           \/ StartSpawn(c)
<1> USE DEF IInv, TypeOK, CallState
<1>1. ASSUME NEW d \in Call, CallStep(d)
      PROVE  call'[c] = call[c] \/ StartSpawn(c)
  BY <1>1, CallStepEffect
<1>2. ASSUME NEW u \in Task, TaskStep(u) PROVE call'[c] = call[c]
  BY <1>2, TaskStepEffect DEF TaskEffect
<1>3. ASSUME NEW q \in Process, Crash(q) PROVE call'[c] = call[c]
  BY <1>3 DEF Crash
<1>4. ASSUME NEW d \in Call, NEW p \in Process, NEW i \in Id,
             NEW op \in {"start", "stop", "delete"}, Command(d, p, i, op)
      PROVE  call'[c] = call[c]
  BY <1>4 DEF Command, Begin
<1>5. ASSUME NEW d \in Call, NEW p \in Process, NEW op \in {"start", "stop"},
             NEW ids \in SUBSET Id, CommandAll(d, p, op, ids)
      PROVE  call'[c] = call[c]
  BY <1>5 DEF CommandAll
<1> QED
  BY <1>1, <1>2, <1>3, <1>4, <1>5 DEF Next, Upsert, vars

LEMMA RegistryStaysLocal ==
    ASSUME IInv, RegistryIsLocal, [Next]_vars
    PROVE  RegistryIsLocal'
<1>1. ASSUME NEW p \in Process, NEW i \in Id, running'[p][i] # None
      PROVE  task'[running'[p][i]].proc = p
  <2>1. CASE running'[p][i] = running[p][i]
    <3>1. /\ running[p][i] \in Task /\ task[running[p][i]].at # "unborn"
          /\ task[running[p][i]].proc = p
      BY <1>1, <2>1 DEF IInv, TypeOK, RegistryNames, RegistryIsLocal
    <3> QED
      BY <2>1, <3>1, BornStays
  <2>2. ASSUME NEW c \in Call, call[c].at = "register", call[c].proc = p,
               running'[p][i] = call[c].task, task' = task
        PROVE  task'[running'[p][i]].proc = p
    BY <2>2 DEF RegistryIsLocal
  <2> QED
    BY <1>1, <2>1, <2>2, EntriesComeFromStarts
<1>2. ASSUME NEW c \in Call, call'[c].at = "register"
      PROVE  task'[call'[c].task].proc = call'[c].proc
  <2>1. CASE call'[c] = call[c]
    <3>1. /\ call[c].task \in Task /\ task[call[c].task].at # "unborn"
          /\ task[call[c].task].proc = call[c].proc
      BY <1>2, <2>1 DEF IInv, RegistryNames, RegistryIsLocal
    <3> QED
      BY <2>1, <3>1, BornStays
  <2>2. CASE StartSpawn(c)
    <3>1. call[c].task \in Task
      BY <2>2 DEF StartSpawn, IInv, ReservationIsOwn, Reserving, StartAt
    <3> QED
      BY <2>2, <3>1 DEF StartSpawn, Goto, IInv, TypeOK, CallState
  <2> QED
    BY <1>2, <2>1, <2>2, RegisteringFollowsSpawn
<1> QED
  BY <1>1, <1>2 DEF RegistryIsLocal

(* A call that works on a tunnel shown as Starting goes on doing so until  *)
(* the status changes or a forwarder takes over.                           *)
LEMMA CallKeepsWorking ==
    ASSUME IInv, [Next]_vars, NEW p \in Process, NEW i \in Id,
           status'[p][i] = "starting", NEW c \in Call, CallWorks(c, p, i)
    PROVE  \/ CallWorks(c, p, i)'
           \/ \E t \in Task : TaskWorks(t, p, i)'
<1>0. /\ TypeOK /\ call[c] \in CallState
      /\ call[c].proc = p /\ call[c].id = i
      /\ call[c].at \in {"spawn", "bridges", "settle"}
  BY DEF IInv, TypeOK, CallWorks
<1>1. CASE call'[c] = call[c]
  BY <1>0, <1>1 DEF CallWorks
<1>2. ASSUME CallStep(c)
      PROVE  CallWorks(c, p, i)' \/ \E t \in Task : TaskWorks(t, p, i)'
  <2>1. CASE StartSpawn(c)
    <3>1. PICK t \in Task : t = call[c].task
      BY <2>1 DEF StartSpawn, IInv, ReservationIsOwn, Reserving, StartAt
    <3>2. task'[t] = [at |-> "setup", proc |-> p, id |-> i, aborted |-> FALSE,
                      bridges |-> 0, loose |-> FALSE]
      BY <1>0, <2>1, <3>1 DEF StartSpawn, TypeOK
    <3>3. TaskWorks(t, p, i)'
      BY <3>2 DEF TaskWorks, Setting
    <3> QED
      BY <3>3
  <2>2. CASE StopBridges(c)
    BY <1>0, <2>2, GotoEffect DEF StopBridges, CallWorks
  <2>3. CASE StopSettle(c)
    <3>1. status'[p][i] # "starting"
      BY <1>0, <2>3 DEF StopSettle, SetStatus, TypeOK
    <3> QED
      BY <3>1
  <2> QED
    BY <1>0, <1>2, <2>1, <2>2, <2>3 DEF CallStep, StartCheck, StartLoad,
       StartResolve, StartAcquire, StartAnnounce, StartRegister,
       DeleteUnstore, StopRemove, CommandNext
<1>3. ASSUME NEW d \in Call, d # c, CallStep(d) PROVE call'[c] = call[c]
  BY <1>3, CallStepEffect
<1>4. ASSUME NEW u \in Task, TaskStep(u) PROVE call'[c] = call[c]
  BY <1>0, <1>4, TaskStepEffect DEF TaskEffect
<1>5. ASSUME NEW q \in Process, Crash(q) PROVE call'[c] = call[c]
  BY <1>0, <1>5 DEF Crash, TypeOK
<1>6. ASSUME NEW d \in Call, NEW q \in Process, NEW j \in Id,
             NEW op \in {"start", "stop", "delete"}, Command(d, q, j, op)
      PROVE  call'[c] = call[c]
  BY <1>0, <1>6 DEF Command, Begin, TypeOK
<1>7. ASSUME NEW d \in Call, NEW q \in Process, NEW op \in {"start", "stop"},
             NEW ids \in SUBSET Id, CommandAll(d, q, op, ids)
      PROVE  call'[c] = call[c]
  BY <1>0, <1>7 DEF CommandAll, TypeOK
<1> QED
  BY <1>1, <1>2, <1>3, <1>4, <1>5, <1>6, <1>7 DEF Next, Upsert, vars

(* A forwarder that sets up goes on until it reports, or a stop takes over *)
(* that will overwrite the status.                                         *)
LEMMA TaskKeepsWorking ==
    ASSUME IInv, RegistryIsLocal, [Next]_vars, NEW p \in Process, NEW i \in Id,
           status'[p][i] = "starting", NEW t \in Task, TaskWorks(t, p, i)
    PROVE  \/ TaskWorks(t, p, i)'
           \/ \E c \in Call : CallWorks(c, p, i)'
<1>0. /\ TypeOK /\ task[t] \in TaskState
      /\ task[t].proc = p /\ task[t].id = i
      /\ task[t].at \in Setting /\ task[t].aborted = FALSE
  BY DEF IInv, TypeOK, TaskWorks, TaskState
<1>1. ASSUME task'[t] = task[t] PROVE TaskWorks(t, p, i)'
  BY <1>0, <1>1 DEF TaskWorks
<1>2. ASSUME NEW c \in Call, CallStep(c)
      PROVE  TaskWorks(t, p, i)' \/ CallWorks(c, p, i)'
  <2>1. CASE StopRemove(c)
    <3> DEFINE u == running[call[c].proc][call[c].id]
    <3>1. call[c].proc \in Process /\ call[c].id \in Id
      BY <1>0 DEF TypeOK, CallState
    <3>2. CASE task' = task
      BY <1>1, <3>2
    <3>3. CASE task' # task
      <4>1. /\ task' = [task EXCEPT ![u].aborted = TRUE]
            /\ call' = [call EXCEPT ![c] = [@ EXCEPT !.at = "bridges",
                                                     !.task = u]]
            /\ u # None
        BY <2>1, <3>3 DEF StopRemove
      <4>2. CASE u = t
        <5>1. task[t].proc = call[c].proc /\ task[t].id = call[c].id
          BY <3>1, <4>1, <4>2 DEF RegistryIsLocal, IInv, RegistryNames
        <5> HIDE DEF u
        <5>2. /\ call'[c].at = "bridges" /\ call'[c].id = call[c].id
              /\ call'[c].proc = call[c].proc
          BY <1>0, <4>1 DEF TypeOK, CallState
        <5> QED
          BY <1>0, <5>1, <5>2 DEF CallWorks
      <4>3. CASE u # t
        <5> HIDE DEF u
        <5>1. task'[t] = task[t]
          BY <1>0, <4>1, <4>3 DEF TypeOK
        <5> QED
          BY <1>1, <5>1
      <4> QED
        BY <4>2, <4>3
    <3> QED
      BY <3>2, <3>3
  <2>2. CASE StopBridges(c)
    <3> DEFINE u == call[c].task
    <3>1. task' = [task EXCEPT ![u].bridges = 0]
      BY <2>2 DEF StopBridges
    <3> HIDE DEF u
    <3>2. /\ task'[t].proc = task[t].proc /\ task'[t].id = task[t].id
          /\ task'[t].at = task[t].at /\ task'[t].aborted = task[t].aborted
      BY <1>0, <3>1 DEF TypeOK, TaskState
    <3> QED
      BY <1>0, <3>2 DEF TaskWorks
  <2>3. CASE StartSpawn(c)
    <3>1. task'[t] = task[t]
      BY <1>0, <2>3 DEF StartSpawn, IInv, ReservationIsOwn, Reserving, StartAt,
                        TypeOK, Setting
    <3> QED
      BY <1>1, <3>1
  <2>4. CASE task' = task
    BY <1>1, <2>4
  <2> QED
    BY <1>2, <2>1, <2>2, <2>3, <2>4 DEF CallStep, StartCheck, StartLoad,
       StartResolve, StartAcquire, StartAnnounce, StartRegister,
       DeleteUnstore, StopSettle, CommandNext
<1>3. ASSUME TaskStep(t)
      PROVE  TaskWorks(t, p, i)'
  <2>1. CASE TaskConnect(t) \/ TaskFail(t)
    <3>1. PICK at \in {"connected", "failed"} : task' = [task EXCEPT ![t].at = at]
      BY <2>1 DEF TaskConnect, TaskFail, TaskGoto
    <3>2. /\ task'[t].proc = p /\ task'[t].id = i
          /\ task'[t].at = at /\ task'[t].aborted = FALSE
      BY <1>0, <3>1 DEF TypeOK, TaskState
    <3> QED
      BY <3>2 DEF TaskWorks, Setting
  <2>2. CASE TaskReady(t) \/ TaskError(t)
    <3>1. status'[p][i] # "starting"
      BY <1>0, <2>2 DEF TaskReady, TaskError, SetStatus, TypeOK
    <3> QED
      BY <3>1
  <2>3. CASE BridgeEnd(t)
    BY <1>0, <2>3 DEF BridgeEnd, TypeOK, TaskState, TaskWorks, Setting
  <2> QED
    BY <1>0, <1>3, <2>1, <2>2, <2>3 DEF TaskStep, TaskAccept, TaskPush,
       TaskCleanup, TaskExit, TaskCancel, Cancellable, Setting
<1>4. ASSUME NEW u \in Task, u # t, TaskStep(u) PROVE task'[t] = task[t]
  BY <1>0, <1>4 DEF TaskStep, TaskConnect, TaskFail, TaskReady, TaskAccept,
     TaskPush, BridgeEnd, TaskError, TaskCleanup, TaskExit, TaskCancel,
     TaskGoto, TypeOK
<1>5. ASSUME NEW q \in Process, Crash(q) PROVE task'[t] = task[t]
  <2>1. q # p
    BY <1>0, <1>5 DEF Crash, TypeOK
  <2> QED
    BY <1>0, <1>5, <2>1 DEF Crash, TypeOK
<1> QED
  BY <1>1, <1>2, <1>3, <1>4, <1>5 DEF Next, Upsert, Command, CommandAll, vars

(* Only StartAnnounce shows a tunnel as Starting.                          *)
LEMMA AnnouncedByStart ==
    ASSUME IInv, [Next]_vars, NEW p \in Process, NEW i \in Id,
           status'[p][i] = "starting", status[p][i] # "starting"
    PROVE  \E c \in Call : CallWorks(c, p, i)'
<1>0. TypeOK
  BY DEF IInv
<1>1. ASSUME NEW c \in Call, StartAnnounce(c)
      PROVE  CallWorks(c, p, i)'
  <2>1. call[c].proc \in Process /\ call[c].id \in Id
    BY <1>0 DEF TypeOK, CallState
  <2>2. call[c].proc = p /\ call[c].id = i
    BY <1>0, <1>1, <2>1 DEF StartAnnounce, SetStatus, TypeOK
  <2> QED
    BY <1>0, <1>1, <2>2, GotoEffect DEF StartAnnounce, CallWorks
<1>2. ASSUME NEW c \in Call, StopSettle(c) PROVE FALSE
  BY <1>0, <1>2 DEF StopSettle, SetStatus, TypeOK, CallState
<1>3. ASSUME NEW u \in Task, TaskStep(u) PROVE FALSE
  <2>1. CASE TaskReady(u) \/ TaskError(u)
    <3>1. PICK st \in {"running", "error"} :
             SetStatus(task[u].proc, task[u].id, st)
      BY <2>1 DEF TaskReady, TaskError
    <3>2. task[u].proc \in Process /\ task[u].id \in Id
      BY <1>0 DEF TypeOK, TaskState
    <3> QED
      BY <1>0, <3>1, <3>2 DEF SetStatus, TypeOK
  <2>2. CASE status' = status
    BY <2>2
  <2> QED
    BY <1>3, <2>1, <2>2 DEF TaskStep, TaskConnect, TaskFail, TaskAccept,
       TaskPush, BridgeEnd, TaskCleanup, TaskExit, TaskCancel
<1>4. ASSUME NEW q \in Process, Crash(q) PROVE FALSE
  BY <1>0, <1>4 DEF Crash, TypeOK
<1>5. ASSUME NEW c \in Call, CallStep(c), status' # status
      PROVE  StartAnnounce(c) \/ StopSettle(c)
  BY <1>5 DEF CallStep, StartCheck, StartLoad, StartResolve, StartAcquire,
     StartSpawn, StartRegister, DeleteUnstore, StopRemove, StopBridges,
     CommandNext
<1> QED
  BY <1>1, <1>2, <1>3, <1>4, <1>5 DEF Next, Upsert, Command, CommandAll, vars

(* A tunnel is shown as Starting only while a start, a forwarder that will *)
(* report, or a stop that will overwrite it is at work: whoever stops,     *)
(* deletes, fails or crashes meanwhile, the window is not left waiting.    *)
THEOREM StartingHasAWorker == Spec => []StartingIsLive
<1> DEFINE WInv == IInv /\ RegistryIsLocal /\ StartingIsWorkedOn
<1>1. Init => WInv
  <2>1. Init => RegistryIsLocal /\ StartingIsWorkedOn
    BY DEF Init, RegistryIsLocal, StartingIsWorkedOn
  <2> QED
    BY <2>1, Initially
<1>2. WInv /\ [Next]_vars => WInv'
  <2> SUFFICES ASSUME WInv, [Next]_vars PROVE WInv'
    OBVIOUS
  <2>1. IInv' /\ RegistryIsLocal'
    BY Inductive, RegistryStaysLocal
  <2>2. ASSUME NEW p \in Process, NEW i \in Id, status'[p][i] = "starting"
        PROVE  \/ \E c \in Call : CallWorks(c, p, i)'
               \/ \E t \in Task : TaskWorks(t, p, i)'
    <3>1. CASE status[p][i] # "starting"
      BY <2>2, <3>1, AnnouncedByStart
    <3>2. CASE status[p][i] = "starting"
      BY <2>2, <3>2, CallKeepsWorking, TaskKeepsWorking DEF StartingIsWorkedOn
    <3> QED
      BY <3>1, <3>2
  <2> QED
    BY <2>1, <2>2 DEF StartingIsWorkedOn
<1>3. WInv => StartingIsLive
  BY DEF StartingIsWorkedOn, StartingIsLive, CallWorks, TaskWorks, Setting
<1> HIDE DEF WInv
<1> QED
  BY <1>1, <1>2, <1>3, PTL DEF Spec
=============================================================================
