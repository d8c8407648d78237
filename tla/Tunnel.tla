------------------------------- MODULE Tunnel -------------------------------
(***************************************************************************)
(* The life of an SSH tunnel: src-tauri/src/tunnel/mod.rs and the part of  *)
(* src-tauri/src/module_lock.rs it relies on.                              *)
(*                                                                         *)
(* Several Taomni processes share one tunnels.json and one directory of    *)
(* lock files.  Each process keeps a TunnelRegistry; the commands of its   *)
(* windows (calls) and the spawned forwarders (tasks) run concurrently and *)
(* interleave at every await.  A forwarder is aborted with                 *)
(* JoinHandle::abort, which only asks: a task that is being polled goes on *)
(* until the next await that is not ready, and dies there.                 *)
(***************************************************************************)
EXTENDS Integers, FiniteSets

CONSTANTS
    Process,    \* running Taomni processes
    Id,         \* tunnel ids
    Task,       \* incarnations of the forwarder task
    Call,       \* concurrent command invocations
    None,       \* no task, nobody
    MaxBridges  \* bound: client connections a forwarder has at once

ASSUME ConstantsAssumption ==
    /\ None \notin Task \cup Call
    /\ Task \cap Call = {}
    /\ MaxBridges \in Nat

VARIABLES
    stored,     \* ids configured in tunnels.json (shared by the processes)
    running,    \* TunnelRegistry.running of each process
    status,     \* TunnelRegistry.statuses of each process
    lock,       \* holder of the ModuleLock of each id
    call,       \* command invocations
    task        \* forwarder tasks

vars == <<stored, running, status, lock, call, task>>

(* What a task does next.  Each value but "exiting" names an await.        *)
LiveAt  == {"setup", "connected", "serving", "failed", "cleanup", "exiting"}
TaskAt  == LiveAt \cup {"unborn", "done"}
StartAt == {"check", "load", "resolve", "acquire", "announce", "spawn",
            "register"}
StopAt  == {"unstore", "remove", "bridges", "settle"}
CallAt  == {"idle", "next"} \cup StartAt \cup StopAt
Status  == {"none", "starting", "running", "stopped", "error"}

(***************************************************************************)
(* `bridges` counts the client connections whose handle is in the bridges  *)
(* vector, `loose` says that one more was spawned and its handle is not    *)
(* pushed yet.                                                             *)
(***************************************************************************)
TaskState == [at : TaskAt, proc : Process, id : Id, aborted : BOOLEAN,
              bridges : Nat, loose : BOOLEAN]

(***************************************************************************)
(* `todo` is the rest of a start_all / stop_all / autostart loop; `task` is *)
(* the incarnation a start will spawn, or the one a stop has taken out of  *)
(* the registry.                                                           *)
(***************************************************************************)
CallState == [at : CallAt, op : {"start", "stop", "delete"}, proc : Process,
              id : Id, todo : SUBSET Id, task : Task \cup {None}]

TypeOK ==
    /\ stored \in SUBSET Id
    /\ running \in [Process -> [Id -> Task \cup {None}]]
    /\ status \in [Process -> [Id -> Status]]
    /\ lock \in [Id -> Task \cup Call \cup {None}]
    /\ call \in [Call -> CallState]
    /\ task \in [Task -> TaskState]

Live(t) == task[t].at \in LiveAt

Init ==
    /\ stored \in SUBSET Id
    /\ running = [p \in Process |-> [i \in Id |-> None]]
    /\ status = [p \in Process |-> [i \in Id |-> "none"]]
    /\ lock = [i \in Id |-> None]
    /\ call \in [Call -> [at : {"idle"}, op : {"stop"}, proc : Process, id : Id,
                          todo : {{}}, task : {None}]]
    /\ task \in [Task -> [at : {"unborn"}, proc : Process, id : Id,
                          aborted : {FALSE}, bridges : {0}, loose : {FALSE}]]

-----------------------------------------------------------------------------
(* Helpers of the commands.                                                *)

Goto(c, at) == call' = [call EXCEPT ![c].at = at]

(* The end of one command, or of one round of a start_all / stop_all loop. *)
Return(c) ==
    LET at == IF call[c].todo = {} THEN "idle" ELSE "next"
    IN  call' = [call EXCEPT ![c] = [@ EXCEPT !.at = at, !.task = None]]

(* The stop and delete commands keep the registry mutex while they abort   *)
(* the bridges, delete also until the status is gone.                      *)
RegistryFree(p) ==
    \A c \in Call : call[c].proc = p =>
        /\ call[c].at # "bridges"
        /\ call[c].at = "settle" => call[c].op # "delete"

(* Mutant: an error stays shown until the tunnel is stopped.               *)
SetStatusSticky(p, i, s) ==
    status' = [status EXCEPT ![p][i] =
                  IF @ = "error" /\ s # "stopped" THEN @ ELSE s]

SetStatus(p, i, s) == status' = [status EXCEPT ![p][i] = s]

(* An incarnation that no start has been given: the bound on restarts.     *)
Fresh(t) ==
    /\ task[t].at = "unborn"
    /\ \A c \in Call : call[c].task # t

Begin(c, p, i, op, todo) ==
    \E t \in Task \cup {None} :
        /\ IF op = "start" THEN t \in Task /\ Fresh(t) ELSE t = None
        /\ call' = [call EXCEPT ![c] =
              [at |-> CASE op = "start"  -> "check"
                        [] op = "stop"   -> "remove"
                        [] op = "delete" -> "unstore",
               op |-> op, proc |-> p, id |-> i, todo |-> todo, task |-> t]]

-----------------------------------------------------------------------------
(* The commands.  Configuration is abstracted to its presence.             *)

(* upsert_tunnel / reorder_tunnels, seen from here: the id is configured.  *)
Upsert(i) ==
    /\ stored' = stored \cup {i}
    /\ i \notin stored
    /\ UNCHANGED <<running, status, lock, call, task>>

(* start_tunnel, stop_tunnel, delete_tunnel                                *)
Command(c, p, i, op) ==
    /\ call[c].at = "idle"
    /\ Begin(c, p, i, op, {})
    /\ UNCHANGED <<stored, running, status, lock, task>>

(* start_all_tunnels, stop_all_tunnels load the list once and then loop;   *)
(* autostart_tunnels does so for the entries that ask for it.              *)
CommandAll(c, p, op, ids) ==
    /\ call[c].at = "idle"
    /\ ids \subseteq stored /\ ids # {}
    /\ op = "stop" => ids = stored
    /\ call' = [call EXCEPT ![c] = [at |-> "next", op |-> op, proc |-> p,
                                    id |-> call[c].id, todo |-> ids,
                                    task |-> None]]
    /\ UNCHANGED <<stored, running, status, lock, task>>

CommandNext(c) ==
    /\ call[c].at = "next"
    /\ \E i \in call[c].todo :
          Begin(c, call[c].proc, i, call[c].op, call[c].todo \ {i})
    /\ UNCHANGED <<stored, running, status, lock, task>>

(* start_tunnel: a duplicate start only returns the status.                *)
StartCheck(c) ==
    LET s == call[c] IN
    /\ s.at = "check" /\ RegistryFree(s.proc)
    /\ IF running[s.proc][s.id] # None THEN Return(c) ELSE Goto(c, "load")
    /\ UNCHANGED <<stored, running, status, lock, task>>

StartLoad(c) ==
    /\ call[c].at = "load"
    /\ IF call[c].id \in stored THEN Goto(c, "resolve") ELSE Return(c)
    /\ UNCHANGED <<stored, running, status, lock, task>>

(* The session password and the vault may be missing or locked.            *)
StartResolve(c) ==
    /\ call[c].at = "resolve"
    /\ Goto(c, "acquire") \/ Return(c)
    /\ UNCHANGED <<stored, running, status, lock, task>>

LockFree(i) == lock[i] = None

(* Mutant: the exclusive mode of the lock is not asked for.                *)
LockShared(i) == lock[i] = lock[i]

(* ModuleLock::try_acquire does not wait: when it is held the start fails. *)
CanAcquire(i) == LockFree(i)

StartAcquire(c) ==
    LET i == call[c].id IN
    /\ call[c].at = "acquire"
    /\ IF CanAcquire(i)
         THEN Goto(c, "announce") /\ lock' = [lock EXCEPT ![i] = c]
         ELSE Return(c) /\ UNCHANGED lock
    /\ UNCHANGED <<stored, running, status, task>>

StartAnnounce(c) ==
    /\ call[c].at = "announce"
    /\ SetStatus(call[c].proc, call[c].id, "starting")
    /\ Goto(c, "spawn")
    /\ UNCHANGED <<stored, running, lock, task>>

(* The lock moves into the spawned task.                                   *)
StartSpawn(c) ==
    LET s == call[c] IN
    /\ s.at = "spawn"
    /\ task' = [task EXCEPT ![s.task] =
          [at |-> "setup", proc |-> s.proc, id |-> s.id, aborted |-> FALSE,
           bridges |-> 0, loose |-> FALSE]]
    /\ lock' = [lock EXCEPT ![s.id] = s.task]
    /\ Goto(c, "register")
    /\ UNCHANGED <<stored, running, status>>

(* Only now, and whatever the task has done since, is it registered.       *)
StartRegister(c) ==
    LET s == call[c] IN
    /\ s.at = "register" /\ RegistryFree(s.proc)
    /\ running' = [running EXCEPT ![s.proc][s.id] = s.task]
    /\ Return(c)
    /\ UNCHANGED <<stored, status, lock, task>>

DeleteUnstore(c) ==
    /\ call[c].at = "unstore"
    /\ stored' = stored \ {call[c].id}
    /\ Goto(c, "remove")
    /\ UNCHANGED <<running, status, lock, task>>

(* stop_tunnel and delete_tunnel: remove the entry and abort its task.     *)
StopRemove(c) ==
    LET s == call[c]  t == running[s.proc][s.id] IN
    /\ s.at = "remove" /\ RegistryFree(s.proc)
    /\ running' = [running EXCEPT ![s.proc][s.id] = None]
    /\ IF t # None
         THEN /\ task' = [task EXCEPT ![t].aborted = TRUE]
              /\ call' = [call EXCEPT ![c] = [@ EXCEPT !.at = "bridges",
                                                       !.task = t]]
         ELSE Goto(c, "settle") /\ UNCHANGED task
    /\ UNCHANGED <<stored, status, lock>>

StopBridges(c) ==
    /\ call[c].at = "bridges"
    /\ task' = [task EXCEPT ![call[c].task].bridges = 0]
    /\ Goto(c, "settle")
    /\ UNCHANGED <<stored, running, status, lock>>

(* stop_tunnel leaves Stopped, delete_tunnel no status at all.             *)
StopSettle(c) ==
    LET s == call[c] IN
    /\ s.at = "settle"
    /\ SetStatus(s.proc, s.id, IF s.op = "delete" THEN "none" ELSE "stopped")
    /\ Return(c)
    /\ UNCHANGED <<stored, running, lock, task>>

-----------------------------------------------------------------------------
(* The spawned task.  The steps that wait for the network start a poll and *)
(* an aborted task is not polled again; the others may belong to the poll  *)
(* that the abort came in.                                                 *)

TaskGoto(t, at) == task' = [task EXCEPT ![t].at = at]

(* The listener is bound and the SSH session authenticated.                *)
TaskConnect(t) ==
    /\ task[t].at = "setup" /\ ~task[t].aborted
    /\ TaskGoto(t, "connected")
    /\ UNCHANGED <<stored, running, status, lock, call>>

(* Bind, handshake or authentication failed, or the kind is Remote.        *)
TaskFail(t) ==
    /\ task[t].at = "setup" /\ ~task[t].aborted
    /\ TaskGoto(t, "failed")
    /\ UNCHANGED <<stored, running, status, lock, call>>

TaskReady(t) ==
    /\ task[t].at = "connected"
    /\ SetStatus(task[t].proc, task[t].id, "running")
    /\ TaskGoto(t, "serving")
    /\ UNCHANGED <<stored, running, lock, call>>

(* listener.accept() and tokio::spawn of the bridge                        *)
TaskAccept(t) ==
    /\ task[t].at = "serving" /\ ~task[t].aborted
    /\ ~task[t].loose /\ task[t].bridges < MaxBridges
    /\ task' = [task EXCEPT ![t].loose = TRUE]
    /\ UNCHANGED <<stored, running, status, lock, call>>

(* bridges.lock().await.push(task)                                         *)
TaskPush(t) ==
    /\ task[t].at = "serving" /\ task[t].loose
    /\ task' = [task EXCEPT ![t] = [@ EXCEPT !.loose = FALSE,
                                              !.bridges = task[t].bridges + 1]]
    /\ UNCHANGED <<stored, running, status, lock, call>>

(* A bridge ends by itself when both sides have closed.                    *)
BridgeEnd(t) ==
    /\ \/ task[t].bridges > 0 /\ task' = [task EXCEPT ![t].bridges = @ - 1]
       \/ task[t].at = "done" /\ task[t].loose
          /\ task' = [task EXCEPT ![t].loose = FALSE]
    /\ UNCHANGED <<stored, running, status, lock, call>>

(* Mutant: the error is returned and nobody reports it.                    *)
TaskErrorUnreported(t) ==
    /\ task[t].at = "failed"
    /\ TaskGoto(t, "cleanup")
    /\ UNCHANGED <<stored, running, status, lock, call>>

Unlocked(t) == [lock EXCEPT ![task[t].id] = IF @ = t THEN None ELSE @]

(* Mutant: the lock is given back as soon as the forwarder has failed.     *)
TaskErrorUnlocks(t) ==
    /\ task[t].at = "failed"
    /\ SetStatus(task[t].proc, task[t].id, "error")
    /\ TaskGoto(t, "cleanup")
    /\ lock' = Unlocked(t)
    /\ UNCHANGED <<stored, running, call>>

(* The error of the forwarder becomes its status.                          *)
TaskError(t) ==
    /\ task[t].at = "failed"
    /\ SetStatus(task[t].proc, task[t].id, "error")
    /\ TaskGoto(t, "cleanup")
    /\ UNCHANGED <<stored, running, lock, call>>

(* The bridges are aborted and the entry of the id removed, whosever it is.*)
TaskCleanup(t) ==
    LET s == task[t] IN
    /\ s.at = "cleanup" /\ RegistryFree(s.proc)
    /\ running' = [running EXCEPT ![s.proc][s.id] = None]
    /\ task' = [task EXCEPT ![t] = [@ EXCEPT !.at = "exiting",
                                              !.bridges = 0]]
    /\ UNCHANGED <<stored, status, lock, call>>

(* The future's locals are dropped, _process_lock last.                    *)
TaskExit(t) ==
    /\ task[t].at = "exiting"
    /\ TaskGoto(t, "done")
    /\ lock' = Unlocked(t)
    /\ UNCHANGED <<stored, running, status, call>>

(* Mutant: the SSH connection is set up where abort cannot reach it.       *)
CancelPointsAfterSetup == LiveAt \ {"exiting", "setup"}

(* The awaits at which a task can find itself aborted.                     *)
CancelPoints == LiveAt \ {"exiting"}

Cancellable(t) == task[t].aborted /\ task[t].at \in CancelPoints

(* An aborted task is dropped at an await, the lock with it.               *)
TaskCancel(t) ==
    /\ Cancellable(t)
    /\ TaskGoto(t, "done")
    /\ lock' = Unlocked(t)
    /\ UNCHANGED <<stored, running, status, call>>

-----------------------------------------------------------------------------
(* A process exits or is killed and may be started again: its memory is    *)
(* gone and the operating system releases its locks.                       *)
Mine(p, h) == \/ h \in Task /\ Live(h) /\ task[h].proc = p
              \/ h \in Call /\ call[h].proc = p

Crash(p) ==
    /\ running' = [running EXCEPT ![p] = [i \in Id |-> None]]
    /\ status' = [status EXCEPT ![p] = [i \in Id |-> "none"]]
    /\ lock' = [i \in Id |-> IF Mine(p, lock[i]) THEN None ELSE lock[i]]
    /\ call' = [c \in Call |-> IF call[c].proc = p
                  THEN [call[c] EXCEPT !.at = "idle", !.todo = {}, !.task = None]
                  ELSE call[c]]
    /\ task' = [t \in Task |-> IF task[t].proc = p /\ task[t].at # "unborn"
                  THEN [task[t] EXCEPT !.at = "done", !.bridges = 0,
                                       !.loose = FALSE]
                  ELSE task[t]]
    /\ UNCHANGED stored

CallStep(c) ==
    \/ StartCheck(c) \/ StartLoad(c) \/ StartResolve(c) \/ StartAcquire(c)
    \/ StartAnnounce(c) \/ StartSpawn(c) \/ StartRegister(c)
    \/ DeleteUnstore(c) \/ StopRemove(c) \/ StopBridges(c) \/ StopSettle(c)
    \/ CommandNext(c)

TaskStep(t) ==
    \/ TaskConnect(t) \/ TaskFail(t) \/ TaskReady(t) \/ TaskAccept(t)
    \/ TaskPush(t) \/ BridgeEnd(t) \/ TaskError(t) \/ TaskCleanup(t)
    \/ TaskExit(t) \/ TaskCancel(t)

Next ==
    \/ \E i \in Id : Upsert(i)
    \/ \E c \in Call, p \in Process :
          \/ \E i \in Id, op \in {"start", "stop", "delete"} : Command(c, p, i, op)
          \/ \E op \in {"start", "stop"}, ids \in SUBSET Id : CommandAll(c, p, op, ids)
    \/ \E c \in Call : CallStep(c)
    \/ \E t \in Task : TaskStep(t)
    \/ \E p \in Process : Crash(p)

Spec == Init /\ [][Next]_vars

(***************************************************************************)
(* The scheduler polls every task and every command; nothing is assumed of *)
(* the SSH server, which may never answer (there is no connect timeout).   *)
(***************************************************************************)
Fairness ==
    /\ \A c \in Call : WF_vars(CallStep(c))
    /\ \A t \in Task : WF_vars(TaskReady(t) \/ TaskPush(t) \/ TaskError(t)
                               \/ TaskCleanup(t) \/ TaskExit(t) \/ TaskCancel(t))

FairSpec == Spec /\ Fairness

-----------------------------------------------------------------------------
(***************************************************************************)
(* Whichever processes and windows start a tunnel, at most one forwarder   *)
(* of an id is alive: "own it by tunnel id for the task lifetime".         *)
(***************************************************************************)
OneForwarder ==
    \A t, u \in Task : Live(t) /\ Live(u) /\ task[t].id = task[u].id => t = u

(***************************************************************************)
(* A forwarder that fails removes the entry of its id without looking      *)
(* whose it is.  It never takes the entry of another live forwarder away,  *)
(* which would leave that one out of reach of stop_tunnel.                 *)
(***************************************************************************)
CleanupSparesOthers ==
    [][\A t, u \in Task : \A p \in Process, i \in Id :
          /\ task[t].at = "cleanup" /\ task'[t].at = "exiting"
          /\ running[p][i] = u /\ running'[p][i] # u /\ u # t
          => ~Live(u)]_vars

(***************************************************************************)
(* A tunnel shown as Starting has something working on it: a start, a      *)
(* forwarder that will report, or a stop that will overwrite the status.   *)
(***************************************************************************)
StartingIsLive ==
    \A p \in Process, i \in Id : status[p][i] = "starting" =>
        \/ \E c \in Call : /\ call[c].proc = p /\ call[c].id = i
                           /\ call[c].at \in {"spawn", "bridges", "settle"}
        \/ \E t \in Task : /\ task[t].proc = p /\ task[t].id = i
                           /\ task[t].at \in {"setup", "connected", "failed"}

(***************************************************************************)
(* A tunnel shown as failed is not forwarding: the error of an earlier     *)
(* forwarder never hides a later one that serves.                          *)
(***************************************************************************)
ErrorMeansDown ==
    \A t \in Task : Live(t) /\ status[task[t].proc][task[t].id] = "error"
        => task[t].at \in {"cleanup", "exiting"}

(***************************************************************************)
(* A stopped forwarder gives the lock back, also when the SSH server never *)
(* answers, so the tunnel can be started again.                            *)
(***************************************************************************)
StopReleases == \A t \in Task : task[t].aborted ~> ~Live(t)
=============================================================================
