----------------------------- MODULE Supervisor -----------------------------
(***************************************************************************)
(* The device engine's Supervisor (backend/engine/supervisor.py): one      *)
(* asyncio event loop that runs a task per virtual device.  Work reaches   *)
(* it from the startup poll of the database and from a Redis pub/sub       *)
(* channel; SIGTERM shuts it down.  Code between two awaits is atomic and  *)
(* is one action here; every await is a point where any other task runs.   *)
(*                                                                         *)
(* Cancelling an asyncio task makes its current await raise                *)
(* CancelledError, which no handler of this code swallows: a cancelled     *)
(* task executes nothing more, so it ends in the step that cancels it.     *)
(* The HTTP request it was awaiting is not recalled: it stays in the       *)
(* network (adoptNet, markNet) and may still be served.                    *)
(***************************************************************************)
EXTENDS Naturals, Sequences, WorkerCommands

CONSTANTS
  TaskId,       \* names for the asyncio tasks that exist for one device
  NoTask,       \* "device_id not in self._tasks"
  MaxAttempts,  \* AUTO_ADOPT_MAX_ATTEMPTS
  InboxBound,   \* bound: commands buffered on the subscriber's connection
  DelayBound    \* bound: sleeping delayed-spawn tasks of a kind per device

ASSUME TaskIdAssumption == NoTask \notin TaskId /\ TaskId # {}
ASSUME MaxAttemptsAssumption == MaxAttempts \in Nat \ {0}
ASSUME BoundAssumption == InboxBound \in Nat /\ DelayBound \in Nat

VARIABLES
  phase,     \* where the process is between Boot and exit
  cmdLoop,   \* the command task: _consume_commands
  inbox,     \* pub/sub messages received and not yet handled, in order
  tasks,     \* self._tasks: device id -> task
  run,       \* the coroutine state of every device task
  delayed,   \* number of _delayed_spawn tasks per device and auto_adopt flag
  toCancel,  \* shutdown(): devices of its snapshot still to be awaited
  adoptNet,  \* devices with an adopt request on its way to the controller
  accepted,  \* devices the controller has adopted
  markNet    \* devices with a mark-adopted callback on its way to Django

memory  == <<cmdLoop, inbox, tasks, run, delayed, toCancel>>
network == <<adoptNet, accepted, markNet>>
supVars == <<phase, cmdLoop, inbox, tasks, run, delayed, toCancel,
             adoptNet, accepted, markNet>>

\* Program counters of _run_device: the awaits of _auto_adopt_device, then
\* the sleep loop; "failed" is a task that ended with an exception, "done"
\* one whose loop saw _stop, "none" a task that does not exist.
AdoptPC == {"context", "login", "adopt", "backoff", "notify"}
LivePC  == AdoptPC \cup {"loop"}
PC      == LivePC \cup {"none", "failed", "done"}
Run     == [pc : PC, attempt : 0..MaxAttempts]

At(pc, n) == [pc |-> pc, attempt |-> n]
NoRun     == At("none", 0)

Live(d, k)   == run[d][k].pc \in LivePC
Unused(d, k) == run[d][k].pc = "none"
Stopping     == phase \in {"stopping", "cancelling", "disposing", "aborted"}

TypeOK ==
  /\ phase \in {"down", "polling", "running", "stopping", "cancelling",
                "disposing", "aborted"}
  /\ cmdLoop \in {"off", "subscribing", "listening", "dead"}
  /\ inbox \in Seq(Command)
  /\ tasks \in [Device -> TaskId \cup {NoTask}]
  /\ run \in [Device -> [TaskId -> Run]]
  /\ delayed \in [Device -> [BOOLEAN -> Nat]]
  /\ toCancel \in SUBSET Device
  /\ adoptNet \in SUBSET Device
  /\ accepted \in SUBSET Device
  /\ markNet \in SUBSET Device

Init ==
  /\ phase = "down"
  /\ cmdLoop = "off"
  /\ inbox = << >>
  /\ tasks = [d \in Device |-> NoTask]
  /\ run = [d \in Device |-> [k \in TaskId |-> NoRun]]
  /\ delayed = [d \in Device |-> [a \in BOOLEAN |-> 0]]
  /\ toCancel = {}
  /\ adoptNet = {} /\ accepted = {} /\ markNet = {}

-----------------------------------------------------------------------------
(* Process lifecycle: engine/main.py, start(), supervisord restarts.       *)

\* supervisord starts (or restarts) the engine; start() awaits the poll.
Boot ==
  /\ phase = "down"
  /\ phase' = "polling"
  /\ UNCHANGED <<memory, network>>

\* A task that comes to the loop of _run_device tests _stop before it sleeps.
LoopStart == IF Stopping THEN At("done", 0) ELSE At("loop", 0)

\* A new task object for d; its first step runs to its first await.
FreshTask(d) == CHOOSE k \in TaskId : Unused(d, k)
Started(auto) == IF auto THEN At("context", 0) ELSE LoopStart

\* start(): the poll returns (or failed: found = {}), every pending device is
\* spawned without auto_adopt, and only then the command task is created.
StartupPoll(found) ==
  /\ phase = "polling"
  /\ phase' = "running"
  /\ tasks' = [d \in Device |-> IF d \in found THEN FreshTask(d) ELSE tasks[d]]
  /\ run' = [d \in Device |->
               IF d \in found THEN [run[d] EXCEPT ![FreshTask(d)] = Started(FALSE)]
                              ELSE run[d]]
  /\ cmdLoop' = "subscribing"
  /\ UNCHANGED <<inbox, delayed, toCancel, network>>

\* The process is gone: its memory with it, its requests in flight are not.
ProcessGone ==
  /\ phase' = "down"
  /\ cmdLoop' = "off"
  /\ inbox' = << >>
  /\ tasks' = [d \in Device |-> NoTask]
  /\ run' = [d \in Device |-> [k \in TaskId |-> NoRun]]
  /\ delayed' = [d \in Device |-> [a \in BOOLEAN |-> 0]]
  /\ toCancel' = {}
  /\ UNCHANGED network

\* SIGKILL, OOM, or a SIGTERM before the handlers are installed.
Crash == phase # "down" /\ ProcessGone

-----------------------------------------------------------------------------
(* The command task: subscribe_worker_commands and _consume_commands.      *)

Subscribe ==
  /\ cmdLoop = "subscribing"
  /\ cmdLoop' = "listening"
  /\ UNCHANGED <<phase, inbox, tasks, run, delayed, toCancel, network>>

\* Redis refuses or drops the connection: the exception is logged, the task
\* ends, and nothing starts it again.
ListenFails ==
  /\ cmdLoop \in {"subscribing", "listening"}
  /\ cmdLoop' = "dead"
  /\ inbox' = << >>
  /\ UNCHANGED <<phase, tasks, run, delayed, toCancel, network>>

\* Redis delivers a published message at most once, to current subscribers.
Deliver(c) ==
  /\ cmdLoop = "listening"
  /\ Len(inbox) < InboxBound
  /\ inbox' = Append(inbox, c)
  /\ UNCHANGED <<phase, cmdLoop, tasks, run, delayed, toCancel, network>>

NextCommand(action) ==
  /\ cmdLoop = "listening"
  /\ inbox # << >>
  /\ Head(inbox).action = action
  /\ inbox' = Tail(inbox)
  /\ UNCHANGED <<phase, cmdLoop, toCancel, network>>

\* "spawn" only creates a _delayed_spawn task, whatever the delay.
HandleSpawn ==
  /\ NextCommand("spawn")
  /\ LET c == Head(inbox) IN
       /\ delayed[c.dev][c.auto] < DelayBound
       /\ delayed' = [delayed EXCEPT ![c.dev][c.auto] = @ + 1]
  /\ UNCHANGED <<tasks, run>>

\* Mutant: the task is popped but not cancelled.
DespawnKeepsTask ==
  /\ NextCommand("despawn")
  /\ tasks' = [tasks EXCEPT ![Head(inbox).dev] = NoTask]
  /\ UNCHANGED <<run, delayed>>

\* _despawn_device: pop the task and cancel it; sleeping _delayed_spawn tasks
\* are not known to anyone and stay.
HandleDespawn ==
  /\ NextCommand("despawn")
  /\ LET d == Head(inbox).dev IN
       /\ tasks' = [tasks EXCEPT ![d] = NoTask]
       /\ run' = IF tasks[d] = NoTask THEN run
                 ELSE [run EXCEPT ![d][tasks[d]] = NoRun]
  /\ UNCHANGED delayed

HandleForceInform ==
  /\ NextCommand("force_inform")
  /\ UNCHANGED <<tasks, run, delayed>>

HandleCommand == HandleSpawn \/ HandleDespawn \/ HandleForceInform

\* Mutant: no membership test, a second spawn replaces the entry.
SpawnAgain(d, auto) ==
  /\ \E k \in TaskId : Unused(d, k)
  /\ tasks' = [tasks EXCEPT ![d] = FreshTask(d)]
  /\ run' = [run EXCEPT ![d][FreshTask(d)] = Started(auto)]

\* _spawn_device: a device that is already a key of _tasks is left alone,
\* whatever became of its task.
SpawnDevice(d, auto) ==
  \/ tasks[d] # NoTask /\ UNCHANGED <<tasks, run>>
  \/ /\ tasks[d] = NoTask
     /\ \E k \in TaskId : Unused(d, k)
     /\ tasks' = [tasks EXCEPT ![d] = FreshTask(d)]
     /\ run' = [run EXCEPT ![d][FreshTask(d)] = Started(auto)]

\* Mutant: the delayed spawn gives up when its device is unknown to _tasks.
SpawnOnlyKnown(d, auto) ==
  /\ delayed[d][auto] > 0
  /\ delayed' = [delayed EXCEPT ![d][auto] = @ - 1]
  /\ UNCHANGED <<tasks, run, phase, cmdLoop, inbox, toCancel, network>>

\* The sleep of a _delayed_spawn task is over.
DelayedSpawn(d, auto) ==
  /\ delayed[d][auto] > 0
  /\ delayed' = [delayed EXCEPT ![d][auto] = @ - 1]
  /\ SpawnDevice(d, auto)
  /\ UNCHANGED <<phase, cmdLoop, inbox, toCancel, network>>

-----------------------------------------------------------------------------
(* A device task: _run_device, _auto_adopt_device, _notify_adopted.        *)

Goto(d, k, from, to) ==
  /\ run[d][k].pc \in from
  /\ run' = [run EXCEPT ![d][k] = to]
  /\ UNCHANGED <<phase, cmdLoop, inbox, tasks, delayed, toCancel, accepted>>

\* _load_adopt_context found the row and its controller: first attempt.
ContextLoaded(d, k) ==
  /\ Goto(d, k, {"context"}, At("login", 1))
  /\ UNCHANGED <<adoptNet, markNet>>

\* No such row, or no controller: no adoption, on to the loop.
ContextSkipped(d, k) ==
  /\ Goto(d, k, {"context"}, LoopStart)
  /\ UNCHANGED <<adoptNet, markNet>>

\* The query raises outside any try: the task ends, _tasks still names it.
ContextFails(d, k) ==
  /\ Goto(d, k, {"context"}, At("failed", 0))
  /\ UNCHANGED <<adoptNet, markNet>>

\* login() returned; adopt(mac) is sent.
LoginOk(d, k) ==
  /\ Goto(d, k, {"login"}, At("adopt", run[d][k].attempt))
  /\ adoptNet' = adoptNet \cup {d}
  /\ UNCHANGED markNet

\* Mutant: any answer to adopt(mac) counts as success.
AdoptAnyAnswer(d, k) ==
  /\ Goto(d, k, {"adopt"}, At("notify", 0))
  /\ markNet' = markNet \cup {d}
  /\ UNCHANGED adoptNet

\* adopt(mac) was answered with success; the callback to Django is sent.
AdoptOk(d, k) ==
  /\ d \in accepted
  /\ Goto(d, k, {"adopt"}, At("notify", 0))
  /\ markNet' = markNet \cup {d}
  /\ UNCHANGED adoptNet

\* 4xx from login or adopt: retrying cannot help, the task gives up.
ClientError(d, k) ==
  /\ Goto(d, k, {"login", "adopt"}, LoopStart)
  /\ UNCHANGED <<adoptNet, markNet>>

\* Mutant: no test whether the attempts are used up.
RetryUnbounded(d, k) ==
  /\ Goto(d, k, {"login", "adopt"}, At("backoff", run[d][k].attempt))
  /\ UNCHANGED <<adoptNet, markNet>>

\* Mutant: the attempt counter is reset with every failure.
RetryForever(d, k) ==
  /\ Goto(d, k, {"login", "adopt"}, At("backoff", 1))
  /\ UNCHANGED <<adoptNet, markNet>>

\* 5xx, timeout or any other exception: back off, or give up for good.
TransientError(d, k) ==
  /\ Goto(d, k, {"login", "adopt"},
          IF run[d][k].attempt >= MaxAttempts THEN LoopStart
          ELSE At("backoff", run[d][k].attempt))
  /\ UNCHANGED <<adoptNet, markNet>>

BackoffOver(d, k) ==
  /\ Goto(d, k, {"backoff"}, At("login", run[d][k].attempt + 1))
  /\ UNCHANGED <<adoptNet, markNet>>

\* _notify_adopted returns: answered, or failed and the error was logged.
NotifyReturns(d, k) ==
  /\ Goto(d, k, {"notify"}, LoopStart)
  /\ UNCHANGED <<adoptNet, markNet>>

\* The loop wakes from its sleep and finds _stop set.
LoopSeesStop(d, k) ==
  /\ Stopping
  /\ Goto(d, k, {"loop"}, At("done", 0))
  /\ UNCHANGED <<adoptNet, markNet>>

TaskStep(d, k) ==
  \/ ContextLoaded(d, k) \/ ContextSkipped(d, k) \/ ContextFails(d, k)
  \/ LoginOk(d, k) \/ AdoptOk(d, k) \/ ClientError(d, k)
  \/ TransientError(d, k) \/ BackoffOver(d, k) \/ NotifyReturns(d, k)
  \/ LoopSeesStop(d, k)

-----------------------------------------------------------------------------
(* shutdown() and the end of asyncio.run.                                  *)

\* Mutant: the command task is left to run during shutdown.
StopKeepsCommands ==
  /\ phase = "running"
  /\ phase' = "stopping"
  /\ UNCHANGED <<cmdLoop, inbox, tasks, run, delayed, toCancel, network>>

\* SIGTERM: _stop is set, the command task is cancelled and awaited.
RequestStop ==
  /\ phase = "running"
  /\ phase' = "stopping"
  /\ cmdLoop' = "off"
  /\ inbox' = << >>
  /\ UNCHANGED <<tasks, run, delayed, toCancel, network>>

\* The devices shutdown() still has to go through: all of self._tasks when it
\* takes its snapshot, the rest of that snapshot later.  The order of the
\* dictionary is left open: any device of the rest may be the next.
ToWalk ==
  IF phase = "stopping" THEN {d \in Device : tasks[d] # NoTask}
  ELSE IF phase = "cancelling" THEN toCancel ELSE {}

\* task.cancel() on a task that still runs; others run while it is awaited.
\* (A task whose loop had ended is awaited without giving way.)
CancelTask(d) ==
  /\ d \in ToWalk
  /\ Live(d, tasks[d])
  /\ phase' = "cancelling"
  /\ toCancel' = ToWalk \ {d}
  /\ run' = [run EXCEPT ![d][tasks[d]] = NoRun]
  /\ UNCHANGED <<cmdLoop, inbox, tasks, delayed, network>>

\* Mutant: the await of a failed task does not return.
AwaitHangs(d) ==
  /\ d \in ToWalk
  /\ run[d][tasks[d]].pc = "failed"
  /\ UNCHANGED supVars

\* Only CancelledError is suppressed: the await of a task that had failed
\* raises its exception and ends shutdown().
AwaitRaises(d) ==
  /\ d \in ToWalk
  /\ run[d][tasks[d]].pc = "failed"
  /\ phase' = "aborted"
  /\ toCancel' = {}
  /\ UNCHANGED <<cmdLoop, inbox, tasks, run, delayed, network>>

\* Nothing is left to await: the walk ends and self._tasks.clear() follows at
\* once, before the await of the engine's dispose().
ClearTasks ==
  /\ phase \in {"stopping", "cancelling"}
  /\ \A d \in ToWalk : run[d][tasks[d]].pc = "done"
  /\ phase' = "disposing"
  /\ tasks' = [d \in Device |-> NoTask]
  /\ toCancel' = {}
  /\ UNCHANGED <<cmdLoop, inbox, run, delayed, network>>

\* shutdown() returned or raised: asyncio.run cancels what is left and exits.
Exit == phase \in {"disposing", "aborted"} /\ ProcessGone

Shutdown ==
  \/ \E d \in Device : CancelTask(d) \/ AwaitRaises(d)
  \/ ClearTasks \/ Exit

-----------------------------------------------------------------------------
(* What answers the worker: the controller, and the callback's delivery.   *)

\* The controller serves an adopt request, whether or not it is still awaited.
ControllerAdopts(d) ==
  /\ d \in adoptNet
  /\ adoptNet' = adoptNet \ {d}
  /\ accepted' = accepted \cup {d}
  /\ UNCHANGED <<phase, memory, markNet>>

\* The request is lost, or the controller refuses it.
AdoptRequestLost(d) ==
  /\ d \in adoptNet
  /\ adoptNet' = adoptNet \ {d}
  /\ UNCHANGED <<phase, memory, accepted, markNet>>

\* The callback leaves the network: served by Django, or lost.
MarkRequestGone(d) ==
  /\ d \in markNet
  /\ markNet' = markNet \ {d}
  /\ UNCHANGED <<phase, memory, adoptNet, accepted>>

-----------------------------------------------------------------------------
WorkerNext ==
  \/ Boot \/ Crash
  \/ Subscribe \/ ListenFails \/ HandleCommand
  \/ \E d \in Device, auto \in BOOLEAN : DelayedSpawn(d, auto)
  \/ \E d \in Device, k \in TaskId : TaskStep(d, k)
  \/ RequestStop \/ Shutdown

EnvironmentNext ==
  \/ \E c \in Command : Deliver(c)
  \/ \E d \in Device : ControllerAdopts(d) \/ AdoptRequestLost(d) \/ MarkRequestGone(d)

Next ==
  \/ WorkerNext
  \/ \E found \in SUBSET Device : StartupPoll(found)
  \/ EnvironmentNext

\* The event loop runs every ready task, each await ends (httpx times out
\* after 10 s, sleeps are finite) and supervisord restarts the process.
\* Nothing forces a crash, a lost connection, a signal or a command.
Fairness ==
  /\ WF_supVars(Boot)
  /\ WF_supVars(\E found \in SUBSET Device : StartupPoll(found))
  /\ WF_supVars(Subscribe)
  /\ WF_supVars(HandleCommand)
  /\ \A d \in Device, auto \in BOOLEAN : WF_supVars(DelayedSpawn(d, auto))
  /\ \A d \in Device, k \in TaskId : WF_supVars(TaskStep(d, k))
  /\ WF_supVars(Shutdown)

Spec == Init /\ [][Next]_supVars /\ Fairness
-----------------------------------------------------------------------------
(* Properties.                                                             *)

\* A device never has two loops at once, whatever spawns, despawns, delays and
\* polls reach the supervisor: _spawn_device checks _tasks and registers
\* without an await in between, and _despawn_device cancels what it pops.
\* (shutdown() clears _tasks before the loop is closed: see "disposing".)
OneLoopPerDevice ==
  phase # "disposing" =>
    \A d \in Device : \A j, k \in TaskId : Live(d, j) /\ Live(d, k) => j = k

\* Every live loop is the one _tasks names, so a despawn can reach it.
LoopsAreRegistered ==
  phase # "disposing" =>
    \A d \in Device, k \in TaskId : Live(d, k) => tasks[d] = k

\* The worker tells Django that a device is adopted only once the controller
\* has adopted it, across retries, lost answers, crashes and respawns.
NotifyOnlyAccepted ==
  \A d \in Device :
    d \in markNet \/ (\E k \in TaskId : run[d][k].pc = "notify") => d \in accepted

\* A process that has not finished booting has no tasks of any kind.
BootClean ==
  phase \in {"down", "polling"} =>
    /\ tasks = [d \in Device |-> NoTask]
    /\ run = [d \in Device |-> [k \in TaskId |-> NoRun]]
    /\ delayed = [d \in Device |-> [a \in BOOLEAN |-> 0]]

\* Commands are handled only while the process is neither booting nor
\* stopping.
CommandsOnlyWhileRunning == phase # "running" => cmdLoop = "off"

\* What shutdown() still has to cancel is still registered.
CancelsRegistered ==
  phase = "cancelling" => \A d \in toCancel : tasks[d] # NoTask

\* While the process runs, an entry of _tasks is a task that runs, or one that
\* its exception ended: no task ends in any other way, and a despawn pops its
\* entry.
EntriesHaveTasks ==
  phase = "running" =>
    \A d \in Device :
      tasks[d] # NoTask => run[d][tasks[d]].pc \in LivePC \cup {"failed"}

\* An attempt number belongs to an adoption in progress, and a backoff leaves
\* room for one more.
AttemptsInRange ==
  \A d \in Device, k \in TaskId :
    LET r == run[d][k] IN
      /\ r.pc \in {"login", "adopt", "backoff"} <=> r.attempt > 0
      /\ r.pc = "backoff" => r.attempt < MaxAttempts

\* The inductive invariant: what the safety properties of the supervisor need
\* to survive a step, whichever step it is.
SupervisorInv ==
  /\ TypeOK
  /\ BootClean
  /\ CommandsOnlyWhileRunning
  /\ CancelsRegistered
  /\ EntriesHaveTasks
  /\ AttemptsInRange
  /\ LoopsAreRegistered
  /\ NotifyOnlyAccepted

\* Each task's adoption, seen as AutoAdopt: context and retries are "asking".
Stage(d, k) ==
  LET pc == run[d][k].pc IN
    IF pc \in {"context", "login", "adopt", "backoff"} THEN "asking"
    ELSE IF pc = "notify" THEN "telling"
    ELSE IF pc = "none" THEN "absent" ELSE "settled"

Adoption(d, k) ==
  INSTANCE AutoAdopt WITH MaxTries <- MaxAttempts, stage <- Stage(d, k),
                          tries <- run[d][k].attempt, granted <- d \in accepted

\* A spawn command the loop has taken ends with the device registered in
\* _tasks, unless the process stops or dies first.
SpawnIsServed ==
  \A d \in Device, auto \in BOOLEAN :
    delayed[d][auto] > 0 ~> tasks[d] # NoTask \/ phase # "running"

\* A requested stop ends the process, even when a device task had failed.
ShutdownEnds == phase = "stopping" ~> phase = "down"

\* engine/supervisor.py:12 "Shutdown — cancel every running device task
\* cleanly": when shutdown() has gone through _tasks and clears it, no device
\* task runs on.
ShutdownCancelsAll ==
  [][phase' = "disposing" /\ phase # "disposing" =>
       \A d \in Device, k \in TaskId : ~Live(d, k)']_supVars
=============================================================================
