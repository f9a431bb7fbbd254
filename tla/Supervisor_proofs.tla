-------------------------- MODULE Supervisor_proofs -------------------------
(***************************************************************************)
(* Proofs about Supervisor, for every set of devices and of task names and *)
(* every number of attempts: SupervisorInv is inductive, and the safety    *)
(* properties follow from it.                                              *)
(***************************************************************************)
EXTENDS Supervisor, TLAPS

USE TaskIdAssumption, MaxAttemptsAssumption, BoundAssumption

\* What a task enters the loop with: it has made no attempt, and it is done at
\* once only when _stop is set.
LEMMA LoopStartOK ==
  /\ LoopStart \in Run
  /\ LoopStart.pc \in {"loop", "done"}
  /\ LoopStart.attempt = 0
  /\ phase \in {"polling", "running"} => LoopStart.pc = "loop"
  BY DEF LoopStart, Stopping, At, Run, PC, LivePC, AdoptPC

\* Started is a coroutine state that has made no attempt.
LEMMA StartedOK ==
  ASSUME NEW auto \in BOOLEAN
  PROVE  /\ Started(auto) \in Run
         /\ Started(auto).pc \in {"context", "loop", "done"}
         /\ Started(auto).attempt = 0
         /\ phase \in {"polling", "running"} => Started(auto).pc \in LivePC
  BY LoopStartOK DEF Started, At, Run, PC, LivePC, AdoptPC

\* The record of a device without a task is a record of a task.
LEMMA NoRunOK ==
  /\ NoRun \in Run
  /\ NoRun.pc = "none" /\ NoRun.attempt = 0
  BY DEF NoRun, At, Run, PC

\* A device has a task name left that no live task uses (supervisor.py 161-164).
LEMMA FreshTaskOK ==
  ASSUME NEW d \in Device, \E k \in TaskId : Unused(d, k)
  PROVE  FreshTask(d) \in TaskId /\ Unused(d, FreshTask(d))
  BY DEF FreshTask

\* The state a process starts in and leaves behind satisfies the invariant.
LEMMA CleanState ==
  ASSUME phase' = "down", cmdLoop' = "off", inbox' = << >>,
         tasks' = [d \in Device |-> NoTask],
         run' = [d \in Device |-> [k \in TaskId |-> NoRun]],
         delayed' = [d \in Device |-> [a \in BOOLEAN |-> 0]],
         toCancel' = {},
         adoptNet' \in SUBSET Device, accepted' \in SUBSET Device,
         markNet' \in SUBSET accepted'
  PROVE  SupervisorInv'
<1>1. \A d \in Device, k \in TaskId : run'[d][k] = NoRun
  OBVIOUS
<1>2. TypeOK'
  BY NoRunOK DEF TypeOK
<1>3. AttemptsInRange' /\ LoopsAreRegistered' /\ NotifyOnlyAccepted'
  BY <1>1, NoRunOK DEF AttemptsInRange, LoopsAreRegistered, NotifyOnlyAccepted,
     Live, LivePC, AdoptPC
<1> QED
  BY <1>2, <1>3 DEF SupervisorInv, BootClean, CommandsOnlyWhileRunning,
     CancelsRegistered, EntriesHaveTasks

\* A worker that has not booted satisfies SupervisorInv.
THEOREM InitEstablishesInv == Init => SupervisorInv
<1> SUFFICES ASSUME Init PROVE SupervisorInv
  OBVIOUS
<1>1. \A d \in Device, k \in TaskId : run[d][k] = NoRun
  BY DEF Init
<1>2. TypeOK
  BY NoRunOK DEF Init, TypeOK
<1>3. AttemptsInRange /\ LoopsAreRegistered /\ NotifyOnlyAccepted
  BY <1>1, NoRunOK DEF Init, AttemptsInRange, LoopsAreRegistered, NotifyOnlyAccepted,
     Live, LivePC, AdoptPC
<1> QED
  BY <1>2, <1>3 DEF Init, SupervisorInv, BootClean, CommandsOnlyWhileRunning,
     CancelsRegistered, EntriesHaveTasks

-----------------------------------------------------------------------------
(* Device tasks.                                                           *)

\* A step of one device task from a live state to one with a consistent
\* attempt number disturbs nothing but, perhaps, the network.
LEMMA GotoKeepsInv ==
  ASSUME SupervisorInv, NEW d \in Device, NEW k \in TaskId, NEW from, NEW to \in Run,
         from \subseteq LivePC,
         Goto(d, k, from, to),
         to.pc \in {"login", "adopt", "backoff"} <=> to.attempt > 0,
         to.pc = "backoff" => to.attempt < MaxAttempts,
         to.pc = "notify" => d \in accepted,
         phase = "running" => to.pc \in LivePC \cup {"failed"},
         adoptNet' \in SUBSET Device,
         markNet' = markNet \/ (d \in accepted /\ markNet' = markNet \cup {d})
  PROVE  SupervisorInv'
<1> USE DEF SupervisorInv
<1>1. run \in [Device -> [TaskId -> Run]]
  BY DEF TypeOK
<1>2. /\ run' \in [Device -> [TaskId -> Run]]
      /\ run'[d][k] = to
      /\ \A e \in Device, j \in TaskId : ~(e = d /\ j = k) => run'[e][j] = run[e][j]
  BY <1>1 DEF Goto
<1>3. Live(d, k) /\ phase \notin {"down", "polling"}
  <2>1. Live(d, k)
    BY DEF Goto, Live
  <2>2. ASSUME phase \in {"down", "polling"} PROVE FALSE
    BY <2>1, <2>2, NoRunOK DEF BootClean, Live, LivePC, AdoptPC
  <2> QED
    BY <2>1, <2>2
<1>4. TypeOK'
  BY <1>2 DEF TypeOK, Goto
<1>5. BootClean' /\ CommandsOnlyWhileRunning' /\ CancelsRegistered'
  BY <1>3 DEF BootClean, CommandsOnlyWhileRunning, CancelsRegistered, Goto
<1>6. AttemptsInRange'
  BY <1>2 DEF AttemptsInRange
<1>7. LoopsAreRegistered'
  BY <1>2, <1>3 DEF LoopsAreRegistered, Live, Goto
<1>8. NotifyOnlyAccepted'
  BY <1>2 DEF NotifyOnlyAccepted, Goto, TypeOK
<1>9. EntriesHaveTasks'
  BY <1>2 DEF EntriesHaveTasks, Goto, TypeOK
<1> QED
  BY <1>4, <1>5, <1>6, <1>7, <1>8, <1>9

\* Every step of a device task is such a step.
LEMMA TaskStepKeepsInv ==
  ASSUME SupervisorInv, NEW d \in Device, NEW k \in TaskId, TaskStep(d, k)
  PROVE  SupervisorInv'
<1> DEFINE r == run[d][k]
<1>1. r \in Run /\ (r.pc \in {"login", "adopt", "backoff"} <=> r.attempt > 0)
      /\ (r.pc = "backoff" => r.attempt < MaxAttempts)
  BY DEF SupervisorInv, TypeOK, AttemptsInRange
<1>2. adoptNet \in SUBSET Device /\ markNet \in SUBSET Device
  BY DEF SupervisorInv, TypeOK
<1>3. CASE ContextLoaded(d, k)
  <2>1. At("login", 1) \in Run
    BY DEF At, Run, PC, LivePC, AdoptPC
  <2> QED
    BY <1>2, <1>3, <2>1, GotoKeepsInv DEF ContextLoaded, At, LivePC, AdoptPC
<1>4. CASE ContextSkipped(d, k)
  BY <1>2, <1>4, LoopStartOK, GotoKeepsInv DEF ContextSkipped, LivePC, AdoptPC
<1>5. CASE ContextFails(d, k)
  <2>1. At("failed", 0) \in Run
    BY DEF At, Run, PC, LivePC, AdoptPC
  <2> QED
    BY <1>2, <1>5, <2>1, GotoKeepsInv DEF ContextFails, At, LivePC, AdoptPC
<1>6. CASE LoginOk(d, k)
  <2>1. r.attempt \in 1..MaxAttempts
    BY <1>1, <1>6 DEF LoginOk, Goto, Run
  <2>2. At("adopt", r.attempt) \in Run
    BY <2>1 DEF At, Run, PC, LivePC, AdoptPC
  <2> QED
    BY <1>2, <1>6, <2>1, <2>2, GotoKeepsInv DEF LoginOk, At, LivePC, AdoptPC
<1>7. CASE AdoptOk(d, k)
  <2>1. At("notify", 0) \in Run
    BY DEF At, Run, PC, LivePC, AdoptPC
  <2> QED
    BY <1>2, <1>7, <2>1, GotoKeepsInv DEF AdoptOk, At, LivePC, AdoptPC
<1>8. CASE ClientError(d, k)
  BY <1>2, <1>8, LoopStartOK, GotoKeepsInv DEF ClientError, LivePC, AdoptPC
<1>9. CASE TransientError(d, k)
  <2> DEFINE to == IF r.attempt >= MaxAttempts THEN LoopStart
                   ELSE At("backoff", r.attempt)
  <2>1. r.attempt \in 1..MaxAttempts
    BY <1>1, <1>9 DEF TransientError, Goto, Run
  <2>2. /\ to \in Run
        /\ to.pc \in {"login", "adopt", "backoff"} <=> to.attempt > 0
        /\ to.pc = "backoff" => to.attempt < MaxAttempts
        /\ to.pc # "notify"
        /\ phase = "running" => to.pc \in LivePC
    BY <2>1, LoopStartOK DEF At, Run, PC, LivePC, AdoptPC
  <2>3. Goto(d, k, {"login", "adopt"}, to)
    BY <1>9 DEF TransientError
  <2> HIDE DEF to
  <2> QED
    BY <1>2, <1>9, <2>2, <2>3, GotoKeepsInv DEF TransientError, LivePC, AdoptPC
<1>10. CASE BackoffOver(d, k)
  <2>1. r.attempt + 1 \in 1..MaxAttempts
    BY <1>1, <1>10 DEF BackoffOver, Goto, Run
  <2>2. At("login", r.attempt + 1) \in Run
    BY <2>1 DEF At, Run, PC, LivePC, AdoptPC
  <2> QED
    BY <1>2, <1>10, <2>1, <2>2, GotoKeepsInv DEF BackoffOver, At, LivePC, AdoptPC
<1>11. CASE NotifyReturns(d, k)
  BY <1>2, <1>11, LoopStartOK, GotoKeepsInv DEF NotifyReturns, LivePC, AdoptPC
<1>12. CASE LoopSeesStop(d, k)
  <2>1. At("done", 0) \in Run
    BY DEF At, Run, PC, LivePC, AdoptPC
  <2> QED
    BY <1>2, <1>12, <2>1, GotoKeepsInv DEF LoopSeesStop, Stopping, At, LivePC, AdoptPC
<1> QED
  BY <1>3, <1>4, <1>5, <1>6, <1>7, <1>8, <1>9, <1>10, <1>11, <1>12 DEF TaskStep

-----------------------------------------------------------------------------
(* Spawning, commands and the process lifecycle.                           *)

\* _spawn_device: the check of _tasks and the registration are one step, so
\* the only loop a device can have is the one it registers.
LEMMA SpawnKeepsRegistered ==
  ASSUME SupervisorInv, NEW d \in Device, NEW auto \in BOOLEAN,
         SpawnDevice(d, auto),
         phase' = phase, phase \notin {"down", "polling"}
  PROVE  /\ tasks' \in [Device -> TaskId \cup {NoTask}]
         /\ run' \in [Device -> [TaskId -> Run]]
         /\ \A e \in Device : tasks[e] # NoTask => tasks'[e] = tasks[e]
         /\ AttemptsInRange'
         /\ LoopsAreRegistered'
         /\ EntriesHaveTasks'
         /\ \A e \in Device, j \in TaskId :
              run'[e][j].pc = "notify" => run[e][j].pc = "notify"
<1> USE DEF SupervisorInv
<1>1. run \in [Device -> [TaskId -> Run]] /\ tasks \in [Device -> TaskId \cup {NoTask}]
  BY DEF TypeOK
<1>2. CASE tasks[d] # NoTask /\ UNCHANGED <<tasks, run>>
  BY <1>1, <1>2 DEF AttemptsInRange, LoopsAreRegistered, EntriesHaveTasks, Live
<1>3. CASE /\ tasks[d] = NoTask
           /\ \E k \in TaskId : Unused(d, k)
           /\ tasks' = [tasks EXCEPT ![d] = FreshTask(d)]
           /\ run' = [run EXCEPT ![d][FreshTask(d)] = Started(auto)]
  <2> DEFINE f == FreshTask(d)
  <2>1. f \in TaskId
    BY <1>3, FreshTaskOK
  <2>2. /\ tasks' \in [Device -> TaskId \cup {NoTask}]
        /\ tasks'[d] = f
        /\ \A e \in Device : e # d => tasks'[e] = tasks[e]
    BY <1>1, <1>3, <2>1
  <2>3. /\ run' \in [Device -> [TaskId -> Run]]
        /\ run'[d][f] = Started(auto)
        /\ \A e \in Device, j \in TaskId : ~(e = d /\ j = f) => run'[e][j] = run[e][j]
    BY <1>1, <1>3, <2>1, StartedOK
  <2>4. AttemptsInRange'
    BY <2>3, StartedOK DEF AttemptsInRange
  <2>5. LoopsAreRegistered'
    BY <1>3, <2>1, <2>2, <2>3 DEF LoopsAreRegistered, Live
  <2>6. \A e \in Device, j \in TaskId :
          run'[e][j].pc = "notify" => run[e][j].pc = "notify"
    BY <2>3, StartedOK
  <2>7. EntriesHaveTasks'
    BY <1>1, <2>1, <2>2, <2>3, StartedOK DEF EntriesHaveTasks
  <2> HIDE DEF f
  <2> QED
    BY <1>3, <2>2, <2>3, <2>4, <2>5, <2>6, <2>7
<1> QED
  BY <1>2, <1>3 DEF SpawnDevice

\* A sleeping spawn wakes (supervisor.py 153-156).
LEMMA DelayedSpawnKeepsInv ==
  ASSUME SupervisorInv, NEW d \in Device, NEW auto \in BOOLEAN, DelayedSpawn(d, auto)
  PROVE  SupervisorInv'
<1> USE DEF SupervisorInv
<1>1. phase \notin {"down", "polling"}
  BY DEF DelayedSpawn, BootClean
<1>2. delayed' \in [Device -> [BOOLEAN -> Nat]]
  BY DEF DelayedSpawn, TypeOK
<1>3. /\ phase' = phase /\ SpawnDevice(d, auto)
      /\ UNCHANGED <<cmdLoop, inbox, toCancel, adoptNet, accepted, markNet>>
  BY DEF DelayedSpawn, network
<1>4. /\ tasks' \in [Device -> TaskId \cup {NoTask}]
      /\ run' \in [Device -> [TaskId -> Run]]
      /\ \A e \in Device : tasks[e] # NoTask => tasks'[e] = tasks[e]
      /\ AttemptsInRange'
      /\ LoopsAreRegistered'
      /\ EntriesHaveTasks'
      /\ \A e \in Device, j \in TaskId :
           run'[e][j].pc = "notify" => run[e][j].pc = "notify"
  BY <1>1, <1>3, SpawnKeepsRegistered
<1>5. TypeOK'
  BY <1>2, <1>3, <1>4 DEF TypeOK
<1>6. CancelsRegistered'
  BY <1>3, <1>4 DEF CancelsRegistered, TypeOK
<1>7. NotifyOnlyAccepted'
  BY <1>3, <1>4 DEF NotifyOnlyAccepted
<1> QED
  BY <1>1, <1>3, <1>4, <1>5, <1>6, <1>7 DEF BootClean, CommandsOnlyWhileRunning

\* Steps that touch neither a task nor its registration.
LEMMA QuietStepKeepsInv ==
  ASSUME SupervisorInv, UNCHANGED <<phase, tasks, run, delayed, toCancel>>,
         cmdLoop' \in {"off", "subscribing", "listening", "dead"},
         cmdLoop = "off" => cmdLoop' = "off",
         inbox' \in Seq(Command),
         adoptNet' \in SUBSET Device, accepted' \in SUBSET Device,
         markNet' \in SUBSET markNet, accepted \subseteq accepted'
  PROVE  SupervisorInv'
<1> USE DEF SupervisorInv
<1>1. TypeOK'
  BY DEF TypeOK
<1>2. NotifyOnlyAccepted'
  BY DEF NotifyOnlyAccepted, TypeOK
<1> QED
  BY <1>1, <1>2 DEF BootClean, CommandsOnlyWhileRunning, CancelsRegistered,
     EntriesHaveTasks, AttemptsInRange, LoopsAreRegistered, Live

\* Subscribing, losing the subscription, receiving, and force-inform (supervisor.py 120-151).
LEMMA CommandStepKeepsInv ==
  ASSUME SupervisorInv,
         Subscribe \/ ListenFails \/ HandleForceInform \/ \E c \in Command : Deliver(c)
  PROVE  SupervisorInv'
<1>1. inbox \in Seq(Command) /\ adoptNet \in SUBSET Device /\ accepted \in SUBSET Device
  BY DEF SupervisorInv, TypeOK
<1>2. CASE Subscribe
  BY <1>1, <1>2, QuietStepKeepsInv DEF Subscribe, network
<1>3. CASE ListenFails
  BY <1>1, <1>3, QuietStepKeepsInv DEF ListenFails, network
<1>4. CASE HandleForceInform
  <2>1. Tail(inbox) \in Seq(Command)
    BY <1>1, <1>4 DEF HandleForceInform, NextCommand
  <2> QED
    BY <1>1, <1>4, <2>1, QuietStepKeepsInv DEF HandleForceInform, NextCommand, network
<1>5. ASSUME NEW c \in Command, Deliver(c) PROVE SupervisorInv'
  <2>1. Append(inbox, c) \in Seq(Command)
    BY <1>1
  <2> QED
    BY <1>1, <1>5, <2>1, QuietStepKeepsInv DEF Deliver, network
<1> QED
  BY <1>2, <1>3, <1>4, <1>5

\* "spawn" is handled only while running, where a sleeping spawn may exist.
LEMMA HandleSpawnKeepsInv ==
  ASSUME SupervisorInv, HandleSpawn
  PROVE  SupervisorInv'
<1> USE DEF SupervisorInv
<1>1. /\ cmdLoop = "listening" /\ inbox # << >> /\ inbox' = Tail(inbox)
      /\ UNCHANGED <<phase, cmdLoop, tasks, run, toCancel, adoptNet, accepted, markNet>>
  BY DEF HandleSpawn, NextCommand, network
<1>2. phase = "running"
  BY <1>1 DEF CommandsOnlyWhileRunning
<1>3. Tail(inbox) \in Seq(Command) /\ Head(inbox) \in Command
  BY <1>1 DEF TypeOK
<1>4. delayed' \in [Device -> [BOOLEAN -> Nat]]
  <2>1. PICK d \in Device, a \in BOOLEAN : delayed' = [delayed EXCEPT ![d][a] = @ + 1]
    BY <1>3 DEF HandleSpawn, Command
  <2>2. delayed \in [Device -> [BOOLEAN -> Nat]] /\ delayed[d] \in [BOOLEAN -> Nat]
    BY DEF TypeOK
  <2>3. [delayed[d] EXCEPT ![a] = @ + 1] \in [BOOLEAN -> Nat]
    BY <2>2
  <2> QED
    BY <2>1, <2>2, <2>3
<1>5. TypeOK'
  BY <1>1, <1>3, <1>4 DEF TypeOK
<1> QED
  BY <1>1, <1>2, <1>5 DEF BootClean, CommandsOnlyWhileRunning, CancelsRegistered,
     EntriesHaveTasks, AttemptsInRange, LoopsAreRegistered, Live, NotifyOnlyAccepted

\* A despawn ends the only live loop its device can have.
LEMMA HandleDespawnKeepsInv ==
  ASSUME SupervisorInv, HandleDespawn
  PROVE  SupervisorInv'
<1> USE DEF SupervisorInv
<1> DEFINE d == Head(inbox).dev
<1>1. /\ cmdLoop = "listening" /\ inbox # << >> /\ inbox' = Tail(inbox)
      /\ UNCHANGED <<phase, cmdLoop, delayed, toCancel, adoptNet, accepted, markNet>>
  BY DEF HandleDespawn, NextCommand, network
<1>2. phase = "running"
  BY <1>1 DEF CommandsOnlyWhileRunning
<1>3. Tail(inbox) \in Seq(Command) /\ d \in Device
  <2>1. Tail(inbox) \in Seq(Command) /\ Head(inbox) \in Command
    BY <1>1 DEF TypeOK
  <2> QED
    BY <2>1 DEF Command
<1>4. /\ run \in [Device -> [TaskId -> Run]]
      /\ tasks \in [Device -> TaskId \cup {NoTask}]
  BY DEF TypeOK
<1>5. /\ tasks' \in [Device -> TaskId \cup {NoTask}]
      /\ tasks'[d] = NoTask
      /\ \A e \in Device : e # d => tasks'[e] = tasks[e]
  BY <1>3, <1>4 DEF HandleDespawn
<1>6. /\ run' \in [Device -> [TaskId -> Run]]
      /\ \A e \in Device, j \in TaskId :
           run'[e][j] = IF e = d /\ j = tasks[d] THEN NoRun ELSE run[e][j]
  <2>1. CASE tasks[d] = NoTask
    BY <1>3, <1>4, <2>1 DEF HandleDespawn
  <2>2. CASE tasks[d] # NoTask
    BY <1>3, <1>4, <2>2, NoRunOK DEF HandleDespawn
  <2> QED
    BY <2>1, <2>2
<1> HIDE DEF d
<1>7. TypeOK'
  BY <1>1, <1>3, <1>5, <1>6 DEF TypeOK
<1>8. AttemptsInRange'
  BY <1>6, NoRunOK DEF AttemptsInRange
<1>9. LoopsAreRegistered'
  BY <1>1, <1>2, <1>3, <1>5, <1>6, NoRunOK DEF LoopsAreRegistered, Live, LivePC, AdoptPC
<1>10. NotifyOnlyAccepted'
  BY <1>1, <1>6, NoRunOK DEF NotifyOnlyAccepted
<1>11. EntriesHaveTasks'
  BY <1>1, <1>4, <1>5, <1>6 DEF EntriesHaveTasks
<1> QED
  BY <1>1, <1>2, <1>7, <1>8, <1>9, <1>10, <1>11 DEF BootClean, CommandsOnlyWhileRunning,
     CancelsRegistered

\* The process starts (main.py 19-23).
LEMMA BootKeepsInv ==
  ASSUME SupervisorInv, Boot
  PROVE  SupervisorInv'
<1> USE DEF SupervisorInv
<1>1. TypeOK'
  BY DEF Boot, TypeOK, memory, network
<1> QED
  BY <1>1 DEF Boot, memory, network, BootClean, CommandsOnlyWhileRunning,
     CancelsRegistered, EntriesHaveTasks, AttemptsInRange, LoopsAreRegistered, Live,
     NotifyOnlyAccepted

\* The poll spawns into a process that has no task yet.
LEMMA StartupPollKeepsInv ==
  ASSUME SupervisorInv, NEW found \in SUBSET Device, StartupPoll(found)
  PROVE  SupervisorInv'
<1> USE DEF SupervisorInv
<1>1. \A d \in Device : tasks[d] = NoTask /\ \A k \in TaskId : run[d][k] = NoRun
  BY DEF StartupPoll, BootClean
<1>2. \A d \in Device : FreshTask(d) \in TaskId
  <2> SUFFICES ASSUME NEW d \in Device PROVE FreshTask(d) \in TaskId
    OBVIOUS
  <2>1. PICK k \in TaskId : TRUE
    OBVIOUS
  <2>2. Unused(d, k)
    BY <1>1, NoRunOK DEF Unused
  <2> QED
    BY <2>2, FreshTaskOK
<1>3. run \in [Device -> [TaskId -> Run]]
  BY DEF TypeOK
<1>4. /\ tasks' \in [Device -> TaskId \cup {NoTask}]
      /\ \A d \in found : tasks'[d] = FreshTask(d)
  BY <1>1, <1>2 DEF StartupPoll
<1>5. /\ run' \in [Device -> [TaskId -> Run]]
      /\ \A d \in Device, k \in TaskId :
           run'[d][k] = IF d \in found /\ k = FreshTask(d) THEN Started(FALSE) ELSE NoRun
  BY <1>1, <1>2, <1>3, StartedOK DEF StartupPoll
<1>6. TypeOK'
  BY <1>4, <1>5 DEF StartupPoll, TypeOK, network
<1>7. AttemptsInRange'
  <2>1. \A d \in Device, k \in TaskId :
          /\ run'[d][k].attempt = 0
          /\ run'[d][k].pc \notin {"login", "adopt", "backoff"}
    BY <1>5, NoRunOK, StartedOK, FALSE \in BOOLEAN
  <2> QED
    BY <2>1 DEF AttemptsInRange
<1>8. LoopsAreRegistered'
  BY <1>4, <1>5, NoRunOK DEF LoopsAreRegistered, Live, LivePC, AdoptPC
<1>9. NotifyOnlyAccepted'
  BY <1>5, NoRunOK, StartedOK DEF NotifyOnlyAccepted, StartupPoll, network
<1>10. EntriesHaveTasks'
  <2> SUFFICES ASSUME NEW d \in Device, tasks'[d] # NoTask
               PROVE  run'[d][tasks'[d]].pc \in LivePC
    BY DEF EntriesHaveTasks
  <2>1. d \in found /\ tasks'[d] = FreshTask(d)
    BY <1>1 DEF StartupPoll
  <2>2. phase = "polling"
    BY DEF StartupPoll
  <2> QED
    BY <1>2, <1>5, <2>1, <2>2, StartedOK, FALSE \in BOOLEAN
<1> QED
  BY <1>6, <1>7, <1>8, <1>9, <1>10 DEF StartupPoll, BootClean, CommandsOnlyWhileRunning,
     CancelsRegistered

\* The process ends or is killed (main.py 43-51).
LEMMA ProcessGoneKeepsInv ==
  ASSUME SupervisorInv, ProcessGone
  PROVE  SupervisorInv'
<1>1. markNet \in SUBSET accepted
  BY DEF SupervisorInv, NotifyOnlyAccepted, TypeOK
<1>2. adoptNet \in SUBSET Device /\ accepted \in SUBSET Device
  BY DEF SupervisorInv, TypeOK
<1> QED
  BY <1>1, <1>2, CleanState DEF ProcessGone, network

-----------------------------------------------------------------------------
(* shutdown() and the environment.                                         *)

\* SIGTERM or SIGINT, and the end of shutdown()'s walk (supervisor.py 90-108).
LEMMA StopKeepsInv ==
  ASSUME SupervisorInv, RequestStop \/ ClearTasks
  PROVE  SupervisorInv'
<1> USE DEF SupervisorInv
<1>1. TypeOK'
  <2>1. CASE RequestStop
    BY <2>1 DEF RequestStop, TypeOK, network
  <2>2. CASE ClearTasks
    BY <2>2 DEF ClearTasks, TypeOK, network
  <2> QED
    BY <2>1, <2>2
<1>2. /\ CommandsOnlyWhileRunning' /\ BootClean' /\ CancelsRegistered'
      /\ EntriesHaveTasks'
  BY DEF RequestStop, ClearTasks, CommandsOnlyWhileRunning, BootClean, CancelsRegistered,
     EntriesHaveTasks
<1>3. AttemptsInRange' /\ NotifyOnlyAccepted'
  BY DEF RequestStop, ClearTasks, AttemptsInRange, NotifyOnlyAccepted, network
<1>4. LoopsAreRegistered'
  BY DEF RequestStop, ClearTasks, LoopsAreRegistered, Live
<1> QED
  BY <1>1, <1>2, <1>3, <1>4

\* What shutdown() has still to go through is registered.
LEMMA WalkIsRegistered ==
  ASSUME SupervisorInv
  PROVE  /\ ToWalk \in SUBSET Device
         /\ \A d \in ToWalk : tasks[d] \in TaskId
         /\ ToWalk # {} => phase \in {"stopping", "cancelling"}
<1>1. toCancel \in SUBSET Device /\ tasks \in [Device -> TaskId \cup {NoTask}]
  BY DEF SupervisorInv, TypeOK
<1> QED
  BY <1>1 DEF ToWalk, SupervisorInv, CancelsRegistered

\* shutdown() awaits one task of its snapshot (supervisor.py 100-104).
LEMMA CancelTaskKeepsInv ==
  ASSUME SupervisorInv, NEW d \in Device, CancelTask(d) \/ AwaitRaises(d)
  PROVE  SupervisorInv'
<1> USE DEF SupervisorInv
<1>1. /\ phase \in {"stopping", "cancelling"} /\ phase' \in {"cancelling", "aborted"}
      /\ UNCHANGED <<cmdLoop, inbox, tasks, delayed, adoptNet, accepted, markNet>>
      /\ toCancel' \in SUBSET ToWalk
  BY WalkIsRegistered DEF CancelTask, AwaitRaises, network
<1>2. run \in [Device -> [TaskId -> Run]] /\ tasks[d] \in TaskId
  BY WalkIsRegistered DEF CancelTask, AwaitRaises, TypeOK
<1>3. /\ run' \in [Device -> [TaskId -> Run]]
      /\ \A e \in Device, j \in TaskId : run'[e][j] = run[e][j] \/ run'[e][j] = NoRun
  BY <1>2, NoRunOK DEF CancelTask, AwaitRaises
<1>4. TypeOK'
  BY <1>1, <1>3, WalkIsRegistered DEF TypeOK
<1>5. AttemptsInRange'
  BY <1>3, NoRunOK DEF AttemptsInRange
<1>6. LoopsAreRegistered'
  BY <1>1, <1>3, NoRunOK DEF LoopsAreRegistered, Live, LivePC, AdoptPC
<1>7. NotifyOnlyAccepted'
  BY <1>1, <1>3, NoRunOK DEF NotifyOnlyAccepted
<1>8. CancelsRegistered'
  <2>1. \A e \in toCancel' : tasks[e] # NoTask
    BY <1>1, WalkIsRegistered
  <2> QED
    BY <1>1, <2>1 DEF CancelsRegistered
<1> QED
  BY <1>1, <1>4, <1>5, <1>6, <1>7, <1>8 DEF BootClean, CommandsOnlyWhileRunning,
     EntriesHaveTasks

\* What the controller and the callback to Django do, with a task or without.
LEMMA NetworkStepKeepsInv ==
  ASSUME SupervisorInv, NEW d \in Device,
         ControllerAdopts(d) \/ AdoptRequestLost(d) \/ MarkRequestGone(d)
  PROVE  SupervisorInv'
<1>1. /\ inbox \in Seq(Command) /\ adoptNet \in SUBSET Device
      /\ accepted \in SUBSET Device
      /\ cmdLoop \in {"off", "subscribing", "listening", "dead"}
  BY DEF SupervisorInv, TypeOK
<1> QED
  BY <1>1, QuietStepKeepsInv DEF ControllerAdopts, AdoptRequestLost, MarkRequestGone,
     memory

-----------------------------------------------------------------------------
\* SupervisorInv survives every step of the supervisor and its environment.
THEOREM StepKeepsInv == SupervisorInv /\ [Next]_supVars => SupervisorInv'
<1> SUFFICES ASSUME SupervisorInv, [Next]_supVars PROVE SupervisorInv'
  OBVIOUS
<1>1. CASE UNCHANGED supVars
  BY <1>1 DEF supVars, SupervisorInv, TypeOK, BootClean, CommandsOnlyWhileRunning,
     CancelsRegistered, EntriesHaveTasks, AttemptsInRange, LoopsAreRegistered, Live,
     NotifyOnlyAccepted
<1>2. CASE WorkerNext
  <2>1. CASE Boot
    BY <2>1, BootKeepsInv
  <2>2. CASE Crash \/ Exit
    BY <2>2, ProcessGoneKeepsInv DEF Crash, Exit
  <2>3. CASE Subscribe \/ ListenFails \/ HandleForceInform
    BY <2>3, CommandStepKeepsInv
  <2>4. CASE HandleSpawn \/ HandleDespawn
    BY <2>4, HandleSpawnKeepsInv, HandleDespawnKeepsInv
  <2>5. ASSUME NEW d \in Device, NEW auto \in BOOLEAN, DelayedSpawn(d, auto)
        PROVE  SupervisorInv'
    BY <2>5, DelayedSpawnKeepsInv
  <2>6. ASSUME NEW d \in Device, NEW k \in TaskId, TaskStep(d, k)
        PROVE  SupervisorInv'
    BY <2>6, TaskStepKeepsInv
  <2>7. CASE RequestStop \/ ClearTasks
    BY <2>7, StopKeepsInv
  <2>8. ASSUME NEW d \in Device, CancelTask(d) \/ AwaitRaises(d)
        PROVE  SupervisorInv'
    BY <2>8, CancelTaskKeepsInv
  <2> QED
    BY <1>2, <2>1, <2>2, <2>3, <2>4, <2>5, <2>6, <2>7, <2>8
    DEF WorkerNext, HandleCommand, Shutdown
<1>3. ASSUME NEW found \in SUBSET Device, StartupPoll(found)
      PROVE  SupervisorInv'
  BY <1>3, StartupPollKeepsInv
<1>4. CASE EnvironmentNext
  BY <1>4, CommandStepKeepsInv, NetworkStepKeepsInv DEF EnvironmentNext
<1> QED
  BY <1>1, <1>2, <1>3, <1>4 DEF Next

\* The invariant holds in every reachable state.
THEOREM InvHolds == Spec => []SupervisorInv
  BY InitEstablishesInv, StepKeepsInv, PTL DEF Spec

\* Every variable of the supervisor keeps its type: in particular no task
\* makes more than MaxAttempts attempts.
THEOREM TypeCorrect == Spec => []TypeOK
<1>1. SupervisorInv => TypeOK
  BY DEF SupervisorInv
<1> QED
  BY <1>1, InvHolds, PTL

\* No device has two live loops before shutdown() has cleared _tasks.
THEOREM AtMostOneLoop == Spec => []OneLoopPerDevice
<1>1. SupervisorInv => OneLoopPerDevice
  BY DEF SupervisorInv, LoopsAreRegistered, OneLoopPerDevice
<1> QED
  BY <1>1, InvHolds, PTL

\* A despawn can reach every live loop.
THEOREM NoUnregisteredLoop == Spec => []LoopsAreRegistered
<1>1. SupervisorInv => LoopsAreRegistered
  BY DEF SupervisorInv
<1> QED
  BY <1>1, InvHolds, PTL

\* Django is told of an adoption only after the controller granted it.
THEOREM NotifySound == Spec => []NotifyOnlyAccepted
<1>1. SupervisorInv => NotifyOnlyAccepted
  BY DEF SupervisorInv
<1> QED
  BY <1>1, InvHolds, PTL

-----------------------------------------------------------------------------
(* Every device task implements AutoAdopt.                                 *)

\* A new process has no tasks: AutoAdopt's initial state.
THEOREM AdoptionInit ==
  ASSUME NEW d \in Device, NEW k \in TaskId
  PROVE  Init => Adoption(d, k)!Init
<1> SUFFICES ASSUME Init PROVE Adoption(d, k)!Init
  OBVIOUS
<1>1. run[d][k] = NoRun /\ accepted = {}
  BY DEF Init
<1> QED
  BY <1>1, NoRunOK DEF Adoption!Init, Stage

\* What a step of the supervisor looks like to AutoAdopt: the task's stage and
\* attempt and the controller's grant stay, or change as AutoAdopt lets them.
LEMMA SameTask ==
  ASSUME NEW d \in Device, NEW k \in TaskId,
         run'[d][k] = run[d][k], (d \in accepted') = (d \in accepted)
  PROVE  UNCHANGED Adoption(d, k)!vars
  BY DEF Adoption!vars, Stage

\* A task that is cancelled, or whose process ends, stops its adoption.
LEMMA StoppedTask ==
  ASSUME NEW d \in Device, NEW k \in TaskId,
         run'[d][k] = NoRun, (d \in accepted') = (d \in accepted)
  PROVE  Adoption(d, k)!Next
<1>1. Adoption(d, k)!Stop
  BY NoRunOK DEF Adoption!Stop, Stage
<1> QED
  BY <1>1 DEF Adoption!Next

\* A task that is created begins its adoption, or skips it.
LEMMA StartedTask ==
  ASSUME SupervisorInv, NEW d \in Device, NEW k \in TaskId, NEW auto \in BOOLEAN,
         Unused(d, k), run'[d][k] = Started(auto),
         (d \in accepted') = (d \in accepted)
  PROVE  Adoption(d, k)!Next
<1>1. run[d][k].attempt = 0 /\ run[d][k].pc = "none"
  <2>1. run[d][k] \in Run
    BY DEF SupervisorInv, TypeOK
  <2>2. run[d][k].attempt \in Nat
    BY <2>1 DEF Run
  <2> QED
    BY <2>2 DEF Unused, SupervisorInv, AttemptsInRange
<1>2. Adoption(d, k)!Begin
  BY <1>1, LoopStartOK DEF Adoption!Begin, Stage, Started, At
<1> QED
  BY <1>2 DEF Adoption!Next

\* The steps of the task itself.
LEMMA TaskStepAdopts ==
  ASSUME SupervisorInv, NEW d \in Device, NEW k \in TaskId, TaskStep(d, k)
  PROVE  Adoption(d, k)!Next \/ UNCHANGED Adoption(d, k)!vars
<1> DEFINE r == run[d][k]
<1>1. /\ run \in [Device -> [TaskId -> Run]]
      /\ r.attempt \in Nat
      /\ r.pc \in {"login", "adopt", "backoff"} <=> r.attempt > 0
      /\ r.pc = "backoff" => r.attempt < MaxAttempts
  BY DEF SupervisorInv, TypeOK, AttemptsInRange, Run
<1>2. ASSUME NEW from, NEW to, Goto(d, k, from, to)
      PROVE  r.pc \in from /\ run'[d][k] = to /\ accepted' = accepted
  BY <1>1, <1>2 DEF Goto
<1>3. CASE ContextLoaded(d, k)
  <2>1. Adoption(d, k)!Try
    BY <1>1, <1>2, <1>3 DEF ContextLoaded, Adoption!Try, Stage, At
  <2> QED
    BY <2>1 DEF Adoption!Next
<1>4. CASE ContextSkipped(d, k) \/ ContextFails(d, k) \/ ClientError(d, k)
  <2>1. Adoption(d, k)!GiveUp
    BY <1>1, <1>2, <1>4, LoopStartOK
    DEF ContextSkipped, ContextFails, ClientError, Adoption!GiveUp, Stage, At
  <2> QED
    BY <2>1 DEF Adoption!Next
<1>5. CASE LoginOk(d, k)
  BY <1>1, <1>2, <1>5 DEF LoginOk, Adoption!vars, Stage, At
<1>6. CASE AdoptOk(d, k)
  <2>1. Adoption(d, k)!Tell
    BY <1>1, <1>2, <1>6 DEF AdoptOk, Adoption!Tell, Stage, At
  <2> QED
    BY <2>1 DEF Adoption!Next
<1>7. CASE TransientError(d, k)
  <2>1. CASE r.attempt >= MaxAttempts
    <3>1. r.pc \in {"login", "adopt"} /\ run'[d][k] = LoopStart /\ accepted' = accepted
      BY <1>2, <1>7, <2>1 DEF TransientError
    <3>2. Adoption(d, k)!GiveUp
      BY <3>1, LoopStartOK DEF Adoption!GiveUp, Stage, At
    <3> QED
      BY <3>2 DEF Adoption!Next
  <2>2. CASE ~(r.attempt >= MaxAttempts)
    <3>1. /\ r.pc \in {"login", "adopt"} /\ accepted' = accepted
          /\ run'[d][k] = At("backoff", r.attempt)
      BY <1>2, <1>7, <2>2 DEF TransientError
    <3> QED
      BY <3>1 DEF Adoption!vars, Stage, At
  <2> QED
    BY <2>1, <2>2
<1>8. CASE BackoffOver(d, k)
  <2>1. Adoption(d, k)!Try
    BY <1>1, <1>2, <1>8 DEF BackoffOver, Adoption!Try, Stage, At
  <2> QED
    BY <2>1 DEF Adoption!Next
<1>9. CASE NotifyReturns(d, k)
  <2>1. Adoption(d, k)!Told
    BY <1>1, <1>2, <1>9, LoopStartOK DEF NotifyReturns, Adoption!Told, Stage, At
  <2> QED
    BY <2>1 DEF Adoption!Next
<1>10. CASE LoopSeesStop(d, k)
  BY <1>1, <1>2, <1>10 DEF LoopSeesStop, Adoption!vars, Stage, At
<1> QED
  BY <1>3, <1>4, <1>5, <1>6, <1>7, <1>8, <1>9, <1>10 DEF TaskStep

\* Every step of the supervisor and its environment is, for each device task,
\* a step of AutoAdopt or none at all.
LEMMA AdoptionStep ==
  ASSUME SupervisorInv, NEW d \in Device, NEW k \in TaskId, [Next]_supVars
  PROVE  Adoption(d, k)!Next \/ UNCHANGED Adoption(d, k)!vars
<1>1. /\ run \in [Device -> [TaskId -> Run]]
      /\ tasks \in [Device -> TaskId \cup {NoTask}]
  BY DEF SupervisorInv, TypeOK
<1>2. CASE UNCHANGED <<run, accepted>>
  BY <1>2, SameTask
<1>3. ASSUME run'[d][k] \in {run[d][k], NoRun}, accepted' = accepted
      PROVE  Adoption(d, k)!Next \/ UNCHANGED Adoption(d, k)!vars
  BY <1>3, SameTask, StoppedTask
<1>4. CASE Boot \/ Subscribe \/ ListenFails \/ HandleSpawn \/ HandleForceInform
           \/ RequestStop \/ ClearTasks \/ UNCHANGED supVars
           \/ \E e \in Device : AwaitRaises(e)
  BY <1>2, <1>4 DEF Boot, Subscribe, ListenFails, HandleSpawn, HandleForceInform,
     NextCommand, RequestStop, ClearTasks, AwaitRaises, memory, network, supVars
<1>5. CASE Crash \/ Exit
  <2>1. run'[d][k] = NoRun /\ accepted' = accepted
    BY <1>5 DEF Crash, Exit, ProcessGone, network
  <2> QED
    BY <2>1, StoppedTask
<1>6. CASE HandleDespawn
  <2>1. accepted' = accepted
    BY <1>6 DEF HandleDespawn, NextCommand, network
  <2>2. Head(inbox).dev \in Device
    <3>1. Head(inbox) \in Command
      BY <1>6 DEF HandleDespawn, NextCommand, SupervisorInv, TypeOK
    <3> QED
      BY <3>1 DEF Command
  <2>3. run'[d][k] \in {run[d][k], NoRun}
    <3>1. CASE tasks[Head(inbox).dev] = NoTask
      BY <1>6, <3>1 DEF HandleDespawn
    <3>2. CASE tasks[Head(inbox).dev] # NoTask
      BY <1>1, <1>6, <2>2, <3>2 DEF HandleDespawn
    <3> QED
      BY <3>1, <3>2
  <2> QED
    BY <1>3, <2>1, <2>3
<1>7. ASSUME NEW e \in Device, CancelTask(e)
      PROVE  Adoption(d, k)!Next \/ UNCHANGED Adoption(d, k)!vars
  <2>1. tasks[e] \in TaskId
    BY <1>7, WalkIsRegistered DEF CancelTask
  <2>2. run'[d][k] \in {run[d][k], NoRun} /\ accepted' = accepted
    BY <1>1, <1>7, <2>1 DEF CancelTask, network
  <2> QED
    BY <1>3, <2>2
<1>8. ASSUME NEW e \in Device, NEW auto \in BOOLEAN, DelayedSpawn(e, auto)
      PROVE  Adoption(d, k)!Next \/ UNCHANGED Adoption(d, k)!vars
  <2>1. accepted' = accepted /\ SpawnDevice(e, auto)
    BY <1>8 DEF DelayedSpawn, network
  <2>2. CASE UNCHANGED run
    BY <1>2, <2>1, <2>2
  <2>3. CASE /\ \E j \in TaskId : Unused(e, j)
             /\ run' = [run EXCEPT ![e][FreshTask(e)] = Started(auto)]
    <3> DEFINE f == FreshTask(e)
    <3>1. f \in TaskId /\ Unused(e, f)
      BY <2>3, FreshTaskOK
    <3>2. CASE e = d /\ f = k
      <4>1. run'[d][k] = Started(auto)
        BY <1>1, <2>3, <3>2
      <4> QED
        BY <2>1, <3>1, <3>2, <4>1, StartedTask
    <3>3. CASE ~(e = d /\ f = k)
      <4>1. run'[d][k] = run[d][k]
        BY <1>1, <2>3, <3>1, <3>3
      <4> QED
        BY <2>1, <4>1, SameTask
    <3> QED
      BY <3>2, <3>3
  <2> QED
    BY <2>1, <2>2, <2>3 DEF SpawnDevice
<1>9. ASSUME NEW found \in SUBSET Device, StartupPoll(found)
      PROVE  Adoption(d, k)!Next \/ UNCHANGED Adoption(d, k)!vars
  <2>1. run[d][k] = NoRun /\ accepted' = accepted /\ run[d] \in [TaskId -> Run]
    BY <1>1, <1>9 DEF StartupPoll, SupervisorInv, BootClean, network
  <2>2. run'[d][k] = run[d][k] \/ run'[d][k] = Started(FALSE)
    BY <1>9, <2>1 DEF StartupPoll
  <2>3. Unused(d, k)
    BY <2>1, NoRunOK DEF Unused
  <2> QED
    BY <2>1, <2>2, <2>3, SameTask, StartedTask, FALSE \in BOOLEAN
<1>10. ASSUME NEW e \in Device, NEW j \in TaskId, TaskStep(e, j)
       PROVE  Adoption(d, k)!Next \/ UNCHANGED Adoption(d, k)!vars
  <2>1. CASE e = d /\ j = k
    BY <1>10, <2>1, TaskStepAdopts
  <2>2. CASE ~(e = d /\ j = k)
    <3>1. \E to : run' = [run EXCEPT ![e][j] = to]
      BY <1>10 DEF TaskStep, ContextLoaded, ContextSkipped, ContextFails, LoginOk,
         AdoptOk, ClientError, TransientError, BackoffOver, NotifyReturns,
         LoopSeesStop, Goto
    <3>2. accepted' = accepted
      BY <1>10 DEF TaskStep, ContextLoaded, ContextSkipped, ContextFails, LoginOk,
         AdoptOk, ClientError, TransientError, BackoffOver, NotifyReturns,
         LoopSeesStop, Goto
    <3>3. run'[d][k] = run[d][k]
      BY <1>1, <2>2, <3>1
    <3> QED
      BY <3>2, <3>3, SameTask
  <2> QED
    BY <2>1, <2>2
<1>11. ASSUME NEW e \in Device, ControllerAdopts(e)
       PROVE  Adoption(d, k)!Next \/ UNCHANGED Adoption(d, k)!vars
  <2>1. run' = run /\ accepted' = accepted \cup {e}
    BY <1>11 DEF ControllerAdopts, memory
  <2>2. CASE e = d
    <3>1. Adoption(d, k)!Grant
      BY <2>1, <2>2 DEF Adoption!Grant, Stage
    <3> QED
      BY <3>1 DEF Adoption!Next
  <2>3. CASE e # d
    BY <2>1, <2>3, SameTask
  <2> QED
    BY <2>2, <2>3
<1>12. ASSUME NEW e \in Device, AdoptRequestLost(e) \/ MarkRequestGone(e)
       PROVE  Adoption(d, k)!Next \/ UNCHANGED Adoption(d, k)!vars
  BY <1>2, <1>12 DEF AdoptRequestLost, MarkRequestGone, memory
<1>13. ASSUME NEW c \in Command, Deliver(c)
       PROVE  Adoption(d, k)!Next \/ UNCHANGED Adoption(d, k)!vars
  BY <1>2, <1>13 DEF Deliver, network
<1> QED
  BY <1>4, <1>5, <1>6, <1>7, <1>8, <1>9, <1>10, <1>11, <1>12, <1>13
  DEF Next, WorkerNext, EnvironmentNext, HandleCommand, Shutdown

\* For every device and every task name, the supervisor implements the safety
\* part of AutoAdopt: attempts are bounded, Django is told only after the
\* controller's grant, and neither happens out of order.
THEOREM AdoptionIsSafe ==
  ASSUME NEW d \in Device, NEW k \in TaskId
  PROVE  Spec => Adoption(d, k)!Safety
<1>1. Init => Adoption(d, k)!Init
  BY AdoptionInit
<1>2. SupervisorInv /\ [Next]_supVars => [Adoption(d, k)!Next]_(Adoption(d, k)!vars)
  BY AdoptionStep
<1> QED
  BY <1>1, <1>2, InvHolds, PTL DEF Spec, Adoption!Safety
=============================================================================
