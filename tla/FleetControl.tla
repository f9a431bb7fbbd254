---------------------------- MODULE FleetControl ----------------------------
(***************************************************************************)
(* The fleet's control path end to end: Django's handlers (FleetService)   *)
(* command the engine's worker (Supervisor) over Redis pub/sub, the worker *)
(* asks the controller to adopt and calls Django back.                     *)
(*                                                                         *)
(* Publishing is at most once: _publish_now swallows its errors and Redis  *)
(* drops a message nobody is subscribed to.  The worker reads the rows     *)
(* once, at boot.                                                          *)
(***************************************************************************)
EXTENDS Supervisor, FleetService

VARIABLES
  \* What the system is asked to do and what happened to it on the way.  No
  \* guard reads these three; they are for the properties.
  wanted,   \* devices the last committed operation wants running
  missed,   \* devices whose last command never reached a listening worker
  outlived  \* devices with a delayed spawn asleep when a despawn was handled

ghosts  == <<wanted, missed, outlived>>
allVars == <<supVars, svcVars, ghosts>>

ControlTypeOK ==
  /\ TypeOK
  /\ SvcTypeOK
  /\ wanted \in SUBSET Device
  /\ missed \in SUBSET Device
  /\ outlived \in SUBSET Device

ControlInit ==
  /\ Init
  /\ SvcInit
  /\ wanted = {} /\ missed = {} /\ outlived = {}

-----------------------------------------------------------------------------
(* Django's steps that send nothing.                                       *)

WishCommitted(r) ==
  /\ \E devices \in SUBSET Device, on \in BOOLEAN :
       /\ WishStep(r, devices, on)
       /\ wanted' = IF on THEN wanted \cup devices ELSE wanted \ devices
  /\ UNCHANGED <<supVars, missed, outlived>>

DjangoStep ==
  /\ \/ \E r \in Req : QuietStep(r)
     \/ Transition \/ Interruption
     \/ \E d \in Device : MarkAdoptedSave(d)
  /\ UNCHANGED <<supVars, ghosts>>

\* Commands a dying web process had yet to publish are missed.
WebCrashStep ==
  /\ Uses("webcrash")
  /\ WebCrash
  /\ missed' = missed \cup UNION {Owed(r) : r \in Req}
  /\ UNCHANGED <<supVars, wanted, outlived>>

-----------------------------------------------------------------------------
(* Django to worker: publish_worker_command.                               *)

PublishArrives(r, d) ==
  /\ Publish(r, d)
  /\ Deliver(CommandOf(req[r].pc, d))
  /\ missed' = missed \ {d}
  /\ UNCHANGED <<wanted, outlived>>

\* Redis is unreachable, or the worker is not subscribed at that moment.
PublishMissed(r, d) ==
  /\ Publish(r, d)
  /\ missed' = missed \cup {d}
  /\ UNCHANGED <<supVars, wanted, outlived>>

\* POST force-inform: a command that changes nothing on either side.
ForceInform(d) ==
  /\ Uses("inform")
  /\ DeviceExists(d)
  /\ Deliver([action |-> "force_inform", dev |-> d, auto |-> FALSE])
  /\ UNCHANGED <<svcVars, ghosts>>

-----------------------------------------------------------------------------
(* The worker's steps.                                                     *)

\* What the startup poll selects: pending rows, whatever their fleet's state.
PendingRows == {d \in Device : dev[d] = "pending"}

\* The poll leaves exactly the pending rows running; others it misses.
PollRows(found) ==
  /\ StartupPoll(found)
  /\ missed' = {d \in Device : (d \in found) # (d \in wanted)}
  /\ outlived' = {}
  /\ UNCHANGED <<svcVars, wanted>>

InboxDevices == {inbox[i].dev : i \in 1..Len(inbox)}

\* The commands of the connection that broke are gone with it.
LoseConnection ==
  /\ ListenFails
  /\ missed' = missed \cup {inbox[i].dev : i \in {j \in 1..Len(inbox) :
                                           inbox[j].action # "force_inform"}}
  /\ UNCHANGED <<svcVars, wanted, outlived>>

DespawnStep ==
  /\ HandleDespawn
  /\ LET d == Head(inbox).dev IN
       outlived' = IF \E auto \in BOOLEAN : delayed[d][auto] > 0
                   THEN outlived \cup {d} ELSE outlived \ {d}
  /\ UNCHANGED <<svcVars, wanted, missed>>

\* _load_adopt_context finds a controller only for a row that exists.
TaskSteps ==
  /\ \E d \in Device, k \in TaskId :
       /\ TaskStep(d, k)
       /\ ContextLoaded(d, k) => DeviceExists(d)
  /\ UNCHANGED <<svcVars, ghosts>>

WorkerStep ==
  /\ \/ Boot \/ Crash \/ Subscribe \/ RequestStop \/ Shutdown
     \/ HandleSpawn \/ HandleForceInform
     \/ \E d \in Device, auto \in BOOLEAN : DelayedSpawn(d, auto)
  /\ UNCHANGED <<svcVars, ghosts>>

-----------------------------------------------------------------------------
(* Worker to Django: the mark-adopted callback.                            *)

\* Served by Django: the request leaves the network as its handler reads.
MarkArrives(d) ==
  /\ MarkRequestGone(d)
  /\ MarkAdoptedRead(d)
  /\ UNCHANGED ghosts

MarkLost(d) == MarkRequestGone(d) /\ UNCHANGED <<svcVars, ghosts>>

ControllerStep ==
  /\ \E d \in Device : ControllerAdopts(d) \/ AdoptRequestLost(d)
  /\ UNCHANGED <<svcVars, ghosts>>

-----------------------------------------------------------------------------
ControlNext ==
  \/ DjangoStep \/ WebCrashStep
  \/ \E r \in Req : WishCommitted(r)
  \/ \E r \in Req, d \in Device : PublishArrives(r, d) \/ PublishMissed(r, d)
  \/ \E d \in Device : ForceInform(d) \/ MarkArrives(d) \/ MarkLost(d)
  \/ PollRows(PendingRows) \/ (Uses("fail") /\ PollRows({}))
  \/ LoseConnection \/ DespawnStep \/ TaskSteps \/ WorkerStep \/ ControllerStep

ControlSpec == ControlInit /\ [][ControlNext]_allVars

\* Both sides go on with what they have begun; nothing makes Redis deliver.
FairControlSpec == ControlSpec /\ Fairness /\ SvcFairness

-----------------------------------------------------------------------------
\* Nothing is on its way: the worker is up and has handled every command and
\* every delayed spawn, and no request still has a command to publish.
Quiet ==
  /\ phase = "running"
  /\ inbox = << >>
  /\ \A d \in Device, auto \in BOOLEAN : delayed[d][auto] = 0
  /\ \A r \in Req : req[r] = Idle

\* The device's task runs: it adopts, or it is in its loop.
Running(d) == \E k \in TaskId : Live(d, k)

\* The device's task ended with an exception (ContextFails): its entry stays in
\* _tasks, so that spawns leave the device alone until a despawn pops it.
FailedTask(d) == tasks[d] # NoTask /\ run[d][tasks[d]].pc = "failed"

\* Django's wishes and the worker's loops agree whenever nothing is on its
\* way, with three exceptions: a device whose last command was missed and not
\* made up for by a poll; a device that is wanted and whose task failed; a
\* device that is not wanted and had a delayed spawn asleep when its despawn
\* was handled.  Without the three: wanted means a live task, unwanted means
\* neither a live task nor an entry.  With one operator request at a time
\* there is no fourth way to diverge.
WishesAreServed ==
  Quiet => \A d \in Device \ missed :
             /\ d \in wanted => Running(d) \/ FailedTask(d)
             /\ d \notin wanted /\ d \notin outlived =>
                  ~Running(d) /\ tasks[d] = NoTask

\* A device that Django shows (or is about to show) as adopted was adopted by
\* the controller, however callbacks, crashes and stale saves interleave.
AdoptedMeansAccepted ==
  \A d \in Device :
    dev[d] = "adopted" \/ d \in marking \/ d \in markNet => d \in accepted

\* No command and no loop for a device whose row was never committed.
CommandsFollowRows ==
  \A d \in Device :
    (\/ d \in InboxDevices \/ tasks[d] # NoTask
     \/ \E auto \in BOOLEAN : delayed[d][auto] > 0) => dev[d] # "new"

\* services.py:147 "despawn all devices": with nothing on its way and nothing
\* missed, no device of a fleet that was torn down has a loop.
TeardownDespawnsAll ==
  Quiet /\ fleet = "deleted" /\ missed = {} =>
    \A d \in member, k \in TaskId : ~Live(d, k)

\* common/worker_commands.py:43 "the supervisor also polls the DB on a tick,
\* so a missed pub/sub message is recoverable": once the worker stays up and
\* subscribed, a pending device of an active fleet gets its loop in the end.
MissedIsRecovered ==
  <>[](cmdLoop = "listening") =>
    \A d \in Device :
      (dev[d] = "pending" /\ fleet = "active") ~>
        (tasks[d] # NoTask \/ dev[d] # "pending" \/ fleet # "active")
=============================================================================
