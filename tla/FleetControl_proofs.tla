------------------------ MODULE FleetControl_proofs -------------------------
(***************************************************************************)
(* Proofs about FleetControl, for every set of devices, of requests and of *)
(* task names, any number of concurrent requests and every choice of what  *)
(* the environment does: ControlInv is inductive, and two of the safety    *)
(* properties of the run fleet_control follow from it.                     *)
(***************************************************************************)
EXTENDS FleetControl, MC_FleetService, Supervisor_proofs

USE OperationsAssumption, AutoAdoptAssumption

\* Whatever is in the fleet or owed a command has a committed row.
RowsCommitted ==
  /\ \A d \in member : dev[d] # "new"
  /\ \A r \in Req : \A d \in req[r].todo : dev[d] # "new"

\* Django shows the device as adopted, is about to, or holds a copy that says so.
Copied(d) ==
  \E r \in Req : /\ req[r].pc = "patchDevice" /\ d \in req[r].todo
                 /\ req[r].dcopy.state = "adopted"
Claimed(d) == dev[d] = "adopted" \/ d \in marking \/ Copied(d)
ClaimsAreAccepted == \A d \in Device : Claimed(d) => d \in accepted

ControlInv ==
  /\ SupervisorInv
  /\ SvcTypeOK
  /\ RowsCommitted
  /\ ClaimsAreAccepted
  /\ CommandsFollowRows

-----------------------------------------------------------------------------
(* Django's handlers.                                                      *)

\* What no handler does, whichever it is: take a row back to uncommitted, or
\* claim an adoption of its own.
SvcStepOK ==
  /\ SvcTypeOK'
  /\ RowsCommitted'
  /\ \A d \in Device : dev[d] # "new" => dev'[d] # "new"
  /\ \A d \in Device : Claimed(d)' => Claimed(d)

\* An idle request is a request, and owes nothing.
LEMMA IdleOK ==
  /\ Idle \in Request /\ Idle.todo = {} /\ Idle.pc = "idle"
  BY DEF Idle, Request, ReqPC, DeviceCopy, DevState, FleetRow

\* A request at work in one of the loops (services.py 131, 140, 151).
LEMMA WorkingOK ==
  ASSUME NEW pc \in ReqPC, NEW todo \in SUBSET Device
  PROVE  /\ Working(pc, todo) \in Request
         /\ Working(pc, todo).todo = todo
         /\ Working(pc, todo).pc \in {pc, "idle"}
<1>1. CASE todo = {} /\ pc \in {"resume", "pause"}
  BY <1>1, IdleOK DEF Working
<1>2. CASE ~(todo = {} /\ pc \in {"resume", "pause"})
  BY <1>2, IdleOK DEF Working, Request
<1> QED
  BY <1>1, <1>2

\* A step of one request that leaves the callbacks alone.
LEMMA HandlerStep ==
  ASSUME SvcTypeOK, RowsCommitted, NEW r \in Req, NEW next \in Request,
         req' = [req EXCEPT ![r] = next], marking' = marking,
         fleet' \in FleetRow, timer' \in {"none", "due", "write"},
         dev' \in [Device -> DevState \cup {"new", "removed"}],
         member' \in SUBSET Device,
         \A d \in Device : dev[d] # "new" => dev'[d] # "new",
         \A d \in next.todo \cup member' : dev'[d] # "new",
         next.pc = "patchDevice" /\ next.dcopy.state = "adopted" =>
           \A d \in next.todo : dev[d] = "adopted",
         \A d \in Device : dev'[d] = "adopted" => dev[d] = "adopted" \/ Copied(d)
  PROVE  SvcStepOK
<1>1. /\ req' \in [Req -> Request] /\ req'[r] = next
      /\ \A q \in Req \ {r} : req'[q] = req[q]
  BY DEF SvcTypeOK
<1>2. SvcTypeOK'
  BY <1>1 DEF SvcTypeOK
<1>3. \A q \in Req : req[q].todo \subseteq Device
  BY DEF SvcTypeOK, Request
<1>4. RowsCommitted'
  BY <1>1, <1>3 DEF RowsCommitted
<1>5. \A d \in Device : Claimed(d)' => Claimed(d)
  BY <1>1 DEF Claimed, Copied
<1> QED
  BY <1>2, <1>4, <1>5 DEF SvcStepOK

\* The request goes on to publish for devices that have rows, or is over.
LEMMA GoesOn ==
  ASSUME SvcTypeOK, RowsCommitted, NEW r \in Req,
         NEW pc \in ReqPC \ {"patchDevice"}, NEW todo \in SUBSET Device,
         req' = [req EXCEPT ![r] = Working(pc, todo)], marking' = marking,
         fleet' \in FleetRow, timer' \in {"none", "due", "write"},
         dev' \in [Device -> DevState \cup {"new", "removed"}],
         member' \in SUBSET Device,
         \A d \in Device : dev[d] # "new" => dev'[d] # "new",
         \A d \in todo \cup member' : dev'[d] # "new",
         \A d \in Device : dev'[d] = "adopted" => dev[d] = "adopted"
  PROVE  SvcStepOK
<1>1. /\ Working(pc, todo) \in Request /\ Working(pc, todo).todo = todo
      /\ Working(pc, todo).pc # "patchDevice"
  BY WorkingOK
<1> QED
  BY <1>1, HandlerStep

\* A request that is answered owes nothing any more.
LEMMA Answered ==
  ASSUME SvcTypeOK, RowsCommitted, NEW r \in Req,
         req' = [req EXCEPT ![r] = Idle], marking' = marking,
         fleet' \in FleetRow, timer' \in {"none", "due", "write"},
         dev' \in [Device -> DevState \cup {"new", "removed"}],
         member' \in SUBSET Device,
         \A d \in Device : dev[d] # "new" => dev'[d] # "new",
         \A d \in member' : dev'[d] # "new",
         \A d \in Device : dev'[d] = "adopted" => dev[d] = "adopted" \/ Copied(d)
  PROVE  SvcStepOK
  BY IdleOK, HandlerStep

\* Steps that leave every request alone.
LEMMA RowStep ==
  ASSUME SvcTypeOK, RowsCommitted, UNCHANGED req,
         fleet' \in FleetRow, timer' \in {"none", "due", "write"},
         dev' \in [Device -> DevState \cup {"new", "removed"}],
         member' \in SUBSET member, marking' \in SUBSET marking,
         \A d \in Device : dev[d] # "new" => dev'[d] # "new",
         \A d \in Device : dev'[d] = "adopted" => dev[d] = "adopted" \/ d \in marking
  PROVE  SvcStepOK
<1>1. SvcTypeOK'
  BY DEF SvcTypeOK
<1>2. \A q \in Req : req[q].todo \subseteq Device
  BY DEF SvcTypeOK, Request
<1>3. RowsCommitted'
  BY <1>2 DEF RowsCommitted, SvcTypeOK
<1>4. \A d \in Device : Claimed(d)' => Claimed(d)
  BY DEF Claimed, Copied
<1> QED
  BY <1>1, <1>3, <1>4 DEF SvcStepOK

\* The steps that change what the operator wants (services.py 47-157).
LEMMA WishStepOK ==
  ASSUME SvcTypeOK, RowsCommitted, NEW r \in Req, NEW devices \in SUBSET Device,
         NEW on \in BOOLEAN, WishStep(r, devices, on)
  PROVE  SvcStepOK
<1> USE DEF SvcTypeOK, RowsCommitted
<1>1. CASE Instantiate(r, devices)
  BY <1>1, GoesOn DEF Instantiate, FleetRow, RowState, DevState, ReqPC
<1>2. CASE Resume(r)
  BY <1>2, GoesOn DEF Resume, FleetRow, RowState, ReqPC
<1>3. CASE Pause(r)
  BY <1>3, GoesOn DEF Pause, FleetRow, RowState, ReqPC
<1>4. CASE Teardown(r)
  BY <1>4, GoesOn DEF Teardown, FleetRow, RowState, ReqPC
<1>5. ASSUME NEW d \in Device, Disconnect(r, d) PROVE SvcStepOK
  <2>1. /\ dev' = [dev EXCEPT ![d] = "disconnected"] /\ req' = [req EXCEPT ![r] = Working("pause", {d})]
        /\ UNCHANGED <<fleet, member, marking, timer>>
    BY <1>5 DEF Disconnect
  <2>2. /\ dev' \in [Device -> DevState \cup {"new", "removed"}]
        /\ \A e \in Device : dev'[e] = IF e = d THEN "disconnected" ELSE dev[e]
    BY <2>1 DEF DevState
  <2>3. "pause" \in ReqPC \ {"patchDevice"} /\ {d} \in SUBSET Device
    BY DEF ReqPC
  <2>4. /\ \A e \in Device : dev[e] # "new" => dev'[e] # "new"
        /\ \A e \in Device : dev'[e] = "adopted" => dev[e] = "adopted"
        /\ member' \in SUBSET Device /\ \A e \in {d} \cup member' : dev'[e] # "new"
    BY <2>1, <2>2
  <2> HIDE DEF RowsCommitted
  <2> QED
    BY <2>1, <2>2, <2>3, <2>4, GoesOn, ZenonT(40)
<1>6. ASSUME NEW d \in Device, Reconnect(r, d) PROVE SvcStepOK
  <2>1. /\ dev' = [dev EXCEPT ![d] = "pending"] /\ req' = [req EXCEPT ![r] = Working("resume", {d})]
        /\ UNCHANGED <<fleet, member, marking, timer>>
    BY <1>6 DEF Reconnect
  <2>2. /\ dev' \in [Device -> DevState \cup {"new", "removed"}]
        /\ \A e \in Device : dev'[e] = IF e = d THEN "pending" ELSE dev[e]
    BY <2>1 DEF DevState
  <2>3. "resume" \in ReqPC \ {"patchDevice"} /\ {d} \in SUBSET Device
    BY DEF ReqPC
  <2>4. /\ \A e \in Device : dev[e] # "new" => dev'[e] # "new"
        /\ \A e \in Device : dev'[e] = "adopted" => dev[e] = "adopted"
        /\ member' \in SUBSET Device /\ \A e \in {d} \cup member' : dev'[e] # "new"
    BY <2>1, <2>2
  <2> HIDE DEF RowsCommitted
  <2> QED
    BY <2>1, <2>2, <2>3, <2>4, GoesOn, ZenonT(40)
<1>7. ASSUME NEW d \in Device, NEW in \in BOOLEAN, CreateDevice(r, d, in) PROVE SvcStepOK
  <2>1. /\ dev' = [dev EXCEPT ![d] = "pending"] /\ req' = [req EXCEPT ![r] = Working("resume", {d})]
        /\ UNCHANGED <<fleet, marking, timer>> /\ member' \in {member, member \cup {d}}
    BY <1>7 DEF CreateDevice
  <2>2. /\ dev' \in [Device -> DevState \cup {"new", "removed"}]
        /\ \A e \in Device : dev'[e] = IF e = d THEN "pending" ELSE dev[e]
    BY <2>1 DEF DevState
  <2>3. "resume" \in ReqPC \ {"patchDevice"} /\ {d} \in SUBSET Device
    BY DEF ReqPC
  <2>4. /\ \A e \in Device : dev[e] # "new" => dev'[e] # "new"
        /\ \A e \in Device : dev'[e] = "adopted" => dev[e] = "adopted"
        /\ member' \in SUBSET Device /\ \A e \in {d} \cup member' : dev'[e] # "new"
    BY <2>1, <2>2
  <2> HIDE DEF RowsCommitted
  <2> QED
    BY <2>1, <2>2, <2>3, <2>4, GoesOn, ZenonT(40)
<1> QED
  BY <1>1, <1>2, <1>3, <1>4, <1>5, <1>6, <1>7 DEF WishStep

\* The steps of the handlers that leave it alone (services.py 38-157, views.py 13-116).
LEMMA QuietOK ==
  ASSUME SvcTypeOK, RowsCommitted, NEW r \in Req, QuietStep(r)
  PROVE  SvcStepOK
<1> USE DEF SvcTypeOK, RowsCommitted, FleetRow, RowState, DevState, ReqPC
<1>1. CASE CreateFleet(r)
  <2>1. "creating" \in FleetRow /\ "instantiate" \in ReqPC \ {"patchDevice"}
        /\ {} \in SUBSET Device
    OBVIOUS
  <2> QED
    BY <1>1, <2>1, GoesOn DEF CreateFleet
<1>2. CASE ScheduleTransition(r)
  BY <1>2, Answered DEF ScheduleTransition
<1>3. CASE ListDevices(r)
  <2>1. LoopOf[req[r].pc] \in ReqPC \ {"patchDevice"}
    BY <1>3 DEF ListDevices, LoopOf
  <2> QED
    BY <1>3, <2>1, GoesOn DEF ListDevices
<1>4. CASE TeardownEnds(r)
  BY <1>4, Answered DEF TeardownEnds
<1>5. CASE DestroyFleet(r)
  BY <1>5, RowStep DEF DestroyFleet
<1>6. CASE PatchFleetRead(r)
  <2> DEFINE next == [Idle EXCEPT !.pc = "patchFleet", !.fcopy = fleet]
  <2>1. next \in Request /\ next.todo = {} /\ next.pc = "patchFleet"
    BY IdleOK DEF Request
  <2>2. req' = [req EXCEPT ![r] = next] /\ UNCHANGED <<fleet, dev, member, marking, timer>>
    BY <1>6 DEF PatchFleetRead
  <2> HIDE DEF next
  <2> QED
    BY <2>1, <2>2, HandlerStep
<1>7. CASE PatchDeviceSave(r)
  <2>1. req[r] \in Request /\ req[r].pc = "patchDevice"
    BY <1>7 DEF PatchDeviceSave
  <2>2. req[r].dcopy.state \in DevState /\ req[r].todo \in SUBSET Device
    BY <2>1 DEF Request, DeviceCopy
  <2>3. CASE req[r].dcopy.member /\ ~FleetExists
    BY <1>7, <2>3, Answered DEF PatchDeviceSave
  <2>4. CASE ~(req[r].dcopy.member /\ ~FleetExists)
    <3>1. /\ dev' = [d \in Device |-> IF d \in req[r].todo THEN req[r].dcopy.state ELSE dev[d]]
          /\ member' \in {member \cup req[r].todo, member \ req[r].todo}
          /\ req' = [req EXCEPT ![r] = Idle]
          /\ UNCHANGED <<fleet, marking, timer>>
      BY <1>7, <2>4 DEF PatchDeviceSave
    <3>2. dev' \in [Device -> DevState \cup {"new", "removed"}] /\ member' \in SUBSET Device
      BY <2>2, <3>1
    <3>3. \A d \in Device : dev'[d] = "adopted" => dev[d] = "adopted" \/ Copied(d)
      BY <2>1, <3>1 DEF Copied
    <3>4. \A d \in Device : dev[d] # "new" => dev'[d] # "new"
      BY <2>2, <3>1
    <3>5. \A d \in member' : dev'[d] # "new"
      BY <2>2, <3>1, <3>2, <3>4
    <3> QED
      BY <3>1, <3>2, <3>3, <3>4, <3>5, Answered
  <2> QED
    BY <2>3, <2>4
<1>8. ASSUME NEW d \in Device, DestroyDevice(r, d) PROVE SvcStepOK
  BY <1>8, RowStep DEF DestroyDevice, DeviceExists
<1>9. ASSUME NEW d \in Device, NEW in \in BOOLEAN, PatchDeviceRead(r, d, in) PROVE SvcStepOK
  <2> DEFINE copy == [state |-> dev[d], member |-> in]
             next == [Idle EXCEPT !.pc = "patchDevice", !.todo = {d}, !.dcopy = copy]
  <2>1. dev[d] \in DevState /\ copy \in DeviceCopy
    BY <1>9 DEF PatchDeviceRead, DeviceExists, DeviceCopy
  <2>2. next \in Request /\ next.todo = {d} /\ next.dcopy.state = dev[d]
    BY <2>1, IdleOK DEF Request
  <2>3. req' = [req EXCEPT ![r] = next] /\ UNCHANGED <<fleet, dev, member, marking, timer>>
    BY <1>9 DEF PatchDeviceRead
  <2> HIDE DEF next
  <2> QED
    BY <2>1, <2>2, <2>3, HandlerStep
<1> QED
  BY <1>1, <1>2, <1>3, <1>4, <1>5, <1>6, <1>7, <1>8, <1>9 DEF QuietStep

\* A handler that fails half-way (services.py 57-88).
LEMMA InterruptionOK ==
  ASSUME SvcTypeOK, RowsCommitted, Interruption
  PROVE  SvcStepOK
<1> USE DEF SvcTypeOK, RowsCommitted
<1>1. CASE TransitionLost
  BY <1>1, RowStep DEF TransitionLost
<1>2. ASSUME NEW r \in Req, InstantiateFails(r) PROVE SvcStepOK
  BY <1>2, Answered DEF InstantiateFails
<1>3. ASSUME NEW r \in Req, ScheduleFails(r) PROVE SvcStepOK
  BY <1>3, Answered DEF ScheduleFails
<1>4. ASSUME NEW r \in Req, PatchFleetSave(r) PROVE SvcStepOK
  <2>1. req[r].fcopy \in FleetRow
    BY DEF Request
  <2> QED
    BY <1>4, <2>1, Answered DEF PatchFleetSave
<1> QED
  BY <1>1, <1>2, <1>3, <1>4 DEF Interruption

\* The Celery task at the end of a ramp (tasks.py 21-47).
LEMMA TransitionOK ==
  ASSUME SvcTypeOK, RowsCommitted, Transition
  PROVE  SvcStepOK
  BY RowStep DEF Transition, TransitionRead, TransitionWrite, SvcTypeOK, FleetRow, RowState

\* The save of the mark-adopted handler (devices/views.py 113-116).
LEMMA MarkSaveOK ==
  ASSUME SvcTypeOK, RowsCommitted, NEW d \in Device, MarkAdoptedSave(d)
  PROVE  SvcStepOK
  BY RowStep DEF MarkAdoptedSave, SvcTypeOK, DevState, DeviceExists

\* The web process dies: every request is lost.
LEMMA WebCrashOK ==
  ASSUME SvcTypeOK, RowsCommitted, WebCrash
  PROVE  SvcStepOK
<1>1. req' = [r \in Req |-> Idle] /\ marking' = {} /\ UNCHANGED <<fleet, dev, member, timer>>
  BY DEF WebCrash
<1>2. SvcTypeOK' /\ RowsCommitted'
  BY <1>1, IdleOK DEF SvcTypeOK, RowsCommitted
<1>3. \A d \in Device : Claimed(d)' => Claimed(d)
  BY <1>1, IdleOK DEF Claimed, Copied
<1> QED
  BY <1>1, <1>2, <1>3 DEF SvcStepOK

\* The command of a committed row leaves for pub/sub (worker_commands.py 48-57).
LEMMA PublishOK ==
  ASSUME SvcTypeOK, RowsCommitted, NEW r \in Req, NEW d \in Device, Publish(r, d)
  PROVE  /\ SvcStepOK /\ dev[d] # "new" /\ UNCHANGED dev
         /\ CommandOf(req[r].pc, d) \in Command /\ CommandOf(req[r].pc, d).dev = d
<1>1. req[r] \in Request /\ req[r].pc \in Publishes /\ d \in req[r].todo
  BY DEF SvcTypeOK, Publish
<1>2. /\ req[r].pc \in ReqPC \ {"patchDevice"}
      /\ req[r].todo \ {d} \in SUBSET Device
  BY <1>1 DEF Publishes, Request, ReqPC
<1>3. SvcStepOK
  BY <1>1, <1>2, GoesOn DEF Publish, SvcTypeOK, RowsCommitted
<1> QED
  BY <1>1, <1>3 DEF RowsCommitted, Publish, CommandOf, Command

-----------------------------------------------------------------------------
(* The worker's side: every step of the composition is one of Supervisor.  *)

\* What Django publishes is a command of the worker.
LEMMA CommandTyped ==
  ASSUME NEW d \in Device
  PROVE  [action |-> "force_inform", dev |-> d, auto |-> FALSE] \in Command
  BY DEF Command

\* Every step of the composition is a step of the worker, or leaves it alone.
LEMMA ControlStepsSupervisor ==
  ASSUME ControlInv, [ControlNext]_allVars
  PROVE  [Next]_supVars
<1> USE DEF ControlInv
<1>1. CASE UNCHANGED allVars
  BY <1>1 DEF allVars
<1>2. CASE DjangoStep \/ WebCrashStep \/ \E r \in Req : WishCommitted(r)
  BY <1>2 DEF DjangoStep, WebCrashStep, WishCommitted
<1>3. ASSUME NEW r \in Req, NEW d \in Device, PublishArrives(r, d) PROVE Next
  <2>1. CommandOf(req[r].pc, d) \in Command
    BY <1>3, PublishOK DEF PublishArrives
  <2> QED
    BY <1>3, <2>1 DEF PublishArrives, Next, EnvironmentNext
<1>4. ASSUME NEW r \in Req, NEW d \in Device, PublishMissed(r, d) PROVE UNCHANGED supVars
  BY <1>4 DEF PublishMissed
<1>5. ASSUME NEW d \in Device, ForceInform(d) PROVE Next
  BY <1>5, CommandTyped DEF ForceInform, Next, EnvironmentNext
<1>6. ASSUME NEW d \in Device, MarkArrives(d) \/ MarkLost(d) PROVE Next
  BY <1>6 DEF MarkArrives, MarkLost, Next, EnvironmentNext
<1>7. CASE PollRows(PendingRows) \/ PollRows({})
  <2>1. PendingRows \in SUBSET Device /\ {} \in SUBSET Device
    BY DEF PendingRows
  <2> QED
    BY <1>7, <2>1 DEF PollRows, Next
<1>8. CASE LoseConnection \/ DespawnStep
  BY <1>8 DEF LoseConnection, DespawnStep, Next, WorkerNext, HandleCommand
<1>9. CASE TaskSteps
  BY <1>9 DEF TaskSteps, Next, WorkerNext
<1>10. CASE WorkerStep
  BY <1>10 DEF WorkerStep, Next, WorkerNext, HandleCommand
<1>11. CASE ControllerStep
  BY <1>11 DEF ControllerStep, Next, EnvironmentNext
<1> QED
  BY <1>1, <1>2, <1>3, <1>4, <1>5, <1>6, <1>7, <1>8, <1>9, <1>10, <1>11 DEF ControlNext

\* The controller forgets no adoption.
LEMMA AcceptedGrows ==
  ASSUME [Next]_supVars
  PROVE  accepted \subseteq accepted'
<1>1. CASE UNCHANGED supVars
  BY <1>1 DEF supVars
<1>2. CASE UNCHANGED network
  BY <1>2 DEF network
<1>3. ASSUME NEW d \in Device, NEW k \in TaskId, TaskStep(d, k) PROVE accepted' = accepted
  BY <1>3 DEF TaskStep, ContextLoaded, ContextSkipped, ContextFails, LoginOk, AdoptOk,
     ClientError, TransientError, BackoffOver, NotifyReturns, LoopSeesStop, Goto
<1>4. ASSUME NEW d \in Device, CancelTask(d) \/ AwaitRaises(d) PROVE accepted' = accepted
  BY <1>4 DEF CancelTask, AwaitRaises, network
<1>5. CASE EnvironmentNext
  BY <1>5 DEF EnvironmentNext, Deliver, ControllerAdopts, AdoptRequestLost, MarkRequestGone,
     network
<1>6. CASE Boot \/ Crash \/ Subscribe \/ ListenFails \/ HandleCommand \/ RequestStop
           \/ ClearTasks \/ Exit
  BY <1>6 DEF Boot, Crash, ProcessGone, Subscribe, ListenFails, HandleCommand, HandleSpawn,
     HandleDespawn, HandleForceInform, NextCommand, RequestStop, ClearTasks, Exit, network
<1>7. ASSUME NEW d \in Device, NEW auto \in BOOLEAN, DelayedSpawn(d, auto)
      PROVE accepted' = accepted
  BY <1>7 DEF DelayedSpawn, network
<1>8. ASSUME NEW found \in SUBSET Device, StartupPoll(found) PROVE accepted' = accepted
  BY <1>8 DEF StartupPoll, network
<1> QED
  BY <1>1, <1>3, <1>4, <1>5, <1>6, <1>7, <1>8 DEF Next, WorkerNext, Shutdown

-----------------------------------------------------------------------------
(* Which devices the worker has a command, a sleeping spawn or a task for. *)

Asked(d) ==
  \/ d \in InboxDevices \/ tasks[d] # NoTask
  \/ \E auto \in BOOLEAN : delayed[d][auto] > 0

\* A delivered command joins those the worker was asked (redis_commands.py 40-55).
LEMMA DeliverAsks ==
  ASSUME TypeOK, NEW c \in Command, Deliver(c)
  PROVE  \A d \in Device : Asked(d)' => Asked(d) \/ d = c.dev
<1>1. inbox \in Seq(Command) /\ inbox' = Append(inbox, c)
  BY DEF TypeOK, Deliver
<1>2. \A i \in 1 .. Len(inbox') : inbox'[i] = c \/ (i \in 1 .. Len(inbox) /\ inbox'[i] = inbox[i])
  BY <1>1
<1>3. \A d \in Device : d \in InboxDevices' => d \in InboxDevices \/ d = c.dev
  BY <1>2 DEF InboxDevices
<1> QED
  BY <1>3 DEF Asked, Deliver

\* The worker takes a command it was asked (supervisor.py 122-134).
LEMMA NextCommandAsks ==
  ASSUME TypeOK, NEW action, NextCommand(action)
  PROVE  Head(inbox) \in Command /\ Head(inbox).dev \in InboxDevices
         /\ \A d \in Device : d \in InboxDevices' => d \in InboxDevices
<1>1. inbox \in Seq(Command) /\ inbox # << >> /\ inbox' = Tail(inbox)
  BY DEF TypeOK, NextCommand
<1>2. Head(inbox) = inbox[1] /\ 1 \in 1 .. Len(inbox) /\ inbox[1] \in Command
  BY <1>1
<1>3. \A i \in 1 .. Len(inbox') : i + 1 \in 1 .. Len(inbox) /\ inbox'[i] = inbox[i + 1]
  BY <1>1
<1> QED
  BY <1>2, <1>3 DEF InboxDevices

\* A worker that has just subscribed was asked nothing yet.
LEMMA EmptyInbox ==
  ASSUME inbox' = << >>
  PROVE  InboxDevices' = {}
  BY DEF InboxDevices

\* The worker asks nothing of itself for a device it was not asked to run.
LEMMA WorkerAsks ==
  ASSUME SupervisorInv, WorkerNext
  PROVE  \A d \in Device : Asked(d)' => Asked(d)
<1>0. TypeOK
  BY DEF SupervisorInv
<1>1. CASE UNCHANGED <<inbox, tasks, delayed>>
  BY <1>1 DEF Asked, InboxDevices
<1>2. CASE ProcessGone
  BY <1>2, EmptyInbox DEF ProcessGone, Asked
<1>3. CASE ListenFails \/ RequestStop
  BY <1>3, EmptyInbox DEF ListenFails, RequestStop, Asked
<1>4. CASE ClearTasks
  BY <1>4 DEF ClearTasks, Asked, InboxDevices
<1>5. CASE HandleSpawn
  <2>1. /\ Head(inbox) \in Command /\ Head(inbox).dev \in InboxDevices
        /\ \A d \in Device : d \in InboxDevices' => d \in InboxDevices
    BY <1>0, <1>5, NextCommandAsks DEF HandleSpawn
  <2>2. tasks' = tasks /\ \A d \in Device : d # Head(inbox).dev => delayed'[d] = delayed[d]
    BY <1>0, <1>5 DEF HandleSpawn, TypeOK
  <2> QED
    BY <2>1, <2>2 DEF Asked
<1>6. CASE HandleDespawn
  <2>1. \A d \in Device : d \in InboxDevices' => d \in InboxDevices
    BY <1>0, <1>6, NextCommandAsks DEF HandleDespawn
  <2>2. delayed' = delayed /\ \A d \in Device : tasks'[d] \in {NoTask, tasks[d]}
    BY <1>0, <1>6 DEF HandleDespawn, TypeOK
  <2> QED
    BY <2>1, <2>2 DEF Asked
<1>7. CASE HandleForceInform
  BY <1>0, <1>7, NextCommandAsks DEF HandleForceInform, Asked
<1>8. ASSUME NEW d \in Device, NEW auto \in BOOLEAN, DelayedSpawn(d, auto)
      PROVE \A e \in Device : Asked(e)' => Asked(e)
  <2>1. delayed[d][auto] > 0 /\ inbox' = inbox
    BY <1>8 DEF DelayedSpawn
  <2>2. \A e \in Device : e # d => tasks'[e] = tasks[e] /\ delayed'[e] = delayed[e]
    BY <1>0, <1>8 DEF DelayedSpawn, SpawnDevice, TypeOK
  <2> QED
    BY <2>1, <2>2 DEF Asked, InboxDevices
<1>9. ASSUME NEW d \in Device, NEW k \in TaskId, TaskStep(d, k)
      PROVE UNCHANGED <<inbox, tasks, delayed>>
  BY <1>9 DEF TaskStep, ContextLoaded, ContextSkipped, ContextFails, LoginOk, AdoptOk,
     ClientError, TransientError, BackoffOver, NotifyReturns, LoopSeesStop, Goto
<1>10. ASSUME NEW d \in Device, CancelTask(d) \/ AwaitRaises(d)
       PROVE  UNCHANGED <<inbox, tasks, delayed>>
  BY <1>10 DEF CancelTask, AwaitRaises
<1>11. CASE Boot \/ Subscribe
  BY <1>1, <1>11 DEF Boot, Subscribe, memory
<1>12. CASE Crash \/ Exit
  BY <1>2, <1>12 DEF Crash, Exit
<1> QED
  BY <1>1, <1>3, <1>4, <1>5, <1>6, <1>7, <1>8, <1>9, <1>10, <1>11, <1>12
  DEF WorkerNext, HandleCommand, Shutdown

-----------------------------------------------------------------------------
(* The composition.                                                        *)

\* What Django's half of a step of the composition does.
LEMMA ServiceHalf ==
  ASSUME ControlInv, [ControlNext]_allVars
  PROVE  /\ SvcTypeOK' /\ RowsCommitted'
         /\ \A d \in Device : dev[d] # "new" => dev'[d] # "new"
         /\ \A d \in Device : Claimed(d)' => Claimed(d) \/ d \in accepted
<1> USE DEF ControlInv
<1>1. CASE SvcStepOK
  BY <1>1 DEF SvcStepOK
<1>2. CASE UNCHANGED svcVars
  BY <1>2 DEF svcVars, SvcTypeOK, RowsCommitted, Claimed, Copied
<1>3. CASE DjangoStep
  BY <1>1, <1>3, QuietOK, TransitionOK, InterruptionOK, MarkSaveOK DEF DjangoStep
<1>4. CASE WebCrashStep
  BY <1>1, <1>4, WebCrashOK DEF WebCrashStep
<1>5. CASE \E r \in Req : WishCommitted(r)
  BY <1>1, <1>5, WishStepOK DEF WishCommitted
<1>6. ASSUME NEW r \in Req, NEW d \in Device, PublishArrives(r, d) \/ PublishMissed(r, d)
      PROVE SvcStepOK
  BY <1>6, PublishOK DEF PublishArrives, PublishMissed
<1>7. ASSUME NEW d \in Device, MarkArrives(d)
      PROVE /\ SvcTypeOK' /\ RowsCommitted' /\ UNCHANGED dev
            /\ \A e \in Device : Claimed(e)' => Claimed(e) \/ e \in accepted
  <2>1. d \in accepted
    BY <1>7 DEF MarkArrives, MarkRequestGone, SupervisorInv, NotifyOnlyAccepted
  <2>2. UNCHANGED <<fleet, dev, member, req, timer>> /\ marking' \subseteq marking \cup {d}
    BY <1>7 DEF MarkArrives, MarkAdoptedRead
  <2> QED
    BY <2>1, <2>2 DEF SvcTypeOK, RowsCommitted, Claimed, Copied
<1>8. CASE (\E d \in Device : ForceInform(d) \/ MarkLost(d)) \/ LoseConnection \/ DespawnStep
           \/ TaskSteps \/ WorkerStep \/ ControllerStep \/ PollRows(PendingRows) \/ PollRows({})
  BY <1>2, <1>8 DEF ForceInform, MarkLost, LoseConnection, DespawnStep, TaskSteps, WorkerStep,
     ControllerStep, PollRows
<1>9. CASE UNCHANGED allVars
  BY <1>2, <1>9 DEF allVars
<1> QED
  BY <1>1, <1>3, <1>4, <1>5, <1>6, <1>7, <1>8, <1>9 DEF ControlNext

\* A step asks for no device whose row is not committed.
LEMMA StepAsksForRows ==
  ASSUME ControlInv, [ControlNext]_allVars
  PROVE  \A d \in Device : Asked(d)' => Asked(d) \/ dev[d] # "new"
<1> USE DEF ControlInv
<1>0. TypeOK
  BY DEF SupervisorInv
<1>1. CASE UNCHANGED supVars
  BY <1>1 DEF supVars, Asked, InboxDevices
<1>2. CASE WorkerNext
  BY <1>2, WorkerAsks
<1>3. ASSUME NEW r \in Req, NEW d \in Device, PublishArrives(r, d)
      PROVE \A e \in Device : Asked(e)' => Asked(e) \/ dev[e] # "new"
  <2>1. /\ CommandOf(req[r].pc, d) \in Command /\ CommandOf(req[r].pc, d).dev = d
        /\ dev[d] # "new"
    BY <1>3, PublishOK DEF PublishArrives
  <2> QED
    BY <1>0, <1>3, <2>1, DeliverAsks DEF PublishArrives
<1>4. ASSUME NEW d \in Device, ForceInform(d)
      PROVE \A e \in Device : Asked(e)' => Asked(e) \/ dev[e] # "new"
  <2>1. dev[d] # "new"
    BY <1>4 DEF ForceInform, DeviceExists, DevState
  <2> QED
    BY <1>0, <1>4, <2>1, CommandTyped, DeliverAsks DEF ForceInform
<1>5. CASE PollRows(PendingRows) \/ PollRows({})
  <2>1. PICK found \in SUBSET PendingRows : StartupPoll(found)
    BY <1>5 DEF PollRows
  <2>2. UNCHANGED <<inbox, delayed>> /\ \A d \in Device : d \notin found => tasks'[d] = tasks[d]
    BY <2>1 DEF StartupPoll
  <2> QED
    BY <2>1, <2>2 DEF Asked, InboxDevices, PendingRows
<1>6. CASE DjangoStep \/ WebCrashStep \/ (\E r \in Req : WishCommitted(r))
           \/ (\E r \in Req, d \in Device : PublishMissed(r, d))
  BY <1>1, <1>6 DEF DjangoStep, WebCrashStep, WishCommitted, PublishMissed
<1>7. CASE ControllerStep \/ (\E d \in Device : MarkArrives(d) \/ MarkLost(d))
  BY <1>7 DEF ControllerStep, MarkArrives, MarkLost, ControllerAdopts, AdoptRequestLost,
     MarkRequestGone, memory, Asked, InboxDevices
<1>8. CASE LoseConnection \/ DespawnStep
  BY <1>2, <1>8 DEF LoseConnection, DespawnStep, WorkerNext, HandleCommand
<1>9. CASE TaskSteps \/ WorkerStep
  BY <1>2, <1>9 DEF TaskSteps, WorkerStep, WorkerNext, HandleCommand
<1>10. CASE UNCHANGED allVars
  BY <1>1, <1>10 DEF allVars
<1> QED
  BY <1>3, <1>4, <1>5, <1>6, <1>7, <1>8, <1>9, <1>10 DEF ControlNext

\* An empty database and a worker that has not booted satisfy ControlInv.
THEOREM ControlInvInit == ControlInit => ControlInv
<1> SUFFICES ASSUME ControlInit PROVE ControlInv
  OBVIOUS
<1>1. SupervisorInv
  BY InitEstablishesInv DEF ControlInit
<1>2. \A r \in Req : req[r] = Idle
  BY DEF ControlInit, SvcInit
<1>3. SvcTypeOK /\ RowsCommitted
  BY <1>2, IdleOK DEF ControlInit, SvcInit, SvcTypeOK, RowsCommitted, FleetRow
<1>4. ClaimsAreAccepted
  BY <1>2, IdleOK DEF ControlInit, SvcInit, ClaimsAreAccepted, Claimed, Copied
<1>5. CommandsFollowRows
  BY DEF ControlInit, Init, CommandsFollowRows, InboxDevices
<1> QED
  BY <1>1, <1>3, <1>4, <1>5 DEF ControlInv

\* Every step of Django, the worker, pub/sub and the controller preserves ControlInv.
THEOREM ControlInvStep == ControlInv /\ [ControlNext]_allVars => ControlInv'
<1> SUFFICES ASSUME ControlInv, [ControlNext]_allVars PROVE ControlInv'
  OBVIOUS
<1>1. [Next]_supVars
  BY ControlStepsSupervisor
<1>2. SupervisorInv'
  BY <1>1, StepKeepsInv DEF ControlInv
<1>3. /\ SvcTypeOK' /\ RowsCommitted'
      /\ \A d \in Device : dev[d] # "new" => dev'[d] # "new"
      /\ \A d \in Device : Claimed(d)' => Claimed(d) \/ d \in accepted
  BY ServiceHalf
<1>4. ClaimsAreAccepted'
  BY <1>1, <1>3, AcceptedGrows DEF ClaimsAreAccepted, ControlInv
<1>5. CommandsFollowRows'
  BY <1>3, StepAsksForRows DEF CommandsFollowRows, ControlInv, Asked
<1> QED
  BY <1>2, <1>3, <1>4, <1>5 DEF ControlInv

-----------------------------------------------------------------------------
(* The results.                                                            *)

\* ControlInv holds in every reachable state of the control path.
THEOREM ControlInvHolds == ControlSpec => []ControlInv
  BY ControlInvInit, ControlInvStep, PTL DEF ControlSpec

\* What Django shows as adopted, the controller has adopted, however many
\* handlers, callbacks, PATCHes and crashes overlap (apps/devices/views.py
\* 92-116, engine/supervisor.py 264-272).
THEOREM AdoptedRowsAreTrue == ControlSpec => []AdoptedMeansAccepted
<1>1. ControlInv => AdoptedMeansAccepted
  BY DEF ControlInv, ClaimsAreAccepted, Claimed, AdoptedMeansAccepted, SupervisorInv,
     NotifyOnlyAccepted
<1> QED
  BY <1>1, ControlInvHolds, PTL

\* No command, sleeping spawn or task for a device whose row was never
\* committed (apps/fleets/services.py 57-80).
THEOREM CommandsOnlyForRows == ControlSpec => []CommandsFollowRows
<1>1. ControlInv => CommandsFollowRows
  BY DEF ControlInv
<1> QED
  BY <1>1, ControlInvHolds, PTL

\* The ghosts keep their type as well.
LEMMA GhostsTyped ==
  ASSUME ControlInv, ControlTypeOK, [ControlNext]_allVars
  PROVE  (wanted \in SUBSET Device /\ missed \in SUBSET Device
          /\ outlived \in SUBSET Device)'
<1> USE DEF ControlTypeOK
<1>1. CASE UNCHANGED ghosts
  BY <1>1 DEF ghosts
<1>2. CASE UNCHANGED allVars
  BY <1>2 DEF allVars, ghosts
<1>3. ASSUME NEW r \in Req, WishCommitted(r)
      PROVE wanted' \in SUBSET Device /\ UNCHANGED <<missed, outlived>>
  BY <1>3 DEF WishCommitted
<1>4. CASE WebCrashStep
  <2>1. \A r \in Req : Owed(r) \subseteq Device
    BY DEF Owed, SvcTypeOK, Request
  <2> QED
    BY <1>4, <2>1 DEF WebCrashStep
<1>5. CASE \E r \in Req, d \in Device : PublishArrives(r, d) \/ PublishMissed(r, d)
  BY <1>5 DEF PublishArrives, PublishMissed
<1>6. CASE PollRows(PendingRows) \/ PollRows({})
  BY <1>6 DEF PollRows
<1>7. CASE LoseConnection
  <2>1. inbox \in Seq(Command)
    BY DEF TypeOK
  <2>2. \A i \in 1 .. Len(inbox) : inbox[i] \in Command
    BY <2>1
  <2>3. \A i \in 1 .. Len(inbox) : inbox[i].dev \in Device
    BY <2>2 DEF Command
  <2> QED
    BY <1>7, <2>3 DEF LoseConnection
<1>8. CASE DespawnStep
  <2>1. Head(inbox).dev \in Device
    BY <1>8, NextCommandAsks DEF DespawnStep, HandleDespawn, Command
  <2> QED
    BY <1>8, <2>1 DEF DespawnStep
<1> QED
  BY <1>1, <1>2, <1>3, <1>4, <1>5, <1>6, <1>7, <1>8 DEF ControlNext, DjangoStep, ForceInform,
     MarkArrives, MarkLost, TaskSteps, WorkerStep, ControllerStep

\* Every variable of the composition keeps its type.
THEOREM ControlTypeCorrect == ControlSpec => []ControlTypeOK
<1>1. ControlInit => ControlTypeOK
  BY ControlInvInit DEF ControlInit, ControlInv, SupervisorInv, ControlTypeOK
<1>2. ControlInv /\ ControlInv' /\ ControlTypeOK /\ [ControlNext]_allVars => ControlTypeOK'
  BY GhostsTyped DEF ControlInv, SupervisorInv, ControlTypeOK
<1> QED
  BY <1>1, <1>2, ControlInvHolds, PTL DEF ControlSpec

-----------------------------------------------------------------------------
(* The transient states of the fleet, whatever requests overlap.            *)

\* A request in a loop is at the loop, until it has published everything there.
LEMMA WorkingPC ==
  ASSUME NEW pc, NEW todo
  PROVE  /\ Working(pc, todo).pc \in {pc, "idle"}
         /\ pc \notin {"resume", "pause"} => Working(pc, todo).pc = pc
  BY DEF Working, Idle

\* A step of one request leaves every state that is still transient its owner.
LEMMA OwnersStay ==
  ASSUME SvcTypeOK, Owned, NEW r \in Req, NEW next, req' = [req EXCEPT ![r] = next],
         fleet' = "creating" =>
           next.pc = "instantiate" \/ (fleet = "creating" /\ req[r].pc # "instantiate"),
         fleet' = "ramping" =>
           \/ next.pc = "ramp" \/ timer' # "none"
           \/ fleet = "ramping" /\ timer' = timer /\ req[r].pc # "ramp",
         fleet' = "tearing_down" =>
           \/ next.pc \in {"retiring", "retire"}
           \/ fleet = "tearing_down" /\ req[r].pc \notin {"retiring", "retire"}
  PROVE  Owned'
<1>1. req'[r] = next /\ \A q \in Req \ {r} : req'[q] = req[q]
  BY DEF SvcTypeOK
<1>2. ASSUME NEW pcs, next.pc \in pcs
      PROVE  AtWork(pcs)'
  BY <1>1, <1>2, Zenon DEF AtWork
<1>3. ASSUME NEW pcs, AtWork(pcs), req[r].pc \notin pcs
      PROVE  AtWork(pcs)'
  <2>1. PICK q \in Req : req[q].pc \in pcs
    BY <1>3, Zenon DEF AtWork
  <2>2. req'[q] = req[q]
    BY <1>1, <1>3, <2>1
  <2> QED
    BY <2>1, <2>2, Zenon DEF AtWork
<1>4. fleet' = "creating" => AtWork({"instantiate"})'
  BY <1>2, <1>3 DEF Owned
<1>5. fleet' = "ramping" => AtWork({"ramp"})' \/ timer' # "none"
  BY <1>2, <1>3 DEF Owned
<1>6. fleet' = "tearing_down" => AtWork({"retiring", "retire"})'
  BY <1>2, <1>3 DEF Owned
<1> QED
  BY <1>4, <1>5, <1>6, Zenon DEF Owned

\* A request that starts, and one that is not about the fleet, own nothing.
LEMMA OwnersSleep ==
  ASSUME SvcTypeOK, Owned, NEW r \in Req, NEW next, req' = [req EXCEPT ![r] = next],
         UNCHANGED timer, fleet' = fleet \/ fleet' \notin {"creating", "ramping", "tearing_down"},
         req[r].pc \notin {"instantiate", "ramp", "retiring", "retire"}
  PROVE  Owned'
  BY OwnersStay

\* Each step of a handler (views.py, services.py).
LEMMA HandlersOwn ==
  ASSUME SvcTypeOK, Owned, NEW r \in Req,
         \/ QuietStep(r)
         \/ \E devices \in SUBSET Device, on \in BOOLEAN : WishStep(r, devices, on)
         \/ \E d \in Device : Publish(r, d)
  PROVE  Owned'
<1>1. Idle.pc = "idle"
  BY DEF Idle
<1>2. CASE CreateFleet(r)
  <2>1. PICK next : /\ next = Working("instantiate", {})
                    /\ req' = [req EXCEPT ![r] = next]
    BY <1>2 DEF CreateFleet
  <2>2. next.pc = "instantiate" /\ fleet' = "creating"
    BY <1>2, <2>1, WorkingPC DEF CreateFleet
  <2> QED
    BY <2>1, <2>2, OwnersStay
<1>3. CASE ScheduleTransition(r)
  BY <1>3, OwnersStay DEF ScheduleTransition
<1>4. CASE ListDevices(r)
  <2>1. PICK next : /\ next = Working(LoopOf[req[r].pc], member)
                    /\ req' = [req EXCEPT ![r] = next]
    BY <1>4 DEF ListDevices
  <2>2. /\ req[r].pc \in {"pausing", "resuming", "retiring"}
        /\ req[r].pc = "retiring" => next.pc = "retire"
        /\ UNCHANGED <<fleet, timer>>
    BY <1>4, <2>1, WorkingPC DEF ListDevices, LoopOf
  <2> QED
    BY <2>1, <2>2, OwnersStay
<1>5. CASE TeardownEnds(r)
  BY <1>5, OwnersStay DEF TeardownEnds, FleetExists, RowState
<1>6. CASE DestroyFleet(r)
  BY <1>6 DEF DestroyFleet, Owned
<1>7. CASE PatchFleetRead(r)
  BY <1>1, <1>7, OwnersSleep DEF PatchFleetRead
<1>8. CASE PatchDeviceSave(r)
  BY <1>8, OwnersSleep DEF PatchDeviceSave
<1>9. ASSUME NEW d \in Device, DestroyDevice(r, d)
      PROVE  Owned'
  BY <1>9, Zenon DEF DestroyDevice, Owned, AtWork
<1>10. ASSUME NEW d \in Device, NEW in \in BOOLEAN, PatchDeviceRead(r, d, in)
       PROVE  Owned'
  BY <1>1, <1>10, OwnersSleep DEF PatchDeviceRead
<1>11. ASSUME NEW devices \in SUBSET Device, NEW on \in BOOLEAN, WishStep(r, devices, on)
       PROVE  Owned'
  <2>1. CASE Instantiate(r, devices)
    <3>1. PICK next : /\ next = Working("ramp", devices)
                      /\ req' = [req EXCEPT ![r] = next]
      BY <2>1 DEF Instantiate
    <3>2. next.pc = "ramp" /\ fleet' = "ramping"
      BY <2>1, <3>1, WorkingPC DEF Instantiate
    <3> QED
      BY <3>1, <3>2, OwnersStay
  <2>2. CASE Resume(r) \/ Pause(r)
    BY <1>1, <2>2, OwnersSleep DEF Resume, Pause
  <2>3. CASE Teardown(r)
    <3>1. PICK next : /\ next = Working("retiring", member)
                      /\ req' = [req EXCEPT ![r] = next]
      BY <2>3 DEF Teardown
    <3>2. next.pc = "retiring" /\ fleet' = "tearing_down"
      BY <2>3, <3>1, WorkingPC DEF Teardown
    <3> QED
      BY <3>1, <3>2, OwnersStay
  <2>4. ASSUME NEW d \in Device, NEW in \in BOOLEAN,
               Disconnect(r, d) \/ Reconnect(r, d) \/ CreateDevice(r, d, in)
        PROVE  Owned'
    BY <1>1, <2>4, OwnersSleep DEF Disconnect, Reconnect, CreateDevice
  <2> QED
    BY <1>11, <2>1, <2>2, <2>3, <2>4 DEF WishStep
<1>12. ASSUME NEW d \in Device, Publish(r, d)
       PROVE  Owned'
  <2>1. PICK next : /\ next = Working(req[r].pc, req[r].todo \ {d})
                    /\ req' = [req EXCEPT ![r] = next]
    BY <1>12 DEF Publish
  <2>2. /\ req[r].pc \in {"ramp", "retire"} => next.pc = req[r].pc
        /\ req[r].pc \in Publishes /\ UNCHANGED <<fleet, timer>>
    BY <1>12, <2>1, WorkingPC DEF Publish
  <2> QED
    BY <2>1, <2>2, OwnersStay DEF Publishes
<1> QED
  BY <1>2, <1>3, <1>4, <1>5, <1>6, <1>7, <1>8, <1>9, <1>10, <1>11, <1>12 DEF QuietStep

\* The types and the rows of the fleet service alone.
LEMMA ServiceTyped ==
  ASSUME SvcTypeOK, RowsCommitted, SvcNext
  PROVE  SvcTypeOK' /\ RowsCommitted'
<1>1. ASSUME NEW d \in Device, MarkAdoptedRead(d)
      PROVE  SvcTypeOK' /\ RowsCommitted'
  BY <1>1 DEF MarkAdoptedRead, SvcTypeOK, RowsCommitted
<1> QED
  BY <1>1, TransitionOK, QuietOK, WishStepOK, PublishOK, MarkSaveOK, InterruptionOK, WebCrashOK
  DEF SvcNext, SmoothNext, SvcStepOK

\* No interleaving of requests with the Celery task leaves a fleet in creating,
\* ramping or tearing_down without the one who is to end that state, unless a
\* step stopped half-way or a PATCH saved a stale row (services.py, tasks.py).
THEOREM NobodyLeavesTransients == LiveSpec => []TransientHasOwner
<1> DEFINE J == SvcTypeOK /\ RowsCommitted /\ TransientHasOwner
<1>1. LiveInit => J
  <2> SUFFICES ASSUME LiveInit
               PROVE  J
    OBVIOUS
  <2>1. SvcTypeOK /\ RowsCommitted
    BY IdleOK DEF LiveInit, SvcInit, SvcTypeOK, RowsCommitted, FleetRow
  <2>2. TransientHasOwner
    BY DEF LiveInit, SvcInit, TransientHasOwner, Owned
  <2> QED
    BY <2>1, <2>2
<1>2. J /\ [LiveNext]_<<svcVars, interrupted>> => J'
  <2> SUFFICES ASSUME J, [LiveNext]_<<svcVars, interrupted>>
               PROVE  J'
    OBVIOUS
  <2>1. CASE UNCHANGED <<svcVars, interrupted>>
    BY <2>1 DEF svcVars, SvcTypeOK, RowsCommitted, TransientHasOwner, Owned, AtWork
  <2>2. CASE LiveNext
    <3>1. SvcTypeOK' /\ RowsCommitted'
      BY <2>2, ServiceTyped DEF LiveNext, SvcNext
    <3>2. CASE SmoothNext /\ UNCHANGED interrupted
      <4>1. ASSUME ~interrupted
            PROVE  Owned'
        <5>1. Owned
          BY <4>1 DEF TransientHasOwner
        <5>2. CASE Transition
          BY <5>1, <5>2 DEF Transition, TransitionRead, TransitionWrite, Owned, AtWork,
             FleetExists, RowState
        <5>3. CASE \E d \in Device : MarkAdoptedRead(d) \/ MarkAdoptedSave(d)
          BY <5>1, <5>3, Zenon DEF MarkAdoptedRead, MarkAdoptedSave, Owned, AtWork
        <5> QED
          BY <3>2, <5>1, <5>2, <5>3, HandlersOwn DEF SmoothNext
      <4> QED
        BY <3>1, <3>2, <4>1 DEF TransientHasOwner
    <3>3. CASE interrupted' = TRUE
      BY <3>1, <3>3 DEF TransientHasOwner
    <3> QED
      BY <2>2, <3>1, <3>2, <3>3 DEF LiveNext, TransientHasOwner
  <2> QED
    BY <2>1, <2>2
<1>3. J => TransientHasOwner
  OBVIOUS
<1> QED
  BY <1>1, <1>2, <1>3, PTL DEF LiveSpec
=============================================================================
