---------------------------- MODULE FleetService ----------------------------
(***************************************************************************)
(* Django's side of a fleet: the Fleet row, the VirtualDevice rows, the    *)
(* REST handlers that write them (apps/fleets, apps/devices) and the       *)
(* Celery task that ends the ramp.  ATOMIC_REQUESTS is off: every save()   *)
(* commits by itself, so a handler is a sequence of database steps between *)
(* which any other handler runs.  A handler's publishes are steps of their *)
(* own; what becomes of a command is the worker's business (FleetControl). *)
(***************************************************************************)
EXTENDS Naturals, WorkerCommands

CONSTANTS
  Req,          \* operator requests the server handles at the same time
  FleetAutoAdopt, \* fleet.auto_adopt
  Operations    \* what the clients and the environment do in an instance

AllOperations == {"create", "fail", "pause", "resume", "teardown", "destroy",
                  "patchFleet", "patchDevice", "device", "inform", "lose", "webcrash"}

ASSUME OperationsAssumption == Operations \in SUBSET AllOperations
ASSUME AutoAdoptAssumption == FleetAutoAdopt \in BOOLEAN

VARIABLES
  fleet,    \* Fleet.state, "new" before the row, "gone" after its deletion
  dev,      \* VirtualDevice.state, "new" before the row, "removed" after
  member,   \* devices whose fleet foreign key names the fleet
  req,      \* what each operator request still has to do
  marking,  \* mark-adopted handlers between their read and their save
  timer     \* transition_fleet_to_active: "none", "due" or, past its guard, "write"

svcVars == <<fleet, dev, member, req, marking, timer>>

RowState  == {"creating", "ramping", "active", "paused", "tearing_down", "deleted"}
FleetRow  == RowState \cup {"new", "gone"}
DevState  == {"pending", "adopted", "disconnected"}

\* A request's remaining work: todo are the devices whose command is still to
\* be published; fcopy and dcopy are the rows a PATCH has read and will save.
\* "resuming", "pausing" and "retiring" have yet to ask for the fleet's devices.
ReqPC   == {"idle", "instantiate", "ramp", "resuming", "resume", "pausing", "pause",
            "retiring", "retire", "patchFleet", "patchDevice"}
DeviceCopy == [state : DevState, member : BOOLEAN]
Request == [pc : ReqPC, todo : SUBSET Device, fcopy : FleetRow, dcopy : DeviceCopy]

Idle  == [pc |-> "idle", todo |-> {}, fcopy |-> "new",
          dcopy |-> [state |-> "pending", member |-> FALSE]]

\* A request that has nothing left to publish and nothing to do after that
\* has been answered.
Working(pc, todo) ==
  IF todo = {} /\ pc \in {"resume", "pause"} THEN Idle
  ELSE [Idle EXCEPT !.pc = pc, !.todo = todo]

FleetExists     == fleet \in RowState
DeviceExists(d) == dev[d] \in DevState

SvcTypeOK ==
  /\ fleet \in FleetRow
  /\ dev \in [Device -> DevState \cup {"new", "removed"}]
  /\ member \in SUBSET Device
  /\ req \in [Req -> Request]
  /\ marking \in SUBSET Device
  /\ timer \in {"none", "due", "write"}

SvcInit ==
  /\ fleet = "new"
  /\ dev = [d \in Device |-> "new"]
  /\ member = {}
  /\ req = [r \in Req |-> Idle]
  /\ marking = {}
  /\ timer = "none"

-----------------------------------------------------------------------------
(* POST /fleets/: perform_create and instantiate_fleet.                    *)

\* serializer.save(state=creating)
CreateFleet(r) ==
  /\ req[r] = Idle
  /\ fleet = "new"
  /\ fleet' = "creating"
  /\ req' = [req EXCEPT ![r] = Working("instantiate", {})]
  /\ UNCHANGED <<dev, member, marking, timer>>

\* Mutant: the spawn commands do not wait for the rows' transaction.
InstantiateUncommitted(r, made) ==
  /\ req[r].pc = "instantiate"
  /\ fleet # "gone"
  /\ \A d \in made : dev[d] = "new"
  /\ fleet' = "ramping"
  /\ req' = [req EXCEPT ![r] = Working("ramp", made)]
  /\ UNCHANGED <<dev, member, marking, timer>>

\* transaction.atomic(): ramping and the rows of all the devices the request
\* or its blueprint asks for (made), or nothing.
Instantiate(r, made) ==
  /\ req[r].pc = "instantiate"
  /\ fleet # "gone"
  /\ fleet' = "ramping"
  /\ \A d \in made : dev[d] = "new"
  /\ dev' = [d \in Device |-> IF d \in made THEN "pending" ELSE dev[d]]
  /\ member' = member \cup made
  /\ req' = [req EXCEPT ![r] = Working("ramp", made)]
  /\ UNCHANGED <<marking, timer>>

\* Rolled back (a MAC or serial collision, or the fleet row was deleted):
\* the row keeps the state it had and the request is answered with an error.
InstantiateFails(r) ==
  /\ req[r].pc = "instantiate"
  /\ req' = [req EXCEPT ![r] = Idle]
  /\ UNCHANGED <<fleet, dev, member, marking, timer>>

\* After the last spawn: transition_fleet_to_active.apply_async(countdown).
ScheduleTransition(r) ==
  /\ req[r].pc = "ramp"
  /\ req[r].todo = {}
  /\ timer' = "due"
  /\ req' = [req EXCEPT ![r] = Idle]
  /\ UNCHANGED <<fleet, dev, member, marking>>

\* The broker refuses: the request fails, nobody ends the ramp.
ScheduleFails(r) ==
  /\ req[r].pc = "ramp"
  /\ req[r].todo = {}
  /\ req' = [req EXCEPT ![r] = Idle]
  /\ UNCHANGED <<fleet, dev, member, marking, timer>>

-----------------------------------------------------------------------------
(* The Celery task transition_fleet_to_active.                             *)

\* Mutant: the guard looks for a fleet that is still being created.
TransitionReadCreating ==
  /\ timer = "due"
  /\ timer' = IF fleet = "creating" THEN "write" ELSE "none"
  /\ UNCHANGED <<fleet, dev, member, req, marking>>
\* Fleet.objects.get and the guard on the state just read.
TransitionRead ==
  /\ timer = "due"
  /\ timer' = IF fleet = "ramping" THEN "write" ELSE "none"
  /\ UNCHANGED <<fleet, dev, member, req, marking>>

\* save(update_fields=["state"]): no look at what the row holds now.
TransitionWrite ==
  /\ timer = "write"
  /\ timer' = "none"
  /\ fleet' = IF FleetExists THEN "active" ELSE fleet
  /\ UNCHANGED <<dev, member, req, marking>>

\* The Celery worker dies with the task, which it had acknowledged.
TransitionLost ==
  /\ timer # "none"
  /\ timer' = "none"
  /\ UNCHANGED <<fleet, dev, member, req, marking>>

-----------------------------------------------------------------------------
(* POST pause / resume / teardown.  None of them looks at the state.       *)

Pause(r) ==
  /\ req[r] = Idle
  /\ FleetExists
  /\ fleet' = "paused"
  /\ req' = [req EXCEPT ![r] = Working("pausing", member)]
  /\ UNCHANGED <<dev, member, marking, timer>>

Resume(r) ==
  /\ req[r] = Idle
  /\ FleetExists
  /\ fleet' = "active"
  /\ req' = [req EXCEPT ![r] = Working("resuming", member)]
  /\ UNCHANGED <<dev, member, marking, timer>>

\* First save of teardown(): tearing_down (and retired_at, which is only shown).
Teardown(r) ==
  /\ req[r] = Idle
  /\ FleetExists
  /\ fleet' = "tearing_down"
  /\ req' = [req EXCEPT ![r] = Working("retiring", member)]
  /\ UNCHANGED <<dev, member, marking, timer>>

LoopOf == [pausing |-> "pause", resuming |-> "resume", retiring |-> "retire"]

\* Mutant: only the devices that are still pending.
ListPendingDevices(r) ==
  /\ req[r].pc \in DOMAIN LoopOf
  /\ req' = [req EXCEPT ![r] = Working(LoopOf[req[r].pc],
                                      {d \in member : dev[d] = "pending"})]
  /\ UNCHANGED <<fleet, dev, member, marking, timer>>

\* fleet.devices.all(): the devices whose commands the loop will publish.
ListDevices(r) ==
  /\ req[r].pc \in DOMAIN LoopOf
  /\ req' = [req EXCEPT ![r] = Working(LoopOf[req[r].pc], member)]
  /\ UNCHANGED <<fleet, dev, member, marking, timer>>

\* Mutant: teardown returns after the despawns.
TeardownReturns(r) ==
  /\ req[r].pc = "retire"
  /\ req[r].todo = {}
  /\ req' = [req EXCEPT ![r] = Idle]
  /\ UNCHANGED <<fleet, dev, member, marking, timer>>

\* Second save, after the despawns; an error if the row is gone by now.
TeardownEnds(r) ==
  /\ req[r].pc = "retire"
  /\ req[r].todo = {}
  /\ fleet' = IF FleetExists THEN "deleted" ELSE fleet
  /\ req' = [req EXCEPT ![r] = Idle]
  /\ UNCHANGED <<dev, member, marking, timer>>

\* DELETE /fleets/<id>/: the row goes, its devices stay without a fleet.
DestroyFleet(r) ==
  /\ req[r] = Idle
  /\ FleetExists
  /\ fleet' = "gone"
  /\ member' = {}
  /\ UNCHANGED <<dev, req, marking, timer>>

-----------------------------------------------------------------------------
(* PATCH and PUT: get_object, then a save() of every column.               *)

PatchFleetRead(r) ==
  /\ req[r] = Idle
  /\ FleetExists
  /\ req' = [req EXCEPT ![r] = [Idle EXCEPT !.pc = "patchFleet", !.fcopy = fleet]]
  /\ UNCHANGED <<fleet, dev, member, marking, timer>>

\* Overwrites the state; re-inserts a row deleted meanwhile.
PatchFleetSave(r) ==
  /\ req[r].pc = "patchFleet"
  /\ fleet' = req[r].fcopy
  /\ req' = [req EXCEPT ![r] = Idle]
  /\ UNCHANGED <<dev, member, marking, timer>>

\* The client may set the fleet (in), or leave it as it was read.
PatchDeviceRead(r, d, in) ==
  /\ req[r] = Idle
  /\ DeviceExists(d)
  /\ in => FleetExists
  /\ req' = [req EXCEPT ![r] = [Idle EXCEPT !.pc = "patchDevice", !.todo = {d},
                                  !.dcopy = [state |-> dev[d], member |-> in]]]
  /\ UNCHANGED <<fleet, dev, member, marking, timer>>

\* Overwrites state and fleet, re-inserts a removed row; the foreign key
\* refuses a fleet that is gone by now.
PatchDeviceSave(r) ==
  /\ req[r].pc = "patchDevice"
  /\ req' = [req EXCEPT ![r] = Idle]
  /\ LET copy == req[r].dcopy IN
       IF copy.member /\ ~FleetExists THEN UNCHANGED <<dev, member>>
       ELSE /\ dev' = [d \in Device |-> IF d \in req[r].todo THEN copy.state ELSE dev[d]]
            /\ member' = IF copy.member THEN member \cup req[r].todo
                                        ELSE member \ req[r].todo
  /\ UNCHANGED <<fleet, marking, timer>>

-----------------------------------------------------------------------------
(* apps/devices: creation, disconnect, reconnect, deletion, mark-adopted.  *)

\* POST /devices/: the row, in a fleet or not, then a spawn without auto_adopt.
CreateDevice(r, d, in) ==
  /\ req[r] = Idle
  /\ dev[d] = "new"
  /\ in => FleetExists
  /\ dev' = [dev EXCEPT ![d] = "pending"]
  /\ member' = IF in THEN member \cup {d} ELSE member
  /\ req' = [req EXCEPT ![r] = Working("resume", {d})]
  /\ UNCHANGED <<fleet, marking, timer>>

Disconnect(r, d) ==
  /\ req[r] = Idle
  /\ DeviceExists(d)
  /\ dev' = [dev EXCEPT ![d] = "disconnected"]
  /\ req' = [req EXCEPT ![r] = Working("pause", {d})]
  /\ UNCHANGED <<fleet, member, marking, timer>>

Reconnect(r, d) ==
  /\ req[r] = Idle
  /\ DeviceExists(d)
  /\ dev' = [dev EXCEPT ![d] = "pending"]
  /\ req' = [req EXCEPT ![r] = Working("resume", {d})]
  /\ UNCHANGED <<fleet, member, marking, timer>>

\* DELETE /devices/<id>/: the row goes, no command is published.
DestroyDevice(r, d) ==
  /\ req[r] = Idle
  /\ DeviceExists(d)
  /\ dev' = [dev EXCEPT ![d] = "removed"]
  /\ member' = member \ {d}
  /\ UNCHANGED <<fleet, req, marking, timer>>

\* POST mark-adopted: the read and the guard on what it read ...
MarkAdoptedRead(d) ==
  /\ d \notin marking
  /\ marking' = IF DeviceExists(d) /\ dev[d] # "adopted" THEN marking \cup {d}
                ELSE marking
  /\ UNCHANGED <<fleet, dev, member, req, timer>>

\* ... and the save of the state alone; an error if the row is gone by now.
MarkAdoptedSave(d) ==
  /\ d \in marking
  /\ marking' = marking \ {d}
  /\ dev' = IF DeviceExists(d) THEN [dev EXCEPT ![d] = "adopted"] ELSE dev
  /\ UNCHANGED <<fleet, member, req, timer>>

-----------------------------------------------------------------------------
\* publish_worker_command for the next device of a request's loop.  The
\* handlers that publish outside a loop have one device to do.
Publishes == {"ramp", "resume", "pause", "retire"}

\* The devices a request has yet to tell the worker about.
Owed(r) == IF req[r].pc \in Publishes \cup DOMAIN LoopOf THEN req[r].todo ELSE {}

CommandOf(pc, d) ==
  [action |-> IF pc \in {"ramp", "resume"} THEN "spawn" ELSE "despawn",
   dev |-> d, auto |-> pc = "ramp" /\ FleetAutoAdopt]

Publish(r, d) ==
  /\ req[r].pc \in Publishes
  /\ d \in req[r].todo
  /\ req' = [req EXCEPT ![r] = Working(req[r].pc, req[r].todo \ {d})]
  /\ UNCHANGED <<fleet, dev, member, marking, timer>>

\* The web process dies: its handlers stop between two of their steps.
WebCrash ==
  /\ req' = [r \in Req |-> Idle]
  /\ marking' = {}
  /\ UNCHANGED <<fleet, dev, member, timer>>

-----------------------------------------------------------------------------
Uses(op) == op \in Operations

\* Steps of a request that write no wish for the worker.
QuietStep(r) ==
  \/ Uses("create") /\ CreateFleet(r)
  \/ ScheduleTransition(r)
  \/ ListDevices(r) \/ TeardownEnds(r)
  \/ Uses("destroy") /\ DestroyFleet(r)
  \/ Uses("patchFleet") /\ PatchFleetRead(r)
  \/ PatchDeviceSave(r)
  \/ \E d \in Device :
       \/ Uses("destroy") /\ DestroyDevice(r, d)
       \/ Uses("patchDevice") /\ \E in \in BOOLEAN : PatchDeviceRead(r, d, in)

\* Steps after which nobody may be left to end a transient state: something
\* stops half-way, or a stale copy of the fleet row is saved.
Interruption ==
  \/ Uses("lose") /\ TransitionLost
  \/ \E r \in Req :
       \/ (Uses("fail") \/ fleet = "gone") /\ InstantiateFails(r)
       \/ Uses("fail") /\ ScheduleFails(r)
       \/ PatchFleetSave(r)

\* Steps that commit a wish: these devices are to run, or not to run.
WishStep(r, devices, on) ==
  \/ on /\ Instantiate(r, devices)
  \/ on /\ Uses("resume") /\ devices = member /\ Resume(r)
  \/ ~on /\ Uses("pause") /\ devices = member /\ Pause(r)
  \/ ~on /\ Uses("teardown") /\ devices = member /\ Teardown(r)
  \/ /\ Uses("device")
     /\ \E d \in Device :
          /\ devices = {d}
          /\ \/ ~on /\ Disconnect(r, d)
             \/ on /\ Reconnect(r, d)
             \/ on /\ \E in \in BOOLEAN : CreateDevice(r, d, in)

Transition == TransitionRead \/ TransitionWrite

SmoothNext ==
  \/ Transition
  \/ \E r \in Req : QuietStep(r)
  \/ \E r \in Req, devices \in SUBSET Device, on \in BOOLEAN : WishStep(r, devices, on)
  \/ \E r \in Req, d \in Device : Publish(r, d)
  \/ Uses("device") /\ \E d \in Device : MarkAdoptedRead(d) \/ MarkAdoptedSave(d)

SvcNext == SmoothNext \/ Interruption \/ (Uses("webcrash") /\ WebCrash)

\* Celery runs what is due, and a handler that has begun goes on to its end.
Continues(r) ==
  \/ ScheduleTransition(r) \/ ListDevices(r) \/ TeardownEnds(r)
  \/ \E made \in SUBSET Device : Instantiate(r, made)
  \/ \E d \in Device : Publish(r, d)

SvcFairness ==
  /\ WF_svcVars(Transition)
  /\ \A r \in Req : WF_svcVars(Continues(r))

SvcSpec == SvcInit /\ [][SvcNext]_svcVars /\ SvcFairness

-----------------------------------------------------------------------------
\* fleets/tasks.py:25 "if the fleet is already past ramping (e.g. operator
\* paused it or tore it down mid-ramp), we leave it alone": the task never
\* changes a row that is not ramping when it is written.
TransitionLeavesOthersAlone ==
  [][TransitionWrite => fleet = "ramping" \/ fleet' = fleet]_svcVars
=============================================================================
