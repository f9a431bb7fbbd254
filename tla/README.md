# UniFi Virtual Lab: TLA+ models and proofs

The program simulates fleets of UniFi network devices against a real UniFi
controller.  An operator works in a web console; Django keeps the rows and
serves the REST and WebSocket APIs; Celery ends ramps; an asyncio process, the
*engine* (also called the worker), runs one task per virtual device and talks
to the controller.  This directory models the two halves whose correctness
depends on the order of events, the control of the fleets (console requests to
controller) and the console itself (sign-in, live pages, blueprint editor),
checks the models with TLC and proves the most important results with TLAPS.

Paths below are relative to `src/`; `backend/` is left out where it is clear.

## 1. Inventory

| Component | State it keeps | Operations | Interacts by |
|---|---|---|---|
| Engine supervisor (`engine/supervisor.py`, `main.py`, `redis_commands.py`) | `_tasks`, the coroutine of each device task, sleeping `_delayed_spawn` tasks, the command task, `_stop` | boot and startup poll, spawn / despawn / force_inform, auto-adoption with retries, shutdown | reads rows; Redis pub/sub; HTTP to the controller; HTTP callback to Django |
| Fleet service (`apps/fleets/{services,tasks,views}.py`) | `Fleet` row: `state`, `retired_at` | create, pause, resume, teardown, PATCH, DELETE, the delayed transition to active | publishes commands; schedules a Celery task |
| Device API (`apps/devices/views.py`) | `VirtualDevice` row: `state`, `fleet` | create, disconnect, reconnect, force-inform, mark-adopted, PATCH, DELETE | publishes commands; called back by the worker |
| Worker commands (`apps/common/worker_commands.py`) | none: Redis keeps no message | publish after commit, errors swallowed | at most once, to current subscribers |
| Inform session (`engine/inform_session.py`, `device.py`, `state_machine.py`) | session state, key, failure count | connect, adopt, rotate the key, heartbeat | packets to the controller |
| Traffic (`engine/traffic/ticker.py`, `apps/traffic/views.py`) | flow records | a capped tick per active profile; bucketed statistics | database |
| Firmware store (`apps/firmware/*`) | rows and stored objects | upload, fetch, deduplicate, delete | object store, Celery |
| Live events (`apps/*/consumers.py`, `events.py`, `signals.py`) | subscriptions | authenticate, greet, broadcast | Channels groups, WebSocket |
| Console sign-in (`frontend/src/api/client.ts`, `store/auth.ts`, `LoginPage`, `AppShell`) | token pair and user, persisted | request, refresh and retry on 401, sign in, sign out, route guard | HTTP |
| Console channel (`frontend/src/api/ws.ts`) | socket, last 500 messages | connect, reconnect, receive | WebSocket |
| Console pages (`frontend/src/routes/*`, `CommandPalette`) | the query cache of react-query, the mounted page | mount, poll, invalidate, mutate, navigate | endpoints of `client.ts`, channel |
| Blueprint editor (`BlueprintEditorPage`, `BlueprintCanvas`, `lib/blueprintDoc.ts`, `apps/blueprints`) | draft, debounce timer, shown validation; rows with versions | edit in YAML or on the canvas, import, validate, save, clone, delete | REST, query cache |
| Python client (`clients/python/uvl_client`) | token pair | request with refresh, wait loops | HTTP |
| Accounts, controllers, audit, system | rows | CRUD and probes | REST |

What is hard here, and for which property it matters:

* **Two processes, no acknowledgement.**  Django commits rows, then publishes
  commands that Redis may drop; the worker reads the rows only once.  Wanted:
  what Django asked for runs, or a command was provably missed.
* **asyncio interleavings.**  Every `await` of the supervisor is a point where
  another task runs; a command, a delayed spawn, a retry and a shutdown
  interleave.  Wanted: one loop per device, every loop within reach of a
  despawn, and a shutdown that ends.
* **Requests outlive their senders.**  A cancelled task's adopt request is
  still served.  Wanted: Django shows a device as adopted only if the
  controller adopted it.
* **Non-atomic row updates.**  Handlers and the Celery task read, test and save
  without a lock.  Wanted: no fleet stuck in a transient state.
* **Crashes** of the worker and of the web process between any two steps.
* **One refresh token, many calls.**  The backend accepts a refresh token once;
  every call that meets a 401 sends the one in the store, and signing out clears
  what another call has just stored.  Wanted: no call runs twice, expiry
  alone fails no call, and no dead token stays.
* **Caches, polls and lossy events.**  Events are not replayed, invalidations
  meet fetches in flight, sockets and tokens end.  Wanted: an operator sees
  what his own click wrote, and a live page catches up.
* **A draft that outlives its page.**  The editor stays mounted between two
  blueprints, and refetches, validations and file reads arrive late.  Wanted:
  no blueprint is overwritten with another, and what is shown is what is stored.

`PROJECT.json` lists every hazard at its line with the properties that cover
it, or why none does.

## 2. The modules

    WorkerCommands    devices and command envelopes
       |
    Supervisor ---------- INSTANCE AutoAdopt   (what one task's adoption promises)
       |      \
       |       +-- Supervisor_proofs           (TLAPS)
       |       +-- MC_Supervisor
    FleetControl ---- EXTENDS Supervisor, FleetService
       |
    FleetService       Django's side
       +-- MC_FleetService
    FleetControl_proofs EXTENDS FleetControl, MC_FleetService, Supervisor_proofs   (TLAPS)
       +-- FleetWishes_proofs                 (TLAPS)

    Session            sign-in and REST calls of one tab
       +-- Session_proofs                     (TLAPS)
    Channel, Pages     live channel; what each page reads, polls and writes
       |
    Console            the pages over cache, channel and backend
       +-- Console_proofs                     (TLAPS)
       +-- MC_Console
    BlueprintDoc       the canvas's document and graphs, pure operators
       |
    BlueprintEditor    the editor page, its requests and the rows
       +-- BlueprintDoc_proofs                (TLAPS)
       |      +-- BlueprintEditor_proofs      (TLAPS)
       |             +-- BlueprintSaves_proofs  (TLAPS)
       +-- MC_BlueprintEditor                 (two instances)

### Supervisor

Code between two awaits is one action; each await is a value of a program
counter.

| TLA+ | Code |
|---|---|
| `phase` | where `main._run` and `shutdown()` are: `down`, `polling` (in `start()`), `running`, `stopping` (`_stop` is set, the command task is awaited), `cancelling` (a cancelled task of the snapshot is awaited), `disposing` (`dispose()`), `aborted` (`shutdown()` raised) |
| `cmdLoop`, `inbox` | the command task: not yet subscribed, listening, dead; messages received and not yet handled |
| `tasks` | `self._tasks` |
| `run[d][k]` | coroutine of task `k` of device `d`: `context`, `login`, `adopt`, `backoff`, `notify`, `loop`, or `failed`, `done`, `none`; with the attempt number |
| `delayed` | how many `_delayed_spawn` tasks sleep, per device and `auto_adopt` |
| `toCancel` | the part of `shutdown()`'s snapshot that is still to be gone through |
| `adoptNet`, `accepted`, `markNet` | requests in flight and what the controller has done |

`HandleSpawn`, `HandleDespawn` and `HandleForceInform` are the branches of
`_consume_commands`, `DelayedSpawn` is `_delayed_spawn` with
`_spawn_device`, the actions under `TaskStep` are the outcomes of the awaits of
`_run_device`, and `RequestStop`, `CancelTask`, `AwaitRaises`, `ClearTasks`,
`Exit` are `shutdown()` in its order.  Taking the snapshot, going on to its next
task and `clear()` have no await of their own: `ToWalk` is the snapshot when the
walk begins and its rest later, and only the await of a task that was still
running (`CancelTask`) lets others run in between.  A task that comes to its loop
tests `_stop` first (`LoopStart`).  `Crash` may happen in any phase.
Cancelling is one step: no handler of this code swallows `CancelledError`, so a
cancelled task executes nothing more.  Device names, MAC addresses, backoff times and the
messages' JSON are abstracted; a delay is a sleep of any length.

`AutoAdopt` is the abstract promise of one task: at most `MaxTries` attempts,
Django told only after the grant, never stuck.  `Supervisor!Stage` maps the
coroutine to it.

### FleetService

One fleet and its devices, as rows.  A handler is a sequence of database steps:
`req[r]` is what request `r` still has to do, and any other handler runs in
between (`ATOMIC_REQUESTS` is off, every `save()` commits by itself).  `pause`,
`resume` and `teardown` are a save, the query for the fleet's devices, one
`Publish` per device and, for teardown, a second save.  `PATCH` is a read and a
save of all columns.  `transition_fleet_to_active` is its read with the guard
and its write.  `FleetAutoAdopt` is `fleet.auto_adopt`; `Operations` names which
operations the clients use in an instance, so that one module serves several
runs.

### FleetControl

The composition.  A `Publish` either arrives (`Deliver`) or is missed; the
startup poll reads the pending rows; the worker's callback becomes a
mark-adopted handler.  Three ghost variables that no guard reads record what
was asked (`wanted`), which device's last command was missed (`missed`), and
which despawn left a delayed spawn asleep (`outlived`).  A device runs if it has a
live task (`Running`); an entry of `_tasks` is not enough, since a task that
failed leaves its entry behind (`FailedTask`).

### Session

`store` is the persisted store; a token pair is its number.  `call[r]` is where
call `r` of `request()` is: its request travels, an answer travels, its refresh
or the answer to that travels.  `Receive` is everything `request()` does with an
answer, `Renewed` and `Refused` the ends of `refreshAccessToken()`, `Rendered`
the shell that asks for a missing user whenever it renders, `Visit` the
guard of the routes, by a link or the tab's history.  The module follows one page
load: a reload or a closed tab, which aborts the calls in flight and keeps the
store, is not in it.  `LogoutClick`, `LogoutServed`, `LogoutEnds` are
the sign-out button, which clears the store only after its request.
SimpleJWT is external: it accepts an access token until it expires, and rotates
a refresh token once (`ROTATE_REFRESH_TOKENS`, `BLACKLIST_AFTER_ROTATION`).
The history field `shaken` records that something besides expiry
happened to a call: a lost message, another refresh, a sign-out, no sign-in.

### Channel, Pages and Console

`Pages` is the table of all pages: the queries each mounts, those it polls,
those its channel invalidates, and its buttons with the tables the backend
writes, the queries the success handler invalidates and where it goes next.
`Console` moves one operator over that table.  `cache` and `fetch` are the
entries of react-query with its default options: a new observer fetches or
joins the fetch in flight, `invalidateQueries` restarts mounted queries, but not
a first load.  A behaviour follows one table of the backend, chosen by `Init`,
with a version per write; a query shows the version it was answered
with.  `Channel` is `useChannel` and its consumer; of a message only its arrival
matters, because the pages react to the length of the buffer.  `Session`'s
refresh appears as `Renew`, which also reopens the socket.

### BlueprintDoc and BlueprintEditor

A document is the sequence of its devices with host name and uplink; the rest
of the YAML is carried through the canvas unchanged.  Operators
have the names of the functions of `blueprintDoc.ts`; `CanvasGraph` is
`buildGraph`, with `Depth` its guarded walk up the uplinks; `Valid` is the backend's
validator as far as host names and uplinks go.  A name is kept as what the code
can tell of it: the family and number it ends in, a placeholder
`(unnamed-column-row)`, which a device can also be called, a name that every
JavaScript object inherits (`Inherited`: the canvas looks hosts up in a plain
object), a name over the 64 characters of the schema (`TooLong`), or another word.
Numbers are JavaScript's: `Exact` stands for 2^53, and `Double` rounds what is
above.  Left out are numbers above 2^54 and with leading zeros, the name
`__proto__`, and uplinks that are null or no string in the YAML, which are one
value here.  The model takes PyYAML and the `yaml` library of the console to read a
text alike.

In `BlueprintEditor`, `GoTo` is a change of route, with or without a new component,
`Load` and `SetSource` are the effects on `existing.data` and `source`, and `Succeed`
is the success handler of a save, clone or delete, which also runs when its
component is gone.  `IsPending` looks at the requests of the mounted component only,
as `isPending` does, so a new component may save again; Delete is never disabled.
`outrun` is a history variable: the rows whose last read began before a save and was
not restarted when the save was answered.

## 3. What is checked

| Run | Instance | Shows |
|---|---|---|
| `supervisor` | 1 device, 2 task names, 3 attempts, 2 buffered commands, 2 sleeping spawns of each kind | `OneLoopPerDevice`, `LoopsAreRegistered`, `NotifyOnlyAccepted`, and that `SupervisorInv`, the invariant of the proofs, holds in every reachable state; every task implements `AutoAdopt` with its progress; `SpawnIsServed`; `ShutdownEnds` |
| `fleet_service_live` | 1 device, 2 concurrent requests of every kind, failures, lost tasks and crashes included | `TransientHasOwner`, `TransientStatesEnd` |
| `fleet_control` | 1 device, 1 request at a time, 1 attempt; every operation but the PATCH of a fleet (which the worker never sees), lost commands, failed polls, crashes of both processes, lost Celery tasks | `WishesAreServed`, `AdoptedMeansAccepted`, `CommandsFollowRows` |
| `session` | one call of a page besides those of the shell and the form; 7 token pairs; one sign-in, one expiry, one lost message | `RefreshUsable`, `AtMostOnce`, `LoneCallSurvives`, `StaleSessionEnds` |
| `console` | all 16 pages with the palette and every table; a click with a change of page, a click against another actor's write, or that write with a lost socket or event and an expired token; a buffer of 3 messages | `OwnWritesShown`, `FleetPageExpectsNews`, `DashboardCatchesUp`, `FleetPageCatchesUp` |
| `blueprint_editor` | 2 rows, one of them stored at first; 1 edit and 2 saves, clones, deletes, visits or failures; 2 validations in flight; 3 devices | `ValidationCatchesUp`, `CanvasDrawsDoc`, `CanvasColumns`, `CanvasKeepsDocSound` |
| `blueprint_saves` | the same 2 rows; 1 edit of the text or the name and 4 saves, clones, deletes, visits or lost answers; no canvas, no validation | `NoCrossSave`, `EditorShowsStored` |
| `shutdown`, `transition`, `missed`, `teardown`, `live` | the smallest instance that shows it; two devices for `shutdown` | a statement of the repository the code does not keep, see section 4 |

**Bounds.**  `InboxBound` and `DelayBound` cap the commands buffered and the
spawns asleep; commands that interfere do so pairwise (a despawn overtaking a
sleeping spawn, two spawns of one device with and without `auto_adopt`), and
both fit.  `TaskId` names the task objects of a device that exist at once; two
are needed to see a second loop appear, and `OneLoopPerDevice` would be violated
if a third were needed.  `MaxAttempts` 3 exercises first, middle and last
attempt; `FleetControl` uses 1 because retries do not touch Django.  One device is
enough for what these runs check, since commands, spawns and tasks of a device read
and write nothing of another's; only the walk of `shutdown()` goes over several, which
the run `shutdown` has, and the safety properties are proved for any number.
Everything in the composition is per device except a request's loop over `member`,
whose order over several devices is left open.  With several requests at a time
`WishesAreServed` is not what the code promises: the commands of two overlapping handlers reach
Redis in an order that has nothing to do with the order of their saves, so the
property is checked with requests one after the other.

`Session` has three calls that may overlap (page, shell, form); a refresh
conflict needs two, and a third call shows that the loser's clearing meets a
call that has already been retried.  The sign-out button starts one request at a
time, and the shell asks for one user at a time.  `MaxPairs` 7 lets every call
of a behaviour refresh after the sign-in.  In `Console`
each scenario is the smallest in which two causes meet; 3 messages are the
greetings of two sockets and one event, and `Live.cfg` fills a buffer of 2.
What the editor does to the canvas and to requests is split over two runs.  The
four operations of `blueprint_saves` are two saves with the visits that bring the
operator from one component to another and back, or a save, a clone and a delete
that overlap a visit; two rows show both blueprints.  The texts of
`blueprint_editor` include unnamed devices, one called like the placeholder of another, a
device uplinked to itself, an uplink to an inherited name, and text that is
not YAML; renames include an inherited name and one that is too long; numbers are
exact up to 4, so that a text has a device at the limit.

**Fairness.**  The event loop runs every ready task, every await ends (httpx
has a timeout of 10 s, sleeps are finite) and supervisord restarts the engine
(`infra/supervisord/local.conf`, `autorestart`): hence weak fairness of
`Boot`, the poll, subscribing, command handling, delayed spawns, each device task and
the steps of `shutdown()`.  Django's handlers and a scheduled Celery task are
weakly fair.  Crashes, signals, lost connections, lost messages, client
requests, the second half of a PATCH and the controller's answers are never
forced.  In the console the browser delivers what the network carries, timers and
polls fire and the backend answers: weak fairness of each step of a call
(`CallStep`), of the polls and calls of a page, of each query (`Fetched`) and of
`Served`, the steps that can only happen finitely often.  The operator, other
writers, losses and expiry are never forced.  `TransientStatesEnd` therefore excuses a behaviour in which a handler
or the Celery task stopped half-way, or a PATCH saved a stale fleet row: after
that a fleet can stay in creating, ramping or tearing_down, since no other code
ends those states.  `MC_FleetService` keeps that as a history variable.

**Deadlock** is checked except in `fleet_service_live`, where nothing is left to
do once the only fleet is deleted, and in `blueprint_editor`, `blueprint_saves`,
`console` and `live`, where a page rests once the operator is done and nothing is in flight.

Each property of a passing run has a mutant, an operator commented "Mutant:"
next to the definition it changes, with which TLC finds the property violated.

## 4. Where the code and its documents disagree

* `fleets/tasks.py:25`: the transition leaves a paused fleet alone.  It reads,
  tests and writes without a lock, so a pause in between is lost (`transition`).
* `common/worker_commands.py:43`: the supervisor polls on a tick.  It polls once,
  and before it subscribes; a command published in between is never made up
  for (`missed`).
* `fleets/services.py:147`: teardown despawns all devices.  A spawn still asleep
  is not reached by its despawn and starts the device afterwards (`teardown`).
* `engine/supervisor.py:12`: shutdown cancels every running device task.  Nobody
  cancels the sleeping spawns: one that wakes while shutdown awaits a task it has
  cancelled (lines 103-104) registers a task of another device, which is not in the
  snapshot and which `clear()` drops (line 105); `asyncio.run` ends it (`shutdown`).
* `FleetDetailPage.tsx:57`: whenever a new event arrives the queries are
  invalidated, so the page stays fresh without polling.  The effect watches the
  number of buffered messages, which stays at 500 once the buffer is full (`live`).

Seen while modelling and not contradicted by any document: a device task that failed
keeps its entry in `_tasks`, so later spawns are ignored, and makes `shutdown()`
raise (`ShutdownEnds` holds all the same); after one Redis error the worker is deaf
until it is restarted; the rows of a paused fleet's pending devices are spawned again by a
restart; resume revives a fleet that was torn down.

In the session: the loser of two concurrent refreshes clears the pair
the winner has stored; a refresh that ends after a sign-out stores tokens again; a
cleared store redirects only at the next navigation.  In the console: a
mutation that navigates pulls the operator away from the page he has gone to
meanwhile; a query of the next page that is already in flight is joined and may
show the list as it was; deletions and writes of devices outside a fleet publish
no event; a fleet page without polls whose socket was refused for an expired
token stays dead until some call refreshes it.  In the editor: renaming a
device that is uplinked to itself leaves the uplink behind; a rename may make a name of
more than 64 characters, which the backend refuses; from 2^53 on a drop repeats a name;
an uplink to a name like `constructor` is drawn from a node that is not there; a device
called like the placeholder of an unnamed one shares its node; the canvas shows
text that is not YAML as an empty document and overwrites it with
the next edit; a device called `__root__` shares the node of the root; deleting with the key, or renaming, an unnamed device hits all of
them; a device dropped on an unnamed node gets an uplink to no device;
validations may arrive out of order; a refetch after a save
discards what was typed meanwhile; a read that began before a save and was not
restarted (the operator had left, or the page had not loaded yet) shows the older row; an import asks about the draft of the moment the
file was picked; once a blueprint was renamed or deleted, a draft loaded from it under
the old name can be saved over the next blueprint before that has loaded.  These are behaviours of the models; a property that one of them would break
excuses it by name.

## 5. What is proved

`Supervisor_proofs` proves, for every set of devices and task names and every
`MaxAttempts`, `InboxBound` and `DelayBound`:

* `InvHolds`: `Spec => []SupervisorInv`.  `LoopsAreRegistered` alone is not
  inductive: a boot must start from an empty process (`BootClean`), a despawn must not
  run while the process boots or stops (`CommandsOnlyWhileRunning`), the
  cancellation loop must find what it cancels (`CancelsRegistered`), and an entry of a
  running process is a task that runs or that failed (`EntriesHaveTasks`).
  `AttemptsInRange` ties attempt numbers to program counters, which gives the type of
  `run` after a backoff.  One lemma per group of actions; all steps of a device
  task go through `GotoKeepsInv`.
* `TypeCorrect`, `AtMostOneLoop`, `NoUnregisteredLoop`, `NotifySound`: the
  safety properties of the run `supervisor`, from the invariant.
* `AdoptionIsSafe`: for every device and task, `Spec => Adoption(d, k)!Safety`:
  the supervisor implements the safety part of `AutoAdopt` (`AdoptionInit`,
  `AdoptionStep`).

`FleetControl_proofs` proves, for every set of devices, requests and operations:

* `ControlInvHolds`: `ControlInv` is inductive.  It is `SupervisorInv`, the
  types of Django's side, `RowsCommitted` (a request only acts on rows that are
  committed), `ClaimsAreAccepted` (a row, a stale copy of one or a callback in
  flight says "adopted" only of an accepted device) and `CommandsFollowRows`.  Every step of the composition is
  a step of the supervisor or leaves its variables alone, so the lemmas of
  `Supervisor_proofs` carry over; what remains is that no handler un-commits a
  row or makes up an adoption, and that `accepted` only grows.
* `ControlTypeCorrect`, `AdoptedRowsAreTrue`, `CommandsOnlyForRows` follow.
* `NobodyLeavesTransients`: `TransientHasOwner`, the safety half of
  `TransientStatesEnd`, of the fleet service alone (`MC_FleetService`) and for any number of
  overlapping requests: a fleet in creating, ramping or tearing_down has a request at
  the right place or a scheduled task.  It is inductive with the types; each handler either
  hands the state on or ends it (`OwnersStay`).

`Session_proofs` proves, for every set of page calls and all bounds:

* `SessionInvHolds`: `SessionInv` is inductive.  `RefreshUsable` and
  `LoneCallSurvives` need four strengthenings: `KnownAreIssued` (no refresh token
  of the tab is newer than the pairs issued), `GrantsAreFresh` (a pair on its
  way is held by one call only, is not in the store and its refresh
  token is not spent), `UnshakenAreUndisturbed` (a call that nothing has happened to
  is the only one that refreshes, and nobody signs out), and
  `RanWhenAnswered` (a call whose request travels has not run).
* `SessionTypeCorrect`, `StoredRefreshIsUsable`, `NoCallRunsTwice` and
  `ExpiryIsSurvived` follow.  All of them are about one page load: a reload during a
  refresh leaves a spent token in the store.

`FleetWishes_proofs` proves, for every set of devices and operations and every
bound:

* `WishesAreServedOneAtATime`: `WishesAreServed`: a device that is wanted has a live
  task, one that is not has none and no entry, with three exceptions.  Its last command
  was missed; its task failed and its entry keeps spawns away; its despawn met a
  sleeping spawn.  The condition is that at most one request is under way
  (`OneRequest`, a condition on the constant `Req`).  Without it the statement is false:
  the commands of two overlapping handlers may reach Redis in another order
  than their saves reach the row.  The property looks at a worker with nothing
  left to read; the invariant `WishInv` says it for every moment.  `HandlersWish`: what a request still
  has to publish is what its row already says.  `LastWordIsWanted`: the last command in
  the inbox that decides about a device agrees with the rows.  `LoopIsWanted`: with no
  such command there, the loops and the sleeping spawns do; `EntriesHaveTasks` turns
  the entry of a wanted device into a live or a failed task.  A device whose request
  is not done or whose command was missed is excused.

`Console_proofs` proves, for every table, page, budget and buffer size:

* `ConsoleInvHolds`: `ConsoleInv` is inductive.  `OwnWritesShown` speaks of
  queries at rest and forgets the answers in flight; `DebtsPaid` adds that an answer
  on its way to a query that the operator's click made stale is at least as new as
  the click's write, for every query and not only those of the page.  `ClicksOK` bounds what a click
  knows and ties its button to its page.  That each of the buttons invalidates, or
  leaves for a page that reads, whatever shows its write is one lemma over the table of
  pages (`ButtonsClear`).
* `ConsoleTypeCorrect` and `OwnWritesAreShown` follow.
* `FleetPageIsNeverForgotten`: `FleetPageExpectsNews`, the safety half of
  `FleetPageCatchesUp`: a fleet page that shows an old version asks for the new one or has a
  message, a greeting or a publication still to come.  Inductive with it (`NewsInv`):
  a socket is refused only for its token, which the next renewal replaces (`SockOK`), and no
  answer on its way is older than what the query shows (`AnswersNewer`).

`BlueprintDoc_proofs` proves about the canvas, for documents of any length:

* `NextHostnameIsNew`: the name made up for a dropped device is not too long and in no device of
  the document, as long as the family has no number of 2^53 (`Exact`) or more there.  That
  the numbers in use have a greatest one follows from the
  well-foundedness of the naturals (`LeastExists`, `BoundExists`).
* `CanvasKeepsSound`: dropping, renaming, connecting and both kinds of deletion keep a
  document sound, but for three cases in which the code does not: a rename to
  a name that is too long, a drop when the family has come to 2^53
  (`Countable`), and a device uplinked to itself.  Removal is stated by the positions
  that remain (`Nth`), so that it needs no recursion (`NthIsThere`, `KeptDevices`).
* `CanvasDrawsEveryDevice`: edges join drawn nodes, unless they start at a name that
  every object inherits; and with unique names, none of them the root's or the
  placeholder of an unnamed device, each device has a
  node of its own.  Two devices of one column differ in their row
  (`PlacesAreApart`), whatever column the walk up the uplinks gives them.
* `ColumnsAreBounded`: the walk ends, in documents with cycles too.  Each step of it has
  one name less to go to (`ClimbingShortens`), so a recursive function gives every device a
  depth (`WalkExists`); what it gives is found by the least-element principle,
  used with a set in place of the predicate of the library's induction theorem
  (`WalkInduction`).

`BlueprintEditor_proofs` and `BlueprintSaves_proofs` prove about the editor, for
any ids, texts, names and bounds:

* `EditorTypeCorrect`: types.  The texts and names of a behaviour are open, for
  the canvas makes new texts and the backend new names; `EditorTyped` says
  that there are sets of well-formed texts and of names that type every variable, and a step may
  enlarge them (`MoreTyped`).  Uplinks stay untyped: a device can be uplinked to the node of an
  unnamed one.
* `ColumnsFollowUplinks`: `CanvasColumns`.  With unique names a device that is not its
  own ancestor never meets itself on the walk of its uplink, so both walks agree from
  there on (`WalkIgnores`).
* `CanvasKeepsDocValid` and `CanvasAlwaysDraws`: the theorems about the canvas hold, with the
  same exceptions, of the draft in every reachable state.
* `ValidationIsAboutTheText`: `ValidationCatchesUp`.  With requests in flight,
  `ValidationInv` says that those overtaken are the oldest ones, and that the youngest, if
  it was not overtaken, is about the text; otherwise the shown validation is, unless it came late.
* `SavesStayApart`: `NoCrossSave`, from `NamesInv`.  A draft whose name was not edited, a cached
  row, a row on its way and a request in flight all carry the name their
  blueprint still has, unless that is gone or was renamed; names are
  unique, so the backend refuses a save under another one's.
* `StoredIsShown`: `EditorShowsStored`, from `StoredInv`.  A read on its way has the row as
  it is stored, or a save of that row has its answer on the way, or that answer came
  and did not restart the read (`ReadsFresh`); a page at
  rest shows the one or waits for the other (`PageFresh`).  So the only row excused is one
  in `outrun`, until it is read again; what is saved, cloned or deleted while the
  operator is elsewhere is not excused.  `StoredInv`
  needs `NamesInv` for one step: a new row never appears under an id that a page or a query already has.
  A request carries as its number how many operations were left when it was sent;
  `BudgetHolds` gives that number its type.

The assumptions are `TaskIdAssumption`, `MaxAttemptsAssumption` and
`BoundAssumption` of `Supervisor`, `OperationsAssumption` and
`AutoAdoptAssumption` of `FleetService`, `PairsAssumption` of `Session`,
`BufferAssumption` of `Channel`; of `BlueprintDoc` `WordsAssumption` (kinds of names do not
overlap) and `ExactAssumption` (`Exact` is a positive multiple of 4, as 2^53 is); and of `BlueprintEditor`
`HostNamesAssumption` (names typed on the canvas are host names), `IdsAssumption` (ids are positive; the first row
exists), `BoundsAssumption` (bounds are naturals) and `TextsAssumption` (what is loaded, typed or imported has a list of devices).
TLC evaluates each in the runs that extend its module.  Fairness is not used.

Model-checked only: all liveness (`SpawnIsServed`, `ShutdownEnds`, `TransientStatesEnd`,
`StaleSessionEnds`, `DashboardCatchesUp`, `FleetPageCatchesUp`, the progress half of
`AutoAdopt`), which the prover cannot do.  Of `TransientStatesEnd` and
`FleetPageCatchesUp` the safety half is proved, and what is left to TLC is that the owner,
or the news, comes to its turn under the fairness assumed.  Every invariant and action
property of the passing runs is proved.

## 6. Not modelled

* The inform session (`engine/inform_session.py`, `device.py`,
  `state_machine.py`): only `engine/scripts/solo_device.py` runs it; the loop the supervisor
  runs for a device does not.  Packet bytes and AES are data.
* The device inform channel and `since_seq`: nothing publishes to `device.<id>`
  and nothing creates `InformExchange` rows.
* The traffic tick: it draws random rows no other component depends on; the
  supervisor's traffic task is left out with it.
* Objects and digests of the firmware store; the S3 backend is a placeholder and the
  ingestion task a stub.
* Ramp arithmetic and Celery's eager mode: a delay is any length, so the
  properties hold for each schedule.  Names, serial numbers and MAC addresses appear as
  the possibility that an instantiation fails; rows other than one fleet's are
  left out.
* The Python client: one sequential caller whose waits end in the timeout they
  document.
* A reload or a closed tab.  It aborts the calls in flight and keeps the store; during
  a refresh that leaves a spent refresh token there, with nothing on its way to replace
  it, until the next call fails.
* Of the console: the fields of forms (the create-fleet form takes its
  blueprint from whatever the list holds when it mounts), garbage collection and
  refetch on focus of react-query, failed reads and their retries, two rows
  of one kind, `bufferSize` 1, drag positions and rendering.
* Of blueprints: ports, VLANs and the rules of the schema besides unique, non-empty
  names of at most 64 characters and uplinks that exist; family numbers above 2^54 or
  with leading zeros; the name `__proto__`; differences between the two YAML parsers; and
  other operators who write blueprints.
* Accounts, controllers, audit and system status beyond what the console reads and
  writes; deployment beyond autorestart and the absence of `ATOMIC_REQUESTS`.
