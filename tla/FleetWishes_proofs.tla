------------------------- MODULE FleetWishes_proofs --------------------------
(***************************************************************************)
(* A proof about FleetControl when the operator's requests do not overlap  *)
(* (with overlapping ones Redis may see their commands in another order    *)
(* than the rows): whatever Django, Redis, the worker and their crashes    *)
(* do, the tasks that run are those the last committed operation wants,    *)
(* for every set of devices and every bound, with the three exceptions of  *)
(* WishesAreServed: missed commands, failed tasks, outliving spawns.       *)
(***************************************************************************)
EXTENDS FleetControl_proofs

\* At most one operator request is under way.
OneRequest == \A q, r \in Req : q = r

\* Places of the inbox that hold a command deciding about d, and the last one.
Decides(d, i) == inbox[i].dev = d /\ inbox[i].action # "force_inform"
Pending(d) == \E i \in 1 .. Len(inbox) : Decides(d, i)
LastWord(d, i) ==
  Decides(d, i) /\ \A j \in 1 .. Len(inbox) : j > i => ~Decides(d, j)

\* A request has yet to tell the worker about d.
Owes(d) == \E r \in Req : d \in Owed(r)
Spawning == {"ramp", "resume", "resuming"}

\* What is listed again just before the loop is what was wished for.
ListsMembers == \A r \in Req : req[r].pc \in DOMAIN LoopOf => req[r].todo = member
\* A request still owes what it has made the rows say.
OwedIsWanted ==
  \A r \in Req : \A d \in Owed(r) : req[r].pc \in Spawning <=> d \in wanted
OnlyListenersHaveMail == cmdLoop # "listening" => inbox = << >>
\* The last command on its way to the worker agrees with the rows ...
LastWordIsWanted(d) ==
  \A i \in 1 .. Len(inbox) :
    LastWord(d, i) => (inbox[i].action = "spawn" <=> d \in wanted)
\* ... and with none on its way, so do the entries of _tasks and the sleeping
\* spawns.  (What an entry stands for is EntriesHaveTasks' part.)
LoopIsWanted(d) ==
  phase = "running" /\ ~Pending(d) =>
    /\ d \in wanted => tasks[d] # NoTask \/ \E auto \in BOOLEAN : delayed[d][auto] > 0
    /\ d \notin wanted /\ d \notin outlived =>
         tasks[d] = NoTask /\ \A auto \in BOOLEAN : delayed[d][auto] = 0

HandlersWish == ListsMembers /\ OwedIsWanted
WorkerServes ==
  \A d \in Device \ missed : ~Owes(d) => LastWordIsWanted(d) /\ LoopIsWanted(d)
WishInv == HandlersWish /\ OnlyListenersHaveMail /\ WorkerServes

-----------------------------------------------------------------------------
(* Django's half.                                                          *)

\* A request at work owes what it is given (services.py 131, 140, 151).
LEMMA WorkingOwes ==
  ASSUME NEW pc \in ReqPC, NEW todo \in SUBSET Device
  PROVE  /\ Working(pc, todo).todo = todo
         /\ Working(pc, todo).pc = pc \/ (todo = {} /\ Working(pc, todo).pc = "idle")
<1>1. CASE todo = {} /\ pc \in {"resume", "pause"}
  BY <1>1, IdleOK DEF Working
<1>2. CASE ~(todo = {} /\ pc \in {"resume", "pause"})
  BY <1>2, IdleOK DEF Working, Idle
<1> QED
  BY <1>1, <1>2

\* What a step of Django that commits no wish does to what is owed: nothing.
SameDebts ==
  /\ HandlersWish'
  /\ \A d \in Device : Owes(d)' <=> Owes(d)

\* The only request goes from one program counter to another, owing the same.
LEMMA DebtsKept ==
  ASSUME OneRequest, SvcTypeOK, HandlersWish, wanted' = wanted,
         NEW r \in Req, NEW next, req' = [req EXCEPT ![r] = next],
         next.pc \notin DOMAIN LoopOf,
         (IF next.pc \in Publishes THEN next.todo ELSE {}) = Owed(r),
         \A d \in Owed(r) : next.pc \in Spawning <=> req[r].pc \in Spawning
  PROVE  SameDebts
<1>1. req'[r] = next /\ \A q \in Req : q = r
  BY DEF SvcTypeOK, OneRequest
<1>2. Owed(r)' = Owed(r)
  BY <1>1 DEF Owed
<1>3. ListsMembers'
  BY <1>1 DEF ListsMembers
<1>4. OwedIsWanted'
  BY <1>1, <1>2 DEF OwedIsWanted, HandlersWish
<1> QED
  BY <1>1, <1>2, <1>3, <1>4 DEF SameDebts, HandlersWish, Owes

\* The request that ends, or goes on to something else, owed nothing.
LEMMA NothingOwed ==
  ASSUME OneRequest, SvcTypeOK, HandlersWish, wanted' = wanted,
         NEW r \in Req, NEW next, req' = [req EXCEPT ![r] = next],
         next.pc \notin DOMAIN LoopOf, next.pc \in Publishes => next.todo = {},
         req[r].pc \in Publishes \cup DOMAIN LoopOf => req[r].todo = {}
  PROVE  SameDebts
<1>1. Owed(r) = {}
  BY DEF Owed
<1> QED
  BY <1>1, DebtsKept

\* Steps that leave the requests alone, and the fleet while one is about to list it.
LEMMA RequestsKept ==
  ASSUME HandlersWish, UNCHANGED <<wanted, req>>,
         member' = member \/ \A r \in Req : req[r].pc \notin DOMAIN LoopOf
  PROVE  SameDebts
<1>1. \A r \in Req : Owed(r)' = Owed(r)
  BY DEF Owed
<1> QED
  BY <1>1 DEF SameDebts, HandlersWish, Owes, ListsMembers, OwedIsWanted

\* The steps of a handler that commit no wish (services.py 38-157, views.py 13-116).
LEMMA QuietOwes ==
  ASSUME OneRequest, SvcTypeOK, HandlersWish, wanted' = wanted, NEW r \in Req, QuietStep(r)
  PROVE  SameDebts
<1> USE DEF LoopOf, Publishes
<1>0. Idle.pc = "idle" /\ Idle.todo = {} /\ \A q \in Req : q = r
  BY IdleOK DEF OneRequest
<1>1. CASE CreateFleet(r)
  <2>1. "instantiate" \in ReqPC /\ {} \in SUBSET Device
    BY DEF ReqPC
  <2>2. Working("instantiate", {}).pc \in {"instantiate", "idle"}
    BY <2>1, WorkingOwes
  <2> QED
    BY <1>0, <1>1, <2>2, NothingOwed DEF CreateFleet
<1>2. CASE ScheduleTransition(r) \/ TeardownEnds(r)
  BY <1>0, <1>2, NothingOwed DEF ScheduleTransition, TeardownEnds
<1>3. CASE ListDevices(r)
  <2> DEFINE next == Working(LoopOf[req[r].pc], member)
  <2>1. req[r].pc \in DOMAIN LoopOf /\ req' = [req EXCEPT ![r] = next]
    BY <1>3 DEF ListDevices
  <2>2. /\ LoopOf[req[r].pc] \in Publishes
        /\ LoopOf[req[r].pc] \in Spawning <=> req[r].pc \in Spawning
    BY <2>1 DEF Spawning
  <2>3. LoopOf[req[r].pc] \in ReqPC /\ member \in SUBSET Device
    BY <2>2 DEF ReqPC, SvcTypeOK
  <2>4. /\ next.todo = member
        /\ next.pc = LoopOf[req[r].pc] \/ (member = {} /\ next.pc = "idle")
    BY <2>3, WorkingOwes
  <2>5. Owed(r) = member
    BY <2>1 DEF Owed, HandlersWish, ListsMembers
  <2> HIDE DEF next
  <2>6. /\ next.pc \notin DOMAIN LoopOf
        /\ (IF next.pc \in Publishes THEN next.todo ELSE {}) = Owed(r)
        /\ \A d \in Owed(r) : next.pc \in Spawning <=> req[r].pc \in Spawning
    BY <2>2, <2>4, <2>5
  <2> QED
    BY <2>1, <2>6, DebtsKept
<1>4. CASE DestroyFleet(r) \/ \E d \in Device : DestroyDevice(r, d)
  BY <1>0, <1>4, RequestsKept DEF DestroyFleet, DestroyDevice
<1>5. CASE PatchFleetRead(r)
  <2> DEFINE next == [Idle EXCEPT !.pc = "patchFleet", !.fcopy = fleet]
  <2>1. next.pc = "patchFleet" /\ req[r] = Idle /\ req' = [req EXCEPT ![r] = next]
    BY <1>5 DEF Idle, PatchFleetRead
  <2> HIDE DEF next
  <2> QED
    BY <1>0, <2>1, NothingOwed
<1>6. CASE PatchDeviceSave(r)
  BY <1>0, <1>6, NothingOwed DEF PatchDeviceSave
<1>7. ASSUME NEW d \in Device, NEW in \in BOOLEAN, PatchDeviceRead(r, d, in)
      PROVE SameDebts
  <2> DEFINE next == [Idle EXCEPT !.pc = "patchDevice", !.todo = {d},
                        !.dcopy = [state |-> dev[d], member |-> in]]
  <2>1. next.pc = "patchDevice" /\ req[r] = Idle /\ req' = [req EXCEPT ![r] = next]
    BY <1>7 DEF Idle, PatchDeviceRead
  <2> HIDE DEF next
  <2> QED
    BY <1>0, <2>1, NothingOwed
<1> QED
  BY <1>1, <1>2, <1>3, <1>4, <1>5, <1>6, <1>7 DEF QuietStep

\* Interrupted handlers, the end of the ramp and the callbacks (services.py
\* 57-88, tasks.py 21-47, devices/views.py 92-116).
LEMMA OthersOwe ==
  ASSUME OneRequest, SvcTypeOK, HandlersWish, wanted' = wanted,
         \/ Interruption \/ Transition
         \/ \E d \in Device : MarkAdoptedSave(d) \/ MarkAdoptedRead(d)
  PROVE  SameDebts
<1>1. CASE \E r \in Req : InstantiateFails(r) \/ ScheduleFails(r) \/ PatchFleetSave(r)
  BY <1>1, IdleOK, NothingOwed DEF InstantiateFails, ScheduleFails, PatchFleetSave, LoopOf,
     Publishes
<1>2. CASE ~ \E r \in Req : InstantiateFails(r) \/ ScheduleFails(r) \/ PatchFleetSave(r)
  BY <1>2, RequestsKept DEF Interruption, Transition, TransitionRead, TransitionWrite,
     TransitionLost, MarkAdoptedSave, MarkAdoptedRead
<1> QED
  BY <1>1, <1>2

\* A commit makes the wish and owes exactly its devices (services.py 47-157).
LEMMA WishOwes ==
  ASSUME OneRequest, SvcTypeOK, HandlersWish, NEW r \in Req, WishCommitted(r)
  PROVE  /\ HandlersWish'
         /\ \A d \in Device : ~Owes(d)' => ~Owes(d) /\ (d \in wanted' <=> d \in wanted)
<1>0. PICK devices \in SUBSET Device, on \in BOOLEAN :
        /\ WishStep(r, devices, on)
        /\ wanted' = IF on THEN wanted \cup devices ELSE wanted \ devices
  BY DEF WishCommitted
<1> DEFINE Result(pc) ==
      /\ req' = [req EXCEPT ![r] = Working(pc, devices)]
      /\ pc \in {"ramp", "resuming", "resume", "pausing", "retiring", "pause"}
      /\ on <=> pc \in Spawning
      /\ pc \in DOMAIN LoopOf => devices = member'
<1>1. \E pc \in ReqPC : Result(pc)
  <2>1. CASE on /\ Instantiate(r, devices)
    <3>1. Result("ramp")
      BY <2>1 DEF Instantiate, Spawning, LoopOf
    <3> QED
      BY <3>1 DEF ReqPC
  <2>2. CASE on /\ devices = member /\ Resume(r)
    <3>1. Result("resuming")
      BY <2>2 DEF Resume, Spawning, LoopOf
    <3> QED
      BY <3>1 DEF ReqPC
  <2>3. CASE ~on /\ devices = member /\ Pause(r)
    <3>1. Result("pausing")
      BY <2>3 DEF Pause, Spawning, LoopOf
    <3> QED
      BY <3>1 DEF ReqPC
  <2>4. CASE ~on /\ devices = member /\ Teardown(r)
    <3>1. Result("retiring")
      BY <2>4 DEF Teardown, Spawning, LoopOf
    <3> QED
      BY <3>1 DEF ReqPC
  <2>5. ASSUME NEW d \in Device, devices = {d}, ~on, Disconnect(r, d) PROVE Result("pause")
    BY <2>5 DEF Disconnect, Spawning, LoopOf
  <2>6. ASSUME NEW d \in Device, devices = {d}, on,
               Reconnect(r, d) \/ \E in \in BOOLEAN : CreateDevice(r, d, in)
        PROVE Result("resume")
    BY <2>6 DEF Reconnect, CreateDevice, Spawning, LoopOf
  <2>7. "pause" \in ReqPC /\ "resume" \in ReqPC
    BY DEF ReqPC
  <2> HIDE DEF Result
  <2> QED
    BY <1>0, <2>1, <2>2, <2>3, <2>4, <2>5, <2>6, <2>7 DEF WishStep
<1>2. PICK pc \in ReqPC : Result(pc)
  BY <1>1
<1> DEFINE next == Working(pc, devices)
<1>3. /\ next.todo = devices
      /\ next.pc = pc \/ (devices = {} /\ next.pc = "idle")
  BY WorkingOwes
<1> HIDE DEF next
<1>4. req' = [req EXCEPT ![r] = next]
  BY <1>2 DEF next
<1>5. req'[r] = next /\ \A q \in Req : q = r
  BY <1>4 DEF SvcTypeOK, OneRequest
<1>6. Owed(r)' = devices
  BY <1>2, <1>3, <1>5 DEF Owed, Publishes, LoopOf
<1>7. Owed(r) = {}
  <2>1. req[r] = Idle \/ req[r].pc = "instantiate"
    BY <1>0 DEF WishStep, Instantiate, Resume, Pause, Teardown, Disconnect, Reconnect, CreateDevice
  <2> QED
    BY <2>1, IdleOK DEF Owed, Publishes, LoopOf
<1>8. ListsMembers'
  BY <1>2, <1>3, <1>5 DEF ListsMembers, LoopOf
<1>9. OwedIsWanted'
  <2>1. \A d \in devices : next.pc \in Spawning <=> d \in wanted'
    BY <1>0, <1>2, <1>3
  <2> QED
    BY <1>5, <1>6, <2>1 DEF OwedIsWanted
<1>10. ASSUME NEW d \in Device, ~Owes(d)' PROVE ~Owes(d) /\ (d \in wanted' <=> d \in wanted)
  BY <1>0, <1>5, <1>6, <1>7, <1>10 DEF Owes
<1> QED
  BY <1>8, <1>9, <1>10 DEF HandlersWish

\* A published command no longer is owed, and says what the rows say
\* (worker_commands.py 48-57).
LEMMA PublishOwes ==
  ASSUME OneRequest, SvcTypeOK, HandlersWish, wanted' = wanted,
         NEW r \in Req, NEW d \in Device, Publish(r, d)
  PROVE  /\ HandlersWish'
         /\ \A e \in Device \ {d} : Owes(e)' <=> Owes(e)
         /\ CommandOf(req[r].pc, d).action = "spawn" <=> d \in wanted
         /\ CommandOf(req[r].pc, d).action # "force_inform"
<1> DEFINE pc == req[r].pc  todo == req[r].todo  next == Working(pc, todo \ {d})
<1>1. /\ pc \in Publishes /\ d \in todo /\ req' = [req EXCEPT ![r] = next]
      /\ member' = member /\ req[r] \in Request
  BY DEF Publish, SvcTypeOK
<1>2. pc \in ReqPC /\ todo \ {d} \in SUBSET Device
  BY <1>1 DEF Request
<1>3. /\ next.todo = todo \ {d}
      /\ next.pc = pc \/ (todo \ {d} = {} /\ next.pc = "idle")
  BY <1>2, WorkingOwes
<1>4. Owed(r) = todo
  BY <1>1 DEF Owed
<1> HIDE DEF next
<1>5. req'[r] = next /\ \A q \in Req : q = r
  BY <1>1 DEF SvcTypeOK, OneRequest
<1>6. Owed(r)' = todo \ {d}
  BY <1>1, <1>3, <1>5 DEF Owed, Publishes, LoopOf
<1>7. ListsMembers'
  BY <1>1, <1>3, <1>5 DEF ListsMembers, Publishes, LoopOf
<1>8. \A e \in todo : pc \in Spawning <=> e \in wanted
  BY <1>4 DEF HandlersWish, OwedIsWanted
<1>9. OwedIsWanted'
  BY <1>3, <1>5, <1>6, <1>8 DEF OwedIsWanted
<1>10. \A e \in Device \ {d} : Owes(e)' <=> Owes(e)
  BY <1>4, <1>5, <1>6 DEF Owes
<1>11. CommandOf(pc, d).action = "spawn" <=> d \in wanted
  BY <1>1, <1>8 DEF CommandOf, Spawning, Publishes
<1> QED
  BY <1>7, <1>9, <1>10, <1>11 DEF HandlersWish, CommandOf

-----------------------------------------------------------------------------
(* The worker's half.                                                      *)

\* Steps that hand the worker nothing and change none of its loops.
LEMMA ServesKept ==
  ASSUME WorkerServes, UNCHANGED <<inbox, tasks, delayed, outlived>>,
         phase' = "running" => phase = "running",
         \A d \in Device : d \notin missed' /\ ~Owes(d)' =>
           d \notin missed /\ ~Owes(d) /\ (d \in wanted' <=> d \in wanted)
  PROVE  WorkerServes'
  BY DEF WorkerServes, LastWordIsWanted, LoopIsWanted, LastWord, Pending, Decides

\* A worker that stops, or is gone, has no mail and promises nothing.
LEMMA ServesNothing ==
  ASSUME phase' # "running", inbox' = << >>
  PROVE  WorkerServes'
  BY DEF WorkerServes, LastWordIsWanted, LoopIsWanted

\* A command is appended to the inbox (redis_commands.py 40-55).
LEMMA DeliveredLast ==
  ASSUME TypeOK, NEW c \in Command, Deliver(c)
  PROVE  /\ \A d \in Device, i \in 1 .. Len(inbox') : LastWord(d, i)' =>
              IF c.dev = d /\ c.action # "force_inform" THEN inbox'[i] = c
              ELSE i \in 1 .. Len(inbox) /\ LastWord(d, i) /\ inbox'[i] = inbox[i]
         /\ \A d \in Device : Pending(d)' <=>
              Pending(d) \/ (c.dev = d /\ c.action # "force_inform")
<1>1. inbox \in Seq(Command) /\ inbox' = Append(inbox, c)
  BY DEF TypeOK, Deliver
<1>0. PICK n \in Nat : n = Len(inbox)
  BY <1>1
<1>2. Len(inbox') = n + 1 /\ inbox'[n + 1] = c /\ \A i \in 1 .. n : inbox'[i] = inbox[i]
  BY <1>0, <1>1
<1>3. \A d \in Device : Decides(d, n + 1)' <=> c.dev = d /\ c.action # "force_inform"
  BY <1>2 DEF Decides
<1>4. \A d \in Device, i \in 1 .. n : Decides(d, i)' <=> Decides(d, i)
  BY <1>2 DEF Decides
<1>5. ASSUME NEW d \in Device, NEW i \in 1 .. n + 1, LastWord(d, i)'
      PROVE  IF c.dev = d /\ c.action # "force_inform" THEN inbox'[i] = c
             ELSE i \in 1 .. n /\ LastWord(d, i) /\ inbox'[i] = inbox[i]
  <2>1. Decides(d, i)' /\ \A j \in 1 .. n + 1 : j > i => ~Decides(d, j)'
    BY <1>2, <1>5 DEF LastWord
  <2>2. CASE c.dev = d /\ c.action # "force_inform"
    BY <1>2, <1>3, <2>1, <2>2
  <2>3. CASE ~(c.dev = d /\ c.action # "force_inform")
    <3>1. i \in 1 .. n
      BY <1>2, <1>3, <2>1, <2>3
    <3>2. Decides(d, i) /\ \A j \in 1 .. n : j > i => ~Decides(d, j)
      BY <1>2, <1>4, <2>1, <3>1
    <3> QED
      BY <1>0, <1>2, <2>3, <3>1, <3>2 DEF LastWord
  <2> QED
    BY <2>2, <2>3
<1>6. ASSUME NEW d \in Device
      PROVE  Pending(d)' <=> Pending(d) \/ (c.dev = d /\ c.action # "force_inform")
  <2>1. Pending(d)' <=> \E i \in 1 .. n + 1 : Decides(d, i)'
    BY <1>2 DEF Pending
  <2>2. Pending(d) <=> \E i \in 1 .. n : Decides(d, i)
    BY <1>0 DEF Pending
  <2>3. \A i \in 1 .. n + 1 : i = n + 1 \/ i \in 1 .. n
    BY <1>2
  <2>4. n + 1 \in 1 .. n + 1 /\ 1 .. n \subseteq 1 .. n + 1
    BY <1>2
  <2> QED
    BY <1>3, <1>4, <2>1, <2>2, <2>3, <2>4
<1> QED
  BY <1>0, <1>2, <1>5, <1>6

\* The first command is taken from the inbox: it was the last word about its
\* device exactly if none about it is left (supervisor.py 122-134).
LEMMA TakenFirst ==
  ASSUME TypeOK, NEW action, NextCommand(action)
  PROVE  /\ Head(inbox) \in Command /\ Head(inbox) = inbox[1] /\ 1 \in 1 .. Len(inbox)
         /\ \A d \in Device, i \in 1 .. Len(inbox') : LastWord(d, i)' =>
              i + 1 \in 1 .. Len(inbox) /\ LastWord(d, i + 1) /\ inbox'[i] = inbox[i + 1]
         /\ \A d \in Device : ~Pending(d)' => IF Decides(d, 1) THEN LastWord(d, 1) ELSE ~Pending(d)
<1>1. inbox \in Seq(Command) /\ inbox # << >> /\ inbox' = Tail(inbox)
  BY DEF TypeOK, NextCommand
<1> DEFINE n == Len(inbox')
<1>2. /\ n \in Nat /\ Len(inbox) = n + 1 /\ \A i \in 1 .. n : inbox'[i] = inbox[i + 1]
      /\ Head(inbox) = inbox[1] /\ inbox[1] \in Command
  BY <1>1
<1>3. \A d \in Device, i \in 1 .. n : Decides(d, i)' <=> Decides(d, i + 1)
  BY <1>2 DEF Decides
<1> HIDE DEF n
<1>4. ASSUME NEW d \in Device, NEW i \in 1 .. n, LastWord(d, i)'
      PROVE  LastWord(d, i + 1)
  <2>1. Decides(d, i + 1)
    BY <1>3, <1>4 DEF LastWord
  <2>2. ASSUME NEW j \in 1 .. n + 1, j > i + 1 PROVE ~Decides(d, j)
    <3>1. j - 1 \in 1 .. n /\ j - 1 > i /\ (j - 1) + 1 = j
      BY <1>2, <2>2
    <3>2. ~Decides(d, j - 1)'
      BY <1>2, <1>4, <3>1 DEF LastWord, n
    <3> QED
      BY <1>3, <3>1, <3>2
  <2> QED
    BY <1>2, <2>1, <2>2 DEF LastWord
<1>5. ASSUME NEW d \in Device, ~Pending(d)'
      PROVE  IF Decides(d, 1) THEN LastWord(d, 1) ELSE ~Pending(d)
  <2>1. ASSUME NEW j \in 1 .. n + 1, j > 1 PROVE ~Decides(d, j)
    <3>1. j - 1 \in 1 .. n /\ (j - 1) + 1 = j
      BY <1>2, <2>1
    <3>2. ~Decides(d, j - 1)'
      BY <1>5, <3>1 DEF Pending, n
    <3> QED
      BY <1>3, <3>1, <3>2
  <2>2. \A j \in 1 .. n + 1 : j = 1 \/ j > 1
    BY <1>2
  <2> QED
    BY <1>2, <2>1, <2>2 DEF LastWord, Pending
<1> QED
  BY <1>2, <1>4, <1>5 DEF n

\* A command arrives, and is the last word about its device from now on.
LEMMA ArrivalServes ==
  ASSUME OneRequest, ControlInv, HandlersWish, WorkerServes,
         NEW r \in Req, NEW d \in Device, PublishArrives(r, d)
  PROVE  WorkerServes'
<1> DEFINE c == CommandOf(req[r].pc, d)
<1>1. /\ TypeOK /\ SvcTypeOK /\ RowsCommitted
      /\ Publish(r, d) /\ Deliver(c) /\ missed' = missed \ {d}
      /\ UNCHANGED <<wanted, outlived>>
  BY DEF ControlInv, SupervisorInv, PublishArrives
<1>2. c \in Command /\ c.dev = d
  BY <1>1, PublishOK
<1>3. /\ \A e \in Device \ {d} : Owes(e)' <=> Owes(e)
      /\ c.action = "spawn" <=> d \in wanted
      /\ c.action # "force_inform"
  BY <1>1, PublishOwes
<1>4. UNCHANGED <<phase, tasks, delayed>>
  BY <1>1 DEF Deliver
<1> HIDE DEF c
<1>5. LastWordIsWanted(d)' /\ LoopIsWanted(d)'
  BY <1>1, <1>2, <1>3, DeliveredLast DEF LastWordIsWanted, LoopIsWanted
<1>6. ASSUME NEW e \in Device \ {d}, e \notin missed', ~Owes(e)'
      PROVE  LastWordIsWanted(e)' /\ LoopIsWanted(e)'
  <2>1. LastWordIsWanted(e) /\ LoopIsWanted(e)
    BY <1>1, <1>3, <1>6 DEF WorkerServes
  <2> QED
    BY <1>1, <1>2, <1>4, <2>1, DeliveredLast DEF LastWordIsWanted, LoopIsWanted
<1> QED
  BY <1>5, <1>6 DEF WorkerServes

\* A forced inform decides about no loop (supervisor.py 133).
LEMMA ForceInformServes ==
  ASSUME TypeOK, WorkerServes, NEW d \in Device, ForceInform(d)
  PROVE  WorkerServes'
<1> DEFINE c == [action |-> "force_inform", dev |-> d, auto |-> FALSE]
<1>1. Deliver(c) /\ UNCHANGED <<req, wanted, missed, outlived>> /\ c \in Command
  BY CommandTyped DEF ForceInform, svcVars, ghosts
<1>2. UNCHANGED <<phase, tasks, delayed>> /\ c.action = "force_inform"
  BY <1>1 DEF Deliver
<1> HIDE DEF c
<1>3. \A e \in Device : Owes(e)' <=> Owes(e)
  BY <1>1 DEF Owes, Owed
<1>4. ASSUME NEW e \in Device, e \notin missed', ~Owes(e)'
      PROVE  LastWordIsWanted(e)' /\ LoopIsWanted(e)'
  <2>1. LastWordIsWanted(e) /\ LoopIsWanted(e)
    BY <1>1, <1>3, <1>4 DEF WorkerServes
  <2> QED
    BY <1>1, <1>2, <2>1, DeliveredLast DEF LastWordIsWanted, LoopIsWanted
<1> QED
  BY <1>4 DEF WorkerServes

\* The commands in the inbox still decide when one has been taken from it.
LEMMA TakenServes ==
  ASSUME TypeOK, WorkerServes, NEW action, NextCommand(action),
         UNCHANGED <<req, wanted, missed>>
  PROVE  \A d \in Device \ missed' : ~Owes(d)' =>
           /\ d \notin missed /\ ~Owes(d)
           /\ LastWordIsWanted(d) /\ LastWordIsWanted(d)' /\ LoopIsWanted(d)
<1>1. \A d \in Device : Owes(d)' <=> Owes(d)
  BY DEF Owes, Owed
<1> QED
  BY <1>1, TakenFirst DEF WorkerServes, LastWordIsWanted

\* A taken spawn sleeps for its device, if nothing else is to be heard of it.
LEMMA SpawnServes ==
  ASSUME TypeOK, WorkerServes, HandleSpawn, UNCHANGED <<svcVars, ghosts>>
  PROVE  WorkerServes'
<1> USE DEF svcVars, ghosts
<1>1. NextCommand("spawn") /\ inbox[1].action = "spawn" /\ inbox[1] = Head(inbox)
      /\ inbox[1] \in Command /\ 1 \in 1 .. Len(inbox)
  BY TakenFirst DEF HandleSpawn, NextCommand
<1> DEFINE c == inbox[1]
<1>2. /\ c.dev \in Device /\ c.auto \in BOOLEAN /\ c.action = "spawn"
      /\ delayed' = [delayed EXCEPT ![c.dev][c.auto] = @ + 1]
      /\ UNCHANGED <<phase, tasks, wanted, outlived>>
  BY <1>1 DEF HandleSpawn, Command, NextCommand
<1>3. /\ delayed'[c.dev][c.auto] = delayed[c.dev][c.auto] + 1
      /\ delayed[c.dev][c.auto] \in Nat
      /\ \A d \in Device : d # c.dev => delayed'[d] = delayed[d]
  BY <1>2 DEF TypeOK
<1>4. ASSUME NEW d \in Device, d \notin missed', ~Owes(d)', ~Pending(d)',
             LastWordIsWanted(d), LoopIsWanted(d)
      PROVE  LoopIsWanted(d)'
  <2>1. CASE d = c.dev
    <3>1. Decides(d, 1) /\ LastWord(d, 1)
      BY <1>1, <1>2, <1>4, <2>1, TakenFirst DEF Decides
    <3>2. d \in wanted
      BY <1>1, <1>4, <3>1 DEF LastWordIsWanted
    <3>3. delayed'[d][c.auto] > 0
      BY <1>3, <2>1
    <3> QED
      BY <1>2, <3>2, <3>3 DEF LoopIsWanted
  <2>2. CASE d # c.dev
    <3>1. ~Decides(d, 1) /\ ~Pending(d)
      BY <1>1, <1>4, <2>2, TakenFirst DEF Decides
    <3> QED
      BY <1>2, <1>3, <1>4, <2>2, <3>1 DEF LoopIsWanted
  <2> QED
    BY <2>1, <2>2
<1>5. \A d \in Device \ missed' : ~Owes(d)' =>
        LastWordIsWanted(d) /\ LastWordIsWanted(d)' /\ LoopIsWanted(d)
  BY <1>1, TakenServes
<1> QED
  BY <1>4, <1>5 DEF WorkerServes, LoopIsWanted

\* A taken despawn leaves no loop, and no sleeping spawn but an outliving one.
LEMMA DespawnServes ==
  ASSUME TypeOK, WorkerServes, DespawnStep
  PROVE  WorkerServes'
<1>1. /\ NextCommand("despawn") /\ inbox[1].action = "despawn" /\ inbox[1] = Head(inbox)
      /\ inbox[1] \in Command /\ 1 \in 1 .. Len(inbox)
  BY TakenFirst DEF DespawnStep, HandleDespawn, NextCommand
<1> DEFINE c == inbox[1]
<1>2. /\ c.dev \in Device /\ c.action = "despawn"
      /\ tasks' = [tasks EXCEPT ![c.dev] = NoTask]
      /\ outlived' = IF \E auto \in BOOLEAN : delayed[c.dev][auto] > 0
                     THEN outlived \cup {c.dev} ELSE outlived \ {c.dev}
      /\ UNCHANGED <<phase, delayed, req, wanted, missed>>
  BY <1>1 DEF DespawnStep, HandleDespawn, Command, NextCommand, svcVars
<1>3. tasks'[c.dev] = NoTask /\ \A d \in Device : d # c.dev => tasks'[d] = tasks[d]
  BY <1>2 DEF TypeOK
<1>4. ASSUME NEW d \in Device, d \notin missed', ~Owes(d)', ~Pending(d)',
             LastWordIsWanted(d), LoopIsWanted(d)
      PROVE  LoopIsWanted(d)'
  <2>1. CASE d = c.dev
    <3>1. Decides(d, 1) /\ LastWord(d, 1)
      BY <1>1, <1>2, <1>4, <2>1, TakenFirst DEF Decides
    <3>2. d \notin wanted
      BY <1>1, <1>4, <3>1 DEF LastWordIsWanted
    <3>3. \A auto \in BOOLEAN : delayed[d][auto] \in Nat
      BY DEF TypeOK
    <3>4. d \notin outlived' => \A auto \in BOOLEAN : delayed[d][auto] = 0
      BY <1>2, <2>1, <3>3
    <3> QED
      BY <1>2, <1>3, <2>1, <3>2, <3>4 DEF LoopIsWanted
  <2>2. CASE d # c.dev
    <3>1. ~Decides(d, 1) /\ ~Pending(d)
      BY <1>1, <1>4, <2>2, TakenFirst DEF Decides
    <3> QED
      BY <1>2, <1>3, <1>4, <2>2, <3>1 DEF LoopIsWanted
  <2> QED
    BY <2>1, <2>2
<1>5. \A d \in Device \ missed' : ~Owes(d)' =>
        LastWordIsWanted(d) /\ LastWordIsWanted(d)' /\ LoopIsWanted(d)
  BY <1>1, <1>2, TakenServes
<1> QED
  BY <1>4, <1>5 DEF WorkerServes, LoopIsWanted

\* A forced inform that is taken changes no loop either.
LEMMA InformTakenServes ==
  ASSUME TypeOK, WorkerServes, HandleForceInform, UNCHANGED <<svcVars, ghosts>>
  PROVE  WorkerServes'
<1>1. /\ NextCommand("force_inform") /\ inbox[1].action = "force_inform"
      /\ UNCHANGED <<phase, tasks, delayed, req, wanted, missed, outlived>>
  BY TakenFirst DEF HandleForceInform, NextCommand, svcVars, ghosts
<1>2. \A d \in Device : ~Pending(d)' => ~Pending(d)
  BY <1>1, TakenFirst DEF Decides
<1>3. \A d \in Device \ missed' : ~Owes(d)' => LastWordIsWanted(d)' /\ LoopIsWanted(d)
  BY <1>1, TakenServes
<1> QED
  BY <1>1, <1>2, <1>3 DEF WorkerServes, LoopIsWanted

\* A spawn that wakes leaves its device registered (supervisor.py 153-168).
LEMMA WakeServes ==
  ASSUME TypeOK, WorkerServes, NEW d \in Device, NEW auto \in BOOLEAN,
         DelayedSpawn(d, auto), UNCHANGED <<svcVars, ghosts>>
  PROVE  WorkerServes'
<1>1. /\ delayed[d][auto] > 0 /\ UNCHANGED <<phase, inbox, req, wanted, missed, outlived>>
      /\ \A e \in Device : e # d => delayed'[e] = delayed[e] /\ tasks'[e] = tasks[e]
  BY DEF DelayedSpawn, SpawnDevice, TypeOK, svcVars, ghosts
<1>2. tasks'[d] # NoTask
  <2>1. CASE tasks[d] # NoTask /\ UNCHANGED <<tasks, run>>
    BY <2>1
  <2>2. CASE tasks' = [tasks EXCEPT ![d] = FreshTask(d)] /\ \E k \in TaskId : Unused(d, k)
    BY <2>2, FreshTaskOK, TaskIdAssumption DEF TypeOK
  <2> QED
    BY <2>1, <2>2 DEF DelayedSpawn, SpawnDevice
<1>3. \A e \in Device : Owes(e)' <=> Owes(e)
  BY <1>1 DEF Owes, Owed
<1>4. \A e \in Device : LastWordIsWanted(e) => LastWordIsWanted(e)'
  BY <1>1 DEF LastWordIsWanted, LastWord, Decides
<1>5. delayed[d][auto] # 0
  BY <1>1 DEF TypeOK
<1>6. ASSUME NEW e \in Device, LoopIsWanted(e) PROVE LoopIsWanted(e)'
  <2>1. Pending(e)' <=> Pending(e)
    BY <1>1 DEF Pending, Decides
  <2>2. CASE e = d
    BY <1>1, <1>2, <1>5, <1>6, <2>1, <2>2 DEF LoopIsWanted
  <2>3. CASE e # d
    BY <1>1, <1>6, <2>1, <2>3 DEF LoopIsWanted
  <2> QED
    BY <2>2, <2>3
<1> QED
  BY <1>1, <1>3, <1>4, <1>6 DEF WorkerServes

\* The poll starts exactly what it finds; the rest of what it should have
\* found is missed (supervisor.py 66-96).
LEMMA PollServes ==
  ASSUME SupervisorInv, OnlyListenersHaveMail, NEW found \in SUBSET Device, PollRows(found)
  PROVE  WorkerServes'
<1>1. /\ phase = "polling" /\ inbox' = << >> /\ delayed' = delayed /\ wanted' = wanted
      /\ missed' = {d \in Device : (d \in found) # (d \in wanted)}
      /\ tasks' = [d \in Device |-> IF d \in found THEN FreshTask(d) ELSE tasks[d]]
  BY DEF PollRows, StartupPoll, SupervisorInv, CommandsOnlyWhileRunning, OnlyListenersHaveMail
<1>2. \A d \in Device, auto \in BOOLEAN : delayed'[d][auto] = 0
  BY <1>1 DEF SupervisorInv, BootClean
<1>3. \A d \in Device : tasks[d] = NoTask /\ FreshTask(d) # NoTask
  <2>1. ASSUME NEW d \in Device PROVE FreshTask(d) # NoTask
    <3>1. \A k \in TaskId : Unused(d, k)
      BY <1>1, NoRunOK DEF SupervisorInv, BootClean, Unused
    <3> QED
      BY <3>1, FreshTaskOK, TaskIdAssumption
  <2> QED
    BY <1>1, <2>1 DEF SupervisorInv, BootClean
<1>4. \A d \in Device \ missed' : d \in found <=> d \in wanted'
  BY <1>1
<1> QED
  BY <1>1, <1>2, <1>3, <1>4 DEF WorkerServes, LastWordIsWanted, LoopIsWanted

\* What was on its way on a connection that breaks is missed
\* (supervisor.py 117-134).
LEMMA LossServes ==
  ASSUME WorkerServes, LoseConnection
  PROVE  WorkerServes'
<1>1. /\ inbox' = << >> /\ UNCHANGED <<phase, tasks, delayed, req, wanted, outlived>>
      /\ missed' = missed \cup {inbox[i].dev : i \in {j \in 1 .. Len(inbox) :
                                                 inbox[j].action # "force_inform"}}
  BY DEF LoseConnection, ListenFails, svcVars
<1>2. \A d \in Device : d \notin missed' => d \notin missed /\ ~Pending(d)
  BY <1>1 DEF Pending, Decides
<1>3. \A d \in Device : Owes(d)' <=> Owes(d)
  BY <1>1 DEF Owes, Owed
<1> QED
  BY <1>1, <1>2, <1>3 DEF WorkerServes, LastWordIsWanted, LoopIsWanted

\* The worker's own steps (supervisor.py 50-168).
LEMMA WorkerStepServes ==
  ASSUME SupervisorInv, WorkerServes,
         (WorkerStep \/ TaskSteps \/ ControllerStep)
  PROVE  WorkerServes'
<1> USE DEF SupervisorInv
<1>0. UNCHANGED svcVars /\ UNCHANGED ghosts
  BY DEF WorkerStep, TaskSteps, ControllerStep
<1>1. \A d \in Device : Owes(d)' <=> Owes(d)
  BY <1>0 DEF svcVars, Owes, Owed
<1>2. CASE Boot
  BY <1>0, <1>1, <1>2, ServesKept DEF Boot, memory, ghosts
<1>3. CASE Subscribe \/ \E d \in Device : CancelTask(d) \/ AwaitRaises(d)
  BY <1>0, <1>1, <1>3, ServesKept DEF Subscribe, CancelTask, AwaitRaises, ghosts
<1>4. CASE ClearTasks
  BY <1>0, <1>1, <1>4 DEF ClearTasks, ghosts, WorkerServes, LoopIsWanted, LastWordIsWanted,
     LastWord, Decides
<1>5. CASE Crash \/ Exit \/ RequestStop
  BY <1>5, ServesNothing DEF Crash, Exit, ProcessGone, RequestStop
<1>6. CASE HandleSpawn \/ HandleForceInform \/ \E d \in Device, auto \in BOOLEAN : DelayedSpawn(d, auto)
  BY <1>0, <1>6, SpawnServes, InformTakenServes, WakeServes
<1>7. CASE TaskSteps
  <2>1. PICK d \in Device, k \in TaskId : TaskStep(d, k)
    BY <1>7 DEF TaskSteps
  <2>2. UNCHANGED <<phase, inbox, tasks, delayed>>
    BY <2>1 DEF TaskStep, ContextLoaded, ContextSkipped, ContextFails, LoginOk, AdoptOk,
       ClientError, TransientError, BackoffOver, NotifyReturns, LoopSeesStop, Goto
  <2> QED
    BY <1>0, <1>1, <2>2, ServesKept DEF ghosts
<1>8. CASE ControllerStep
  BY <1>0, <1>1, <1>8, ServesKept DEF ControllerStep, ControllerAdopts, AdoptRequestLost,
     memory, ghosts
<1> QED
  BY <1>2, <1>3, <1>4, <1>5, <1>6, <1>7, <1>8 DEF WorkerStep, Shutdown

\* Nobody but a listening worker has mail (supervisor.py 117-134).
LEMMA MailKept ==
  ASSUME CommandsOnlyWhileRunning, OnlyListenersHaveMail, [Next]_supVars
  PROVE  OnlyListenersHaveMail'
<1> USE DEF OnlyListenersHaveMail
<1>1. CASE UNCHANGED <<cmdLoop, inbox>>
  BY <1>1
<1>2. CASE cmdLoop = "listening" /\ cmdLoop' = "listening"
  BY <1>2
<1>3. CASE inbox' = << >>
  BY <1>3
<1>4. CASE Boot \/ Crash \/ Subscribe \/ ListenFails \/ HandleCommand \/ RequestStop
           \/ ClearTasks \/ Exit
  BY <1>4 DEF Boot, Crash, ProcessGone, Subscribe, ListenFails, HandleCommand, HandleSpawn,
     HandleDespawn, HandleForceInform, NextCommand, RequestStop, ClearTasks, Exit, memory
<1>5. CASE EnvironmentNext
  BY <1>5 DEF EnvironmentNext, Deliver, ControllerAdopts, AdoptRequestLost, MarkRequestGone,
     memory
<1>6. ASSUME NEW d \in Device, NEW k \in TaskId, TaskStep(d, k)
      PROVE  UNCHANGED <<cmdLoop, inbox>>
  BY <1>6 DEF TaskStep, ContextLoaded, ContextSkipped, ContextFails, LoginOk, AdoptOk,
     ClientError, TransientError, BackoffOver, NotifyReturns, LoopSeesStop, Goto
<1>7. ASSUME NEW d \in Device,
             CancelTask(d) \/ AwaitRaises(d) \/ \E auto \in BOOLEAN : DelayedSpawn(d, auto)
      PROVE  UNCHANGED <<cmdLoop, inbox>>
  BY <1>7 DEF CancelTask, AwaitRaises, DelayedSpawn
<1>8. ASSUME NEW found \in SUBSET Device, StartupPoll(found)
      PROVE  OnlyListenersHaveMail'
  BY <1>8 DEF StartupPoll, CommandsOnlyWhileRunning
<1>9. CASE UNCHANGED supVars
  BY <1>9 DEF supVars
<1> QED
  BY <1>1, <1>4, <1>5, <1>6, <1>7, <1>8, <1>9 DEF Next, WorkerNext, Shutdown

-----------------------------------------------------------------------------
(* The composition.                                                        *)

\* Nobody has wished for anything yet.
THEOREM WishInvInit == ControlInit => WishInv
<1> SUFFICES ASSUME ControlInit PROVE WishInv
  OBVIOUS
<1>1. \A r \in Req : req[r] = Idle
  BY DEF ControlInit, SvcInit
<1>2. HandlersWish
  BY <1>1, IdleOK DEF HandlersWish, ListsMembers, OwedIsWanted, Owed, LoopOf, Publishes
<1>3. OnlyListenersHaveMail /\ WorkerServes
  BY DEF ControlInit, Init, OnlyListenersHaveMail, WorkerServes, LastWordIsWanted, LoopIsWanted
<1> QED
  BY <1>2, <1>3 DEF WishInv

\* One request at a time: every step of Django, Redis, the worker and the
\* controller preserves WishInv.
THEOREM WishInvStep ==
  OneRequest /\ ControlInv /\ WishInv /\ [ControlNext]_allVars => WishInv'
<1> SUFFICES ASSUME OneRequest, ControlInv, WishInv, [ControlNext]_allVars PROVE WishInv'
  OBVIOUS
<1> USE DEF WishInv
<1>1. /\ SupervisorInv /\ TypeOK /\ SvcTypeOK /\ CommandsOnlyWhileRunning
      /\ \A r \in Req : Owed(r) \in SUBSET Device
  BY DEF ControlInv, SupervisorInv, SvcTypeOK, Owed, Request
<1>2. OnlyListenersHaveMail'
  BY <1>1, ControlStepsSupervisor, MailKept
<1>3. SUFFICES HandlersWish' /\ WorkerServes'
  BY <1>2
<1>4. ASSUME UNCHANGED <<svcVars, wanted>> PROVE HandlersWish'
  BY <1>4, RequestsKept DEF svcVars, SameDebts
<1>5. ASSUME SameDebts, UNCHANGED <<supVars, ghosts>> PROVE HandlersWish' /\ WorkerServes'
  BY <1>5, ServesKept DEF SameDebts, supVars, ghosts
<1>6. CASE DjangoStep
  BY <1>1, <1>5, <1>6, QuietOwes, OthersOwe DEF DjangoStep, ghosts
<1>7. CASE WebCrashStep
  <2>1. /\ req' = [r \in Req |-> Idle] /\ missed' = missed \cup UNION {Owed(r) : r \in Req}
        /\ UNCHANGED <<phase, inbox, tasks, delayed, outlived, wanted>>
    BY <1>7 DEF WebCrashStep, WebCrash, supVars
  <2>2. \A r \in Req : req'[r] = Idle /\ Owed(r)' = {}
    BY <2>1, IdleOK DEF Owed
  <2>3. HandlersWish'
    BY <2>2, IdleOK DEF HandlersWish, ListsMembers, OwedIsWanted, LoopOf
  <2>4. \A d \in Device : d \notin missed' => d \notin missed /\ ~Owes(d)
    BY <2>1 DEF Owes
  <2> QED
    BY <2>1, <2>3, <2>4, ServesKept
<1>8. ASSUME NEW r \in Req, WishCommitted(r) PROVE HandlersWish' /\ WorkerServes'
  <2>1. UNCHANGED <<phase, inbox, tasks, delayed, missed, outlived>>
    BY <1>8 DEF WishCommitted, supVars
  <2> QED
    BY <1>1, <1>8, <2>1, WishOwes, ServesKept
<1>9. ASSUME NEW r \in Req, NEW d \in Device, PublishArrives(r, d)
      PROVE HandlersWish' /\ WorkerServes'
  BY <1>1, <1>9, PublishOwes, ArrivalServes DEF PublishArrives
<1>10. ASSUME NEW r \in Req, NEW d \in Device, PublishMissed(r, d)
       PROVE HandlersWish' /\ WorkerServes'
  <2>1. /\ missed' = missed \cup {d} /\ Publish(r, d)
        /\ UNCHANGED <<phase, inbox, tasks, delayed, outlived, wanted>>
    BY <1>10 DEF PublishMissed, supVars
  <2>2. HandlersWish' /\ \A e \in Device \ {d} : Owes(e)' <=> Owes(e)
    BY <1>1, <2>1, PublishOwes
  <2> QED
    BY <2>1, <2>2, ServesKept
<1>11. ASSUME NEW d \in Device, ForceInform(d) PROVE HandlersWish' /\ WorkerServes'
  BY <1>1, <1>4, <1>11, ForceInformServes DEF ForceInform, ghosts
<1>12. ASSUME NEW d \in Device, MarkArrives(d) \/ MarkLost(d)
       PROVE HandlersWish' /\ WorkerServes'
  <2>1. UNCHANGED <<phase, inbox, tasks, delayed, wanted, missed, outlived>>
    BY <1>12 DEF MarkArrives, MarkLost, MarkRequestGone, memory, ghosts
  <2>2. SameDebts
    BY <1>1, <1>12, <2>1, OthersOwe, RequestsKept DEF MarkArrives, MarkLost, svcVars
  <2> QED
    BY <2>1, <2>2, ServesKept DEF SameDebts
<1>13. CASE PollRows(PendingRows) \/ PollRows({})
  <2>1. PendingRows \in SUBSET Device /\ {} \in SUBSET Device
    BY DEF PendingRows
  <2>2. UNCHANGED <<svcVars, wanted>>
    BY <1>13 DEF PollRows
  <2> QED
    BY <1>1, <1>4, <1>13, <2>1, <2>2, PollServes
<1>14. CASE LoseConnection \/ DespawnStep
  BY <1>1, <1>4, <1>14, LossServes, DespawnServes DEF LoseConnection, DespawnStep
<1>15. CASE TaskSteps \/ WorkerStep \/ ControllerStep
  BY <1>1, <1>4, <1>15, WorkerStepServes DEF TaskSteps, WorkerStep, ControllerStep, ghosts
<1>16. CASE UNCHANGED allVars
  BY <1>4, <1>16, RequestsKept, ServesKept DEF allVars, supVars, svcVars, ghosts, SameDebts
<1> QED
  BY <1>6, <1>7, <1>8, <1>9, <1>10, <1>11, <1>12, <1>13, <1>14, <1>15, <1>16 DEF ControlNext

\* With one request at a time, whatever is lost, crashes, restarts or sleeps:
\* with nothing on its way a wanted device has a live task and an unwanted one
\* has none, but for missed commands, tasks that failed and outliving spawns
\* (apps/fleets/services.py 47-157, engine/supervisor.py 50-168).
THEOREM WishesAreServedOneAtATime ==
  ASSUME OneRequest
  PROVE  ControlSpec => []WishesAreServed
<1>1. ControlInit => WishInv
  BY WishInvInit
<1>2. ControlInv /\ WishInv /\ [ControlNext]_allVars => WishInv'
  BY WishInvStep
<1>3. ControlInv /\ WishInv => WishesAreServed
  <2> SUFFICES ASSUME ControlInv, WishInv, Quiet, NEW d \in Device \ missed
               PROVE /\ d \in wanted => Running(d) \/ FailedTask(d)
                     /\ d \notin wanted /\ d \notin outlived =>
                          ~Running(d) /\ tasks[d] = NoTask
    BY DEF WishesAreServed
  <2>1. ~Owes(d)
    BY IdleOK DEF Quiet, Owes, Owed, Publishes, LoopOf
  <2>2. ~Pending(d) /\ phase = "running" /\ \A auto \in BOOLEAN : delayed[d][auto] = 0
    BY DEF Quiet, Pending
  <2>3. /\ d \in wanted => tasks[d] # NoTask
        /\ d \notin wanted /\ d \notin outlived => tasks[d] = NoTask
    BY <2>1, <2>2 DEF WishInv, WorkerServes, LoopIsWanted
  <2>4. tasks[d] # NoTask => Running(d) \/ FailedTask(d)
    BY <2>2 DEF ControlInv, SupervisorInv, TypeOK, EntriesHaveTasks, Running, Live, FailedTask
  <2>5. Running(d) => tasks[d] # NoTask
    BY <2>2, TaskIdAssumption DEF ControlInv, SupervisorInv, LoopsAreRegistered, Running
  <2> QED
    BY <2>3, <2>4, <2>5
<1> QED
  BY <1>1, <1>2, <1>3, ControlInvHolds, PTL DEF ControlSpec
==============================================================================
