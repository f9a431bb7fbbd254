------------------------------- MODULE Console -------------------------------
(* The pages of one browser tab over the query cache (react-query with its  *)
(* default options), the live channel and the backend, which other actors   *)
(* write as well.  One table of the backend is followed, whichever Init     *)
(* picks, with a version per write; only queries built from it are kept.    *)
EXTENDS Channel, Pages, FiniteSets, SequencesExt

CONSTANT Budgets   \* what may happen in a run: the number of writes of other
                   \* actors, clicks on buttons, changes of page or openings of
                   \* the palette, lost sockets and events, expiries of the token

VARIABLES table, db,     \* the table, and the version of its rows
          token,         \* whether the access token is good
          view, palette, \* the mounted page, whether the palette is open
          cache, fetch,  \* of each query: the version shown, the fetch
          clicks,        \* writes of this tab that are not answered
          untold,        \* events of other actors' writes, not yet published
          owed,          \* history: the version the operator may expect
          marred,        \* history: an invalidation met a first load, or a write was not published
          budget
vars == <<chan, table, db, token, view, palette, cache, fetch, clicks, untold, owed,
          marred, budget>>

None == 0
Idle == -1
Asked == -2        \* the request travels; a positive value is an answer
KeysOf == [t \in AllTables |-> {k \in AllKeys : t \in TablesOf(k)}]
Keys == KeysOf[table]

\* Writes of fleets and of the states of their devices are published.
Told(tables) == table \in tables \cap {"fleets", "devices"}

ReadsOf(v, open) == (Pages[v].reads \cup IF open THEN PaletteReads ELSE {}) \cap Keys
Mounted == ReadsOf(view, palette)

\* A new observer fetches, or joins the fetch in flight.
Mount(f, keys) == [k \in Keys |-> IF k \in keys /\ f[k] = Idle THEN Asked ELSE f[k]]

\* Invalidating a prefix restarts the mounted queries under it, except a first
\* load; the others fetch when they are mounted.
Under(prefixes) == {k \in Mounted : \E p \in prefixes : IsPrefix(p, k)}
\* Mutant: a fetch in flight is never restarted.
ClearJoining(prefixes) ==
  [k \in Keys |-> IF k \in Under(prefixes) /\ fetch[k] = Idle THEN Asked ELSE fetch[k]]
Clear(prefixes) ==
  [k \in Keys |-> IF k \in Under(prefixes) /\ (cache[k] # None \/ fetch[k] = Idle)
                  THEN Asked ELSE fetch[k]]
Marring(prefixes) == \E k \in Under(prefixes) : cache[k] = None /\ fetch[k] > None

Spend(what) == budget[what] > 0 /\ budget' = [budget EXCEPT ![what] = @ - 1]

Init ==
  /\ table \in AllTables /\ db = 1
  /\ token = "good"
  /\ view \in Views /\ palette = FALSE /\ ReadsOf(view, FALSE) # {}
  /\ sock = (IF Pages[view].notices # {} THEN "connecting" ELSE "idle")
  /\ inbox = 0 /\ got = 0 /\ seen = 0
  /\ cache = [k \in Keys |-> None]
  /\ fetch = Mount([k \in Keys |-> Idle], ReadsOf(view, FALSE))
  /\ clicks = {} /\ untold = 0
  /\ owed = [k \in Keys |-> None] /\ marred = FALSE
  /\ budget \in Budgets

-----------------------------------------------------------------------------
(* The operator moves about.  *)

\* The page becomes v: if that is another one, its channel and its queries are
\* mounted.
Shows(v, f) ==
  /\ view' = v
  /\ IF v = view THEN fetch' = f /\ UNCHANGED <<chan, marred>>
     ELSE /\ fetch' = Mount(f, ReadsOf(v, palette'))
          /\ Mounts(Pages[v].notices # {}) /\ marred' = FALSE

\* The page that clicked is gone.
Left(some) == {[c EXCEPT !.here = FALSE] : c \in some}

\* A link, or a command of the palette, which closes it.
Visit ==
  /\ Spend("visits")
  /\ palette' = FALSE
  /\ \E v \in Views \ {view} : Shows(v, fetch)
  /\ clicks' = Left(clicks)
  /\ UNCHANGED <<table, db, token, cache, untold, owed>>

OpenPalette ==
  /\ ~palette /\ palette' = TRUE /\ Spend("visits")
  /\ fetch' = Mount(fetch, ReadsOf(view, TRUE))
  /\ UNCHANGED <<chan, table, db, token, view, cache, clicks, untold, owed, marred>>
ClosePalette ==
  /\ palette /\ palette' = FALSE
  /\ UNCHANGED <<chan, table, db, token, view, cache, fetch, clicks, untold, owed, marred,
                 budget>>

-----------------------------------------------------------------------------
(* Fetches.  *)

\* The refetch interval of a page.
Poll(k) ==
  /\ k \in Pages[view].polls \cap Keys /\ fetch[k] = Idle
  /\ fetch' = [fetch EXCEPT ![k] = Asked]
  /\ UNCHANGED <<chan, table, db, token, view, palette, cache, clicks, untold, owed, marred,
                 budget>>

\* The backend answers a request that carries a good token.
Read(k) ==
  /\ token = "good" /\ fetch[k] = Asked
  /\ fetch' = [fetch EXCEPT ![k] = db]
  /\ UNCHANGED <<chan, table, db, token, view, palette, cache, clicks, untold, owed, marred,
                 budget>>

Arrive(k) ==
  /\ fetch[k] > None
  /\ cache' = [cache EXCEPT ![k] = fetch[k]]
  /\ fetch' = [fetch EXCEPT ![k] = Idle]
  /\ UNCHANGED <<chan, table, db, token, view, palette, clicks, untold, owed, marred, budget>>

\* A request that meets an expired token refreshes it (module Session), which
\* reopens the socket.
Renew ==
  /\ token = "expired" /\ token' = "good"
  /\ (\E k \in Keys : fetch[k] = Asked) \/ (\E c \in clicks : c.at = None)
  /\ Reconnects
  /\ UNCHANGED <<table, db, view, palette, cache, fetch, clicks, untold, owed, marred, budget>>

Expire ==
  /\ token = "good" /\ token' = "expired" /\ Spend("expiries")
  /\ UNCHANGED <<chan, table, db, view, palette, cache, fetch, clicks, untold, owed, marred>>

-----------------------------------------------------------------------------
(* Writes.  *)

\* A button of the page.  Most are disabled while their request is under way;
\* all of them are held to that here.
Click ==
  /\ Spend("clicks")
  /\ \E b \in Pages[view].buttons :
       /\ ~\E c \in clicks : c.button = b /\ c.here
       /\ clicks' = clicks \cup {[button |-> b, at |-> None, told |-> FALSE, here |-> TRUE]}
  /\ UNCHANGED <<chan, table, db, token, view, palette, cache, fetch, untold, owed, marred>>

\* The handler writes, and publishes after it has saved; or it refuses.
Serve(c) ==
  /\ c.at = None /\ token = "good"
  /\ \/ /\ db' = IF table \in c.button.writes THEN db + 1 ELSE db
        /\ clicks' = (clicks \ {c}) \cup
             {[c EXCEPT !.at = db', !.told = ~Told(c.button.writes)]}
     \/ clicks' = clicks \ {c} /\ UNCHANGED db
  /\ UNCHANGED <<chan, table, token, view, palette, cache, fetch, untold, owed, marred, budget>>

\* A device outside of a fleet, and a deleted one, is not published.
Tell(c) ==
  /\ c.at # None /\ ~c.told
  /\ clicks' = (clicks \ {c}) \cup {[c EXCEPT !.told = TRUE]}
  /\ \/ Published /\ UNCHANGED marred
     \/ "fleets" \notin c.button.writes /\ UNCHANGED chan /\ marred' = TRUE
  /\ UNCHANGED <<table, db, token, view, palette, cache, fetch, untold, owed, budget>>

\* The success handler runs whether or not its page is still there: it
\* invalidates, then goes on.  The operator may expect the write on the page of
\* the button, or on the page it goes on to; not from a first load, nor from a
\* query of the next page that is already on its way.
Answer(c) ==
  /\ c.at # None /\ c.told
  /\ UNCHANGED palette
  /\ Shows(IF c.button.next = Stay THEN view ELSE c.button.next, Clear(c.button.clears))
  /\ clicks' = IF view' = view THEN clicks \ {c} ELSE Left(clicks \ {c})
  /\ owed' = [k \in Keys |->
       IF /\ c.here \/ c.button.next # Stay
          /\ table \in c.button.writes /\ k \in Pages[view'].reads
          /\ cache[k] # None /\ (k \in Mounted \/ fetch[k] < None)
       THEN c.at ELSE owed[k]]
  /\ UNCHANGED <<table, db, token, cache, untold, budget>>

\* Another operator, the worker or a timer writes; the publication follows, or
\* fails, or there is none, as for a deletion.
Elsewhere ==
  /\ Spend("writes")
  /\ db' = db + 1 /\ untold' = IF Told({table}) THEN untold + 1 ELSE untold
  /\ UNCHANGED <<chan, table, token, view, palette, cache, fetch, clicks, owed, marred>>
TellElsewhere ==
  /\ untold > 0 /\ untold' = untold - 1
  /\ \/ Published /\ UNCHANGED <<marred, budget>>
     \/ UNCHANGED chan /\ marred' = TRUE /\ Spend("drops")
  /\ UNCHANGED <<table, db, token, view, palette, cache, fetch, clicks, owed>>

-----------------------------------------------------------------------------
(* The live channel.  *)
Rest == <<table, db, token, view, palette, cache, clicks, untold, owed>>

Connected == Accept(token = "good") /\ UNCHANGED <<Rest, fetch, marred, budget>>
Greeted == Greet /\ UNCHANGED <<Rest, fetch, marred, budget>>
Retried == Retry /\ UNCHANGED <<Rest, fetch, marred, budget>>
Dropped == Drop /\ Spend("drops") /\ UNCHANGED <<Rest, fetch, marred>>

Delivered ==
  /\ Deliver
  /\ IF Noticed
     THEN /\ fetch' = Clear(Pages[view].notices)
          /\ marred' = (marred \/ Marring(Pages[view].notices))
     ELSE UNCHANGED <<fetch, marred>>
  /\ UNCHANGED <<Rest, budget>>

Opened == Connected \/ Greeted \/ Retried
ChannelNext == Opened \/ Dropped \/ Delivered

Next ==
  \/ Visit \/ OpenPalette \/ ClosePalette
  \/ \E k \in Keys : Poll(k) \/ Read(k) \/ Arrive(k)
  \/ Renew \/ Expire
  \/ Click
  \/ \E c \in clicks : Serve(c) \/ Tell(c) \/ Answer(c)
  \/ Elsewhere \/ TellElsewhere
  \/ ChannelNext

\* Timers fire, and the network and the backend answer each query, named by its
\* place among those built from the table.
Places == [t \in AllTables |-> SetToSeq(KeysOf[t])]
MaxPlace == Max({Cardinality(KeysOf[t]) : t \in AllTables})
Fetched(i) ==
  /\ i <= Len(Places[table])
  /\ LET k == Places[table][i] IN Poll(k) \/ Read(k) \/ Arrive(k)

\* None of the other steps can recur for ever, so one condition serves them all.
Served ==
  \/ \E c \in clicks : Serve(c) \/ Tell(c) \/ Answer(c)
  \/ Renew \/ TellElsewhere \/ Opened \/ Delivered

Spec == Init /\ [][Next]_vars
Fairness == WF_vars(Served) /\ \A i \in 1 .. MaxPlace : WF_vars(Fetched(i))
LiveSpec == Spec /\ Fairness
-----------------------------------------------------------------------------
(* Properties *)

\* Types; the buffer keeps at most its size (ws.ts 60-64), and the page has
\* reacted to no more messages than there are.
ConsoleTypeOK ==
  /\ ChannelTypeOK
  /\ table \in AllTables /\ db \in Nat \ {0}
  /\ token \in {"good", "expired"} /\ view \in Views /\ palette \in BOOLEAN
  /\ cache \in [Keys -> None .. db]
  /\ fetch \in [Keys -> {Idle, Asked} \cup 1 .. db]
  /\ owed \in [Keys -> None .. db]

\* A page at rest shows what its own button has written: each success handler
\* invalidates, or leaves for a page that asks, whatever shows the write, also
\* when a poll or an event has an older answer on its way (FleetDetailPage.tsx
\* 74-89, DeviceDetailPage.tsx 26-44, TrafficPage.tsx 266-270 and others).
OwnWritesShown ==
  \A k \in Pages[view].reads \cap Keys : fetch[k] = Idle => cache[k] >= owed[k]

\* The dashboard catches up with every write, lost events and sockets, expired
\* tokens and a full buffer notwithstanding (DashboardPage.tsx 62-66: a slow
\* refetchInterval as a safety net for missed events).
DashboardLate ==
  view = "dashboard" /\ \E k \in Pages["dashboard"].notices \cap Keys : cache[k] < db
DashboardCatchesUp == DashboardLate ~> ~DashboardLate

\* The fleet page does not poll: events and the greeting of a new socket keep
\* it fresh, across dropped sockets and renewed tokens, as long as the token is
\* good, the buffer is not full, every write was published and no event arrived
\* during a first load (FleetDetailPage.tsx 57-66).
EventsLate == \E k \in Pages["fleet"].notices \cap Keys : cache[k] < db
FleetPageLate ==
  view = "fleet" /\ EventsLate /\ token = "good" /\ ~marred /\ got < BufferSize
FleetPageCatchesUp == FleetPageLate ~> ~FleetPageLate

\* The fleet page learns of a write from a message, a greeting, or a request
\* for what changed; one of them is always coming.
NewsComing ==
  \/ sock \in {"connecting", "joined", "waiting"} \/ inbox > 0
  \/ untold > 0 \/ \E c \in clicks : c.at # None /\ ~c.told
\* The fleet page is never left behind: while it is late on the conditions of
\* FleetPageCatchesUp, each query that shows an old version is being asked for
\* or has the newest answer on its way, or there is news coming.  No order of
\* dropped sockets, events, answers and changes of page loses the last write
\* (FleetDetailPage.tsx 57-66, ws.ts 40-95, consumers.py 21-38).
FleetPageExpectsNews ==
  FleetPageLate =>
    NewsComing \/ \A k \in Pages["fleet"].notices \cap Keys :
                    cache[k] = db \/ fetch[k] \in {Asked, db}

\* "Invalidate fleet + device queries whenever a new WS event arrives so the
\* device_states breakdown and row statuses stay fresh without polling"
\* (FleetDetailPage.tsx 57-58), whatever the number of events.
FleetPageStale == view = "fleet" /\ EventsLate /\ token = "good" /\ ~marred
EventsKeepFresh == FleetPageStale ~> ~FleetPageStale
==============================================================================
