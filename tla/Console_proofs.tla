--------------------------- MODULE Console_proofs ----------------------------
(***************************************************************************)
(* Proofs about Console, for every run of clicks, visits, writes of others *)
(* and losses: on every page, at rest, the operator sees what its own      *)
(* buttons have written.  The first part is about the table of pages: no   *)
(* success handler forgets to invalidate a query of the page it leaves the *)
(* operator on; the second about the cache, the fetches in flight and the  *)
(* clicks that wait for their answer.  The last part is about the fleet    *)
(* page, which does not poll: while it is late there is news coming.       *)
(***************************************************************************)
EXTENDS Console, SequenceTheorems, TLAPS

\* The pages by name.

Names == {"dashboard", "controllers", "controller", "devices", "device", "deviceFlows",
          "fleets", "fleet", "blueprints", "topology", "profiles", "flows", "firmware",
          "audit", "tokens", "inspector"}

\* The routes of the console (App.tsx), one by one.
LEMMA ViewsAre == Views = Names
  BY DEF Views, Pages, Names

\* A key is under a shorter one that has the same names in the same places.
LEMMA PrefixByNames ==
  ASSUME NEW S, NEW p \in Seq(S), NEW q \in Seq(S), Len(p) \in 1 .. Len(q),
         \A i \in 1 .. Len(p) : p[i] = q[i]
  PROVE  IsPrefix(p, q)
<1> DEFINE n == Len(p)  r == SubSeq(q, 1, n)  o == SubSeq(p, 1, n)
<1>1. \A i \in 1 .. n : p[i] \in S /\ q[i] \in S
  OBVIOUS
<1>2. r \in Seq(S) /\ Len(r) = n /\ \A i \in 1 .. n : r[i] = q[i]
  BY <1>1, SubSeqProperties
<1>3. o \in Seq(S) /\ Len(o) = n /\ \A i \in 1 .. n : o[i] = p[i]
  BY <1>1, SubSeqProperties
<1> HIDE DEF r, o
<1>4. o = r
  BY <1>2, <1>3
<1> QED
  BY <1>4 DEF IsPrefix, r, o

\* The keys of the console have one to four names: a prefix of theirs, as
\* invalidateQueries matches it.
LEMMA KeyPrefixes ==
  ASSUME NEW s, NEW t, NEW u, NEW w
  PROVE  /\ IsPrefix(<<s>>, <<s>>)
         /\ IsPrefix(<<s>>, <<s, t>>)
         /\ IsPrefix(<<s, t>>, <<s, t>>)
         /\ IsPrefix(<<s, t>>, <<s, t, u>>)
         /\ IsPrefix(<<s, t>>, <<s, t, u, w>>)
<1> DEFINE S == {s, t, u, w}
           one == <<s>>  two == <<s, t>>  three == <<s, t, u>>  four == <<s, t, u, w>>
<1>1. /\ one \in Seq(S) /\ Len(one) = 1 /\ one[1] = s
      /\ two \in Seq(S) /\ Len(two) = 2 /\ two[1] = s /\ two[2] = t
      /\ three \in Seq(S) /\ Len(three) = 3 /\ three[1] = s /\ three[2] = t
      /\ four \in Seq(S) /\ Len(four) = 4 /\ four[1] = s /\ four[2] = t
  OBVIOUS
<1> HIDE DEF S, one, two, three, four
<1>2. IsPrefix(one, one)
  <2>1. Len(one) \in 1 .. Len(one) /\ \A i \in 1 .. Len(one) : one[i] = one[i]
    BY <1>1
  <2> QED
    BY <1>1, <2>1, PrefixByNames
<1>3. IsPrefix(one, two)
  <2>1. Len(one) \in 1 .. Len(two) /\ \A i \in 1 .. Len(one) : one[i] = two[i]
    BY <1>1
  <2> QED
    BY <1>1, <2>1, PrefixByNames
<1>4. IsPrefix(two, two)
  <2>1. Len(two) \in 1 .. Len(two) /\ \A i \in 1 .. Len(two) : two[i] = two[i]
    BY <1>1
  <2> QED
    BY <1>1, <2>1, PrefixByNames
<1>5. IsPrefix(two, three)
  <2>1. Len(two) \in 1 .. Len(three) /\ \A i \in 1 .. Len(two) : two[i] = three[i]
    BY <1>1
  <2> QED
    BY <1>1, <2>1, PrefixByNames
<1>6. IsPrefix(two, four)
  <2>1. Len(two) \in 1 .. Len(four) /\ \A i \in 1 .. Len(two) : two[i] = four[i]
    BY <1>1
  <2> QED
    BY <1>1, <2>1, PrefixByNames
<1> QED
  BY <1>2, <1>3, <1>4, <1>5, <1>6 DEF one, two, three, four

\* The tables behind a key depend on its first name, or on its second under "traffic".
LEMMA TablesAre ==
  ASSUME NEW s, NEW t, NEW u, NEW w
  PROVE  /\ TablesOf(<<"fleets">>) = {"fleets", "devices"}
         /\ TablesOf(<<"fleets", t>>) = {"fleets", "devices"}
         /\ s \notin {"fleets", "traffic"} =>
              TablesOf(<<s>>) = {s} /\ TablesOf(<<s, t>>) = {s}
         /\ TablesOf(<<"traffic", t>>) = {t}
         /\ TablesOf(<<"traffic", t, u>>) = {t}
         /\ TablesOf(<<"traffic", t, u, w>>) = {t}
  BY DEF TablesOf

\* A query that is not built from these writes, or is under one of these prefixes.
Kempt(k, writes, clears) ==
  TablesOf(k) \cap writes = {} \/ \E p \in clears : IsPrefix(p, k)
\* Whatever page v asks for that is built from what b writes, b invalidates.
Covers(b, v) == \A k \in Pages[v].reads : Kempt(k, b.writes, b.clears)
\* The page after the button: its own or the next one.
ButtonOK(b, v) ==
  IF b.next = Stay THEN Covers(b, v) ELSE b.next \in Views /\ Covers(b, b.next)

\* What a button writes (always the audit log too), invalidates and goes on to.
LEMMA ButtonParts ==
  ASSUME NEW writes, NEW clears, NEW next
  PROVE  LET b == Button(writes, clears, next) IN
         b.writes = writes \cup {"audit"} /\ b.clears = clears /\ b.next = next
  BY DEF Button

\* What a page asks for, polls and offers.
LEMMA PageParts ==
  ASSUME NEW reads, NEW polls, NEW notices, NEW buttons
  PROVE  LET p == Page(reads, polls, notices, buttons) IN
         /\ p.reads = reads /\ p.polls = polls
         /\ p.notices = notices /\ p.buttons = buttons
  BY DEF Page

\* The queries that each page with a button, or after one, mounts.
LEMMA ReadsAre ==
  /\ Pages["controllers"].reads = {<<"controllers">>}
  /\ Pages["devices"].reads = {<<"devices">>, <<"controllers">>, <<"templates">>}
  /\ Pages["device"].reads = {<<"devices", "one">>}
  /\ Pages["fleets"].reads =
       {<<"fleets">>, <<"controllers">>, <<"blueprints">>, <<"templates">>}
  /\ Pages["fleet"].reads =
       {<<"fleets", "one">>, <<"devices">>, <<"controllers">>, <<"blueprints", "one">>}
  /\ Pages["blueprints"].reads = {<<"blueprints">>}
  /\ Pages["profiles"].reads = {<<"traffic", "profiles">>}
  /\ Pages["flows"].reads =
       {<<"fleets">>, <<"traffic", "flows", "fleet">>, <<"traffic", "flows", "stats", "fleet">>}
  /\ Pages["firmware"].reads = {<<"firmware">>}
  /\ Pages["tokens"].reads = {<<"tokens">>}
  /\ Pages["inspector"].reads = {<<"devices", "one">>}
<1>1. Pages["controllers"].reads = {<<"controllers">>}
  BY PageParts DEF Pages, ControllersPage, All
<1>2. Pages["devices"].reads = {<<"devices">>, <<"controllers">>, <<"templates">>}
  BY PageParts DEF Pages, DevicesPage, All
<1>3. Pages["device"].reads = {<<"devices", "one">>}
  BY PageParts DEF Pages, DeviceDetailPage, One
<1>4. Pages["fleets"].reads =
       {<<"fleets">>, <<"controllers">>, <<"blueprints">>, <<"templates">>}
  BY PageParts DEF Pages, FleetsPage, All
<1>5. Pages["fleet"].reads =
       {<<"fleets", "one">>, <<"devices">>, <<"controllers">>, <<"blueprints", "one">>}
  BY PageParts DEF Pages, FleetDetailPage, All, One
<1>6. Pages["blueprints"].reads = {<<"blueprints">>}
  BY PageParts DEF Pages, BlueprintsPage, All
<1>7. Pages["profiles"].reads = {<<"traffic", "profiles">>}
  BY PageParts DEF Pages, ProfilesTab, Profiles
<1>8. Pages["flows"].reads =
       {<<"fleets">>, <<"traffic", "flows", "fleet">>, <<"traffic", "flows", "stats", "fleet">>}
  BY PageParts DEF Pages, FlowsTab, All, Flows, FlowStats
<1>9. Pages["firmware"].reads = {<<"firmware">>}
  BY PageParts DEF Pages, FirmwarePage, All
<1>10. Pages["tokens"].reads = {<<"tokens">>}
  BY PageParts DEF Pages, TokensPage, All
<1>11. Pages["inspector"].reads = {<<"devices", "one">>}
  BY PageParts DEF Pages, InformInspectorPage, One
<1> QED
  BY <1>1, <1>2, <1>3, <1>4, <1>5, <1>6, <1>7, <1>8, <1>9, <1>10, <1>11

\* The buttons of each page.
LEMMA ButtonsAre ==
  /\ \A v \in {"dashboard", "topology", "audit"} : Pages[v].buttons = {}
  /\ Pages["controllers"].buttons = {CreateController}
  /\ Pages["controller"].buttons =
       {Button({"controllers"}, {<<"controllers">>}, "controllers")}
  /\ Pages["devices"].buttons = {CreateDevice}
  /\ Pages["device"].buttons = {DeleteDevice} \cup Simulate
  /\ Pages["deviceFlows"].buttons = {DeleteDevice}
  /\ Pages["fleets"].buttons = {CreateFleet(Stay), CreateFleet("fleets")}
  /\ Pages["fleet"].buttons =
       {Button({"fleets"}, {<<"fleets", "one">>}, Stay),
        Button({"fleets"}, {<<"fleets">>, <<"devices">>}, "fleets")}
  /\ Pages["blueprints"].buttons = {Refresh}
  /\ Pages["profiles"].buttons = {ProfileEditor}
  /\ Pages["flows"].buttons = {Button({"flows"}, {<<"traffic", "flows">>}, Stay)}
  /\ Pages["firmware"].buttons = {Button({"firmware"}, {<<"firmware">>}, Stay)}
  /\ Pages["tokens"].buttons = {CreateToken}
  /\ Pages["inspector"].buttons = {Button({}, {}, Stay)}
<1>1. \A v \in {"dashboard", "topology", "audit"} : Pages[v].buttons = {}
  BY PageParts DEF Pages, DashboardPage, TopologyPage, AuditPage
<1>2. /\ Pages["controllers"].buttons = {CreateController}
      /\ Pages["controller"].buttons =
           {Button({"controllers"}, {<<"controllers">>}, "controllers")}
  BY PageParts DEF Pages, ControllersPage, ControllerDetailPage, All
<1>3. /\ Pages["devices"].buttons = {CreateDevice}
      /\ Pages["device"].buttons = {DeleteDevice} \cup Simulate
      /\ Pages["deviceFlows"].buttons = {DeleteDevice}
  <2>1. Pages["devices"].buttons = {CreateDevice}
    BY PageParts DEF Pages, DevicesPage
  <2>2. Pages["device"].buttons = {DeleteDevice} \cup Simulate
    BY PageParts DEF Pages, DeviceDetailPage
  <2>3. Pages["deviceFlows"].buttons = {DeleteDevice}
    BY PageParts DEF Pages, DeviceFlowsTab
  <2> QED
    BY <2>1, <2>2, <2>3
<1>4. Pages["fleets"].buttons = {CreateFleet(Stay), CreateFleet("fleets")}
  BY PageParts DEF Pages, FleetsPage
<1>5. Pages["fleet"].buttons =
       {Button({"fleets"}, {<<"fleets", "one">>}, Stay),
        Button({"fleets"}, {<<"fleets">>, <<"devices">>}, "fleets")}
  BY PageParts DEF Pages, FleetDetailPage, All, One
<1>6. Pages["blueprints"].buttons = {Refresh} /\ Pages["profiles"].buttons = {ProfileEditor}
  BY PageParts DEF Pages, BlueprintsPage, ProfilesTab
<1>7. Pages["flows"].buttons = {Button({"flows"}, {<<"traffic", "flows">>}, Stay)}
  BY PageParts DEF Pages, FlowsTab
<1>8. /\ Pages["firmware"].buttons = {Button({"firmware"}, {<<"firmware">>}, Stay)}
      /\ Pages["tokens"].buttons = {CreateToken}
      /\ Pages["inspector"].buttons = {Button({}, {}, Stay)}
  BY PageParts DEF Pages, FirmwarePage, TokensPage, InformInspectorPage, All
<1> QED
  BY <1>1, <1>2, <1>3, <1>4, <1>5, <1>6, <1>7, <1>8


\* A query under an invalidated prefix is kempt.
LEMMA Cleared ==
  ASSUME NEW writes, NEW clears, NEW p \in clears, NEW k, IsPrefix(p, k)
  PROVE  Kempt(k, writes, clears)
  BY DEF Kempt

\* A query of one table that is not written is kempt, whatever is invalidated.
LEMMA Untouched ==
  ASSUME NEW writes, NEW clears, NEW s, s \notin {"fleets", "traffic"}, s \notin writes
  PROVE  Kempt(<<s>>, writes, clears) /\ \A t : Kempt(<<s, t>>, writes, clears)
<1>1. TablesOf(<<s>>) = {s} /\ \A t : TablesOf(<<s, t>>) = {s}
  BY TablesAre
<1> QED
  BY <1>1, Zenon DEF Kempt

\* A button covers a page when each query of the page is kempt.
LEMMA CoversBy ==
  ASSUME NEW writes, NEW clears, NEW next, NEW v,
         \A k \in Pages[v].reads : Kempt(k, writes \cup {"audit"}, clears)
  PROVE  Covers(Button(writes, clears, next), v)
<1> DEFINE b == Button(writes, clears, next)
<1>1. b.writes = writes \cup {"audit"} /\ b.clears = clears
  BY ButtonParts
<1> QED
  BY <1>1, Zenon DEF Covers

\* A page with one query needs its button to invalidate just that one.
LEMMA OneQueryCovers ==
  ASSUME NEW v, NEW k, Pages[v].reads = {k}, IsPrefix(k, k)
  PROVE  \A writes, next : Covers(Button(writes, {k}, next), v)
<1> SUFFICES ASSUME NEW writes, NEW next
             PROVE  Covers(Button(writes, {k}, next), v)
  OBVIOUS
<1> DEFINE all == writes \cup {"audit"}  clears == {k}
<1>1. Kempt(k, all, clears)
  <2>1. k \in clears
    OBVIOUS
  <2> HIDE DEF all, clears
  <2> QED
    BY <2>1, Cleared
<1>2. \A q \in Pages[v].reads : Kempt(q, all, clears)
  BY <1>1, Zenon
<1> QED
  BY <1>2, CoversBy, Zenon

\* A button that only adds to the audit log need not invalidate a device.
LEMMA NothingCovers ==
  ASSUME NEW v, Pages[v].reads = {<<"devices", "one">>}
  PROVE  Covers(Button({}, {}, Stay), v)
<1> DEFINE all == {} \cup {"audit"}
<1>1. "devices" \notin all /\ "devices" \notin {"fleets", "traffic"}
  OBVIOUS
<1> HIDE DEF all
<1>2. Kempt(<<"devices", "one">>, all, {})
  BY <1>1, Untouched
<1>3. \A q \in Pages[v].reads : Kempt(q, all, {})
  BY <1>2, Zenon
<1> QED
  BY <1>3, CoversBy, Zenon DEF all

\* The form of the devices page, and the delete button that goes back to it.
LEMMA DevicesCovers ==
  Covers(CreateDevice, "devices") /\ Covers(DeleteDevice, "devices")
<1> DEFINE writes == {"devices"}  clears == {<<"devices">>}
           all == writes \cup {"audit"}
<1>1. /\ <<"devices">> \in clears
      /\ "controllers" \notin all \cup {"fleets", "traffic"}
      /\ "templates" \notin all \cup {"fleets", "traffic"}
  OBVIOUS
<1>2. Pages["devices"].reads = {<<"devices">>, <<"controllers">>, <<"templates">>}
  BY ReadsAre
<1> HIDE DEF all, clears
<1>3. Kempt(<<"devices">>, all, clears)
  <2>1. IsPrefix(<<"devices">>, <<"devices">>)
    BY KeyPrefixes
  <2> QED
    BY <1>1, <2>1, Cleared
<1>4. Kempt(<<"controllers">>, all, clears)
  BY <1>1, Untouched
<1>5. Kempt(<<"templates">>, all, clears)
  BY <1>1, Untouched
<1>6. \A k \in Pages["devices"].reads : Kempt(k, all, clears)
  BY <1>2, <1>3, <1>4, <1>5, Zenon
<1> QED
  BY <1>6, CoversBy, Zenon DEF all, clears, writes, CreateDevice, DeleteDevice, All

\* The form of the fleets page, and the teardown that goes back to it.
LEMMA FleetsCovers ==
  ASSUME NEW writes \in SUBSET {"fleets", "devices"}, NEW next
  PROVE  Covers(Button(writes, {<<"fleets">>, <<"devices">>}, next), "fleets")
<1> DEFINE all == writes \cup {"audit"}  clears == {<<"fleets">>, <<"devices">>}
<1>1. /\ <<"fleets">> \in clears
      /\ "controllers" \notin all \cup {"fleets", "traffic"}
      /\ "blueprints" \notin all \cup {"fleets", "traffic"}
      /\ "templates" \notin all \cup {"fleets", "traffic"}
  OBVIOUS
<1>2. Pages["fleets"].reads = {<<"fleets">>, <<"controllers">>, <<"blueprints">>, <<"templates">>}
  BY ReadsAre
<1> HIDE DEF all, clears
<1>3. Kempt(<<"fleets">>, all, clears)
  <2>1. IsPrefix(<<"fleets">>, <<"fleets">>)
    BY KeyPrefixes
  <2> QED
    BY <1>1, <2>1, Cleared
<1>4. Kempt(<<"controllers">>, all, clears)
  BY <1>1, Untouched
<1>5. Kempt(<<"blueprints">>, all, clears)
  BY <1>1, Untouched
<1>6. Kempt(<<"templates">>, all, clears)
  BY <1>1, Untouched
<1>7. \A k \in Pages["fleets"].reads : Kempt(k, all, clears)
  BY <1>2, <1>3, <1>4, <1>5, <1>6, Zenon
<1> QED
  BY <1>7, CoversBy, Zenon DEF all, clears

\* Pause and resume.
LEMMA FleetCovers ==
  Covers(Button({"fleets"}, {<<"fleets", "one">>}, Stay), "fleet")
<1> DEFINE writes == {"fleets"}  clears == {<<"fleets", "one">>}
           all == writes \cup {"audit"}
<1>1. /\ <<"fleets", "one">> \in clears
      /\ "devices" \notin all \cup {"fleets", "traffic"}
      /\ "controllers" \notin all \cup {"fleets", "traffic"}
      /\ "blueprints" \notin all \cup {"fleets", "traffic"}
  OBVIOUS
<1>2. Pages["fleet"].reads = {<<"fleets", "one">>, <<"devices">>, <<"controllers">>, <<"blueprints", "one">>}
  BY ReadsAre
<1> HIDE DEF all, clears
<1>3. Kempt(<<"fleets", "one">>, all, clears)
  <2>1. IsPrefix(<<"fleets", "one">>, <<"fleets", "one">>)
    BY KeyPrefixes
  <2> QED
    BY <1>1, <2>1, Cleared
<1>4. Kempt(<<"devices">>, all, clears)
  BY <1>1, Untouched
<1>5. Kempt(<<"controllers">>, all, clears)
  BY <1>1, Untouched
<1>6. Kempt(<<"blueprints", "one">>, all, clears)
  BY <1>1, Untouched
<1>7. \A k \in Pages["fleet"].reads : Kempt(k, all, clears)
  BY <1>2, <1>3, <1>4, <1>5, <1>6, Zenon
<1> QED
  BY <1>7, CoversBy, Zenon DEF all, clears, writes

\* Sample flows.
LEMMA FlowsCovers ==
  Covers(Button({"flows"}, {<<"traffic", "flows">>}, Stay), "flows")
<1> DEFINE writes == {"flows"}  clears == {<<"traffic", "flows">>}
           all == writes \cup {"audit"}
<1>1. /\ <<"traffic", "flows">> \in clears
      /\ "fleets" \notin all /\ "devices" \notin all
  OBVIOUS
<1>2. Pages["flows"].reads = {<<"fleets">>, <<"traffic", "flows", "fleet">>, <<"traffic", "flows", "stats", "fleet">>}
  BY ReadsAre
<1> HIDE DEF all, clears
<1>3. Kempt(<<"fleets">>, all, clears)
  <2>1. TablesOf(<<"fleets">>) = {"fleets", "devices"}
    BY TablesAre
  <2> QED
    BY <1>1, <2>1, Zenon DEF Kempt
<1>4. Kempt(<<"traffic", "flows", "fleet">>, all, clears)
  <2>1. IsPrefix(<<"traffic", "flows">>, <<"traffic", "flows", "fleet">>)
    BY KeyPrefixes
  <2> QED
    BY <1>1, <2>1, Cleared
<1>5. Kempt(<<"traffic", "flows", "stats", "fleet">>, all, clears)
  <2>1. IsPrefix(<<"traffic", "flows">>, <<"traffic", "flows", "stats", "fleet">>)
    BY KeyPrefixes
  <2> QED
    BY <1>1, <2>1, Cleared
<1>6. \A k \in Pages["flows"].reads : Kempt(k, all, clears)
  BY <1>2, <1>3, <1>4, <1>5, Zenon
<1> QED
  BY <1>6, CoversBy, Zenon DEF all, clears, writes

\* The buttons of the console.
AllButtons == UNION {Pages[v].buttons : v \in Views}
\* A success handler leaves nothing on its page, or on the one it goes on to,
\* that it has written and not invalidated.
LEMMA ButtonsClear == \A v \in Views : \A b \in Pages[v].buttons : ButtonOK(b, v)
<1>1. ASSUME NEW v \in {"dashboard", "topology", "audit"}, NEW b \in Pages[v].buttons
      PROVE  ButtonOK(b, v)
  BY ButtonsAre
<1>2. \A s : IsPrefix(<<s>>, <<s>>)
  BY KeyPrefixes
<1>3. \A s, t : IsPrefix(<<s, t>>, <<s, t>>)
  BY KeyPrefixes
<1>4. \A writes, clears, next, v :
        next \in Views /\ next # Stay /\ Covers(Button(writes, clears, next), next)
          => ButtonOK(Button(writes, clears, next), v)
  BY ButtonParts DEF ButtonOK
<1>5. \A writes, clears, v :
        Covers(Button(writes, clears, Stay), v) => ButtonOK(Button(writes, clears, Stay), v)
  BY ButtonParts DEF ButtonOK
<1>6. \A v \in Names : v # Stay /\ v \in Views
  BY ViewsAre DEF Names, Stay
<1>7. ASSUME NEW b \in Pages["controllers"].buttons
      PROVE  ButtonOK(b, "controllers")
  <2>1. b = Button({"controllers"}, {<<"controllers">>}, Stay)
    BY ButtonsAre DEF CreateController, All
  <2>2. Pages["controllers"].reads = {<<"controllers">>}
    BY ReadsAre
  <2> QED
    BY <2>1, <2>2, <1>2, <1>5, OneQueryCovers
<1>8. ASSUME NEW b \in Pages["controller"].buttons
      PROVE  ButtonOK(b, "controller")
  <2>1. b = Button({"controllers"}, {<<"controllers">>}, "controllers")
    BY ButtonsAre
  <2>2. Pages["controllers"].reads = {<<"controllers">>}
    BY ReadsAre
  <2>3. "controllers" \in Names
    BY DEF Names
  <2> QED
    BY <2>1, <2>2, <2>3, <1>2, <1>4, <1>6, OneQueryCovers
<1>9. ASSUME NEW b \in Pages["devices"].buttons
      PROVE  ButtonOK(b, "devices")
  <2>1. b = CreateDevice
    BY ButtonsAre
  <2> QED
    BY <2>1, <1>5, DevicesCovers DEF CreateDevice
<1>10. ASSUME NEW v \in Views
       PROVE  ButtonOK(DeleteDevice, v)
  <2>1. "devices" \in Names
    BY DEF Names
  <2> QED
    BY <2>1, <1>4, <1>6, DevicesCovers DEF DeleteDevice
<1>11. ASSUME NEW b \in Simulate
       PROVE  ButtonOK(b, "device")
  <2>1. Pages["device"].reads = {<<"devices", "one">>}
    BY ReadsAre
  <2>2. Covers(Button({}, {}, Stay), "device")
    BY <2>1, NothingCovers
  <2>3. Covers(Button({"devices"}, {<<"devices", "one">>}, Stay), "device")
    BY <2>1, <1>3, OneQueryCovers
  <2> QED
    BY <2>2, <2>3, <1>5 DEF Simulate, One
<1>12. ASSUME NEW b \in Pages["device"].buttons
       PROVE  ButtonOK(b, "device")
  BY <1>10, <1>11, ButtonsAre, "device" \in Names, <1>6 DEF Names
<1>13. ASSUME NEW b \in Pages["deviceFlows"].buttons
       PROVE  ButtonOK(b, "deviceFlows")
  BY <1>10, ButtonsAre, "deviceFlows" \in Names, <1>6 DEF Names
<1>14. ASSUME NEW b \in Pages["fleets"].buttons
       PROVE  ButtonOK(b, "fleets")
  <2>1. "fleets" \in Names
    BY DEF Names
  <2>2. ASSUME NEW next \in {Stay, "fleets"}
        PROVE  ButtonOK(CreateFleet(next), "fleets")
    BY <2>1, <1>4, <1>5, <1>6, FleetsCovers DEF CreateFleet, All
  <2> QED
    BY <2>2, ButtonsAre
<1>15. ASSUME NEW b \in Pages["fleet"].buttons
       PROVE  ButtonOK(b, "fleet")
  <2>1. "fleets" \in Names
    BY DEF Names
  <2>2. ButtonOK(Button({"fleets"}, {<<"fleets", "one">>}, Stay), "fleet")
    BY <1>5, FleetCovers
  <2>3. ButtonOK(Button({"fleets"}, {<<"fleets">>, <<"devices">>}, "fleets"), "fleet")
    BY <2>1, <1>4, <1>6, FleetsCovers
  <2> QED
    BY <2>2, <2>3, ButtonsAre
<1>16. ASSUME NEW b \in Pages["blueprints"].buttons
       PROVE  ButtonOK(b, "blueprints")
  <2>1. b.writes = {} /\ b.next = Stay
    BY ButtonsAre DEF Refresh
  <2> QED
    BY <2>1 DEF ButtonOK, Covers, Kempt
<1>17. ASSUME NEW b \in Pages["profiles"].buttons
       PROVE  ButtonOK(b, "profiles")
  <2>1. b = Button({"profiles"}, {<<"traffic", "profiles">>}, Stay)
    BY ButtonsAre DEF ProfileEditor, Profiles
  <2>2. Pages["profiles"].reads = {<<"traffic", "profiles">>}
    BY ReadsAre
  <2> QED
    BY <2>1, <2>2, <1>3, <1>5, OneQueryCovers
<1>18. ASSUME NEW b \in Pages["flows"].buttons
       PROVE  ButtonOK(b, "flows")
  BY <1>5, FlowsCovers, ButtonsAre
<1>19. ASSUME NEW b \in Pages["firmware"].buttons
       PROVE  ButtonOK(b, "firmware")
  <2>1. b = Button({"firmware"}, {<<"firmware">>}, Stay)
    BY ButtonsAre
  <2>2. Pages["firmware"].reads = {<<"firmware">>}
    BY ReadsAre
  <2> QED
    BY <2>1, <2>2, <1>2, <1>5, OneQueryCovers
<1>20. ASSUME NEW b \in Pages["tokens"].buttons
       PROVE  ButtonOK(b, "tokens")
  <2>1. b = Button({"tokens"}, {<<"tokens">>}, Stay)
    BY ButtonsAre DEF CreateToken, All
  <2>2. Pages["tokens"].reads = {<<"tokens">>}
    BY ReadsAre
  <2> QED
    BY <2>1, <2>2, <1>2, <1>5, OneQueryCovers
<1>21. ASSUME NEW b \in Pages["inspector"].buttons
       PROVE  ButtonOK(b, "inspector")
  <2>1. Pages["inspector"].reads = {<<"devices", "one">>}
    BY ReadsAre
  <2> QED
    BY <2>1, <1>5, NothingCovers, ButtonsAre
<1> QED
  BY ViewsAre, <1>1, <1>7, <1>8, <1>9, <1>12, <1>13, <1>14, <1>15, <1>16, <1>17, <1>18, <1>19,
     <1>20, <1>21, Zenon DEF Names

-----------------------------------------------------------------------------
\* A click: at is the version its write made, none before the backend served it.
Pressed == [button : AllButtons, at : Nat, told : BOOLEAN, here : BOOLEAN]
\* A click knows a version the table has had, and its page has that button.
ClicksOK ==
  /\ clicks \subseteq Pressed
  /\ \A c \in clicks : c.at <= db /\ (c.here => c.button \in Pages[view].buttons)
\* What the operator may expect is shown, or its fetch was asked for after the write.
DebtsPaid ==
  \A k \in Keys : /\ fetch[k] = Idle => cache[k] >= owed[k]
                  /\ fetch[k] > None => fetch[k] >= owed[k]
\* The inductive invariant: OwnWritesShown alone forgets answers in flight.
ConsoleInv == ConsoleTypeOK /\ ClicksOK /\ DebtsPaid

\* What the fetch of a query may be.
Answers == {Idle, Asked} \cup 1 .. db
\* A query of f is left as it is, or asked for again.
AskedMore(f, g) == \A k \in Keys : g[k] = f[k] \/ g[k] = Asked

\* Mounting asks for the idle queries among those mounted, and leaves the others.
LEMMA MountAsks ==
  ASSUME NEW V, Asked \in V, NEW f \in [Keys -> V], NEW keys
  PROVE  /\ Mount(f, keys) \in [Keys -> V] /\ AskedMore(f, Mount(f, keys))
         /\ \A k \in Keys : k \in keys => Mount(f, keys)[k] # Idle
  BY DEF Mount, AskedMore, Idle, Asked

\* Invalidating asks again for the mounted queries that have an answer to show.
LEMMA ClearAsks ==
  ASSUME NEW V, Asked \in V, fetch \in [Keys -> V], NEW prefixes
  PROVE  /\ Clear(prefixes) \in [Keys -> V] /\ AskedMore(fetch, Clear(prefixes))
         /\ \A k \in Under(prefixes) \cap Keys : cache[k] # None => Clear(prefixes)[k] = Asked
  BY DEF Clear, AskedMore

\* Each operation of the socket keeps its type; the buffer never outgrows its size.
LEMMA ChannelSafe ==
  ASSUME ChannelTypeOK,
         \/ \E live \in BOOLEAN : Mounts(live)
         \/ \E good \in BOOLEAN : Accept(good)
         \/ Reconnects \/ Greet \/ Published \/ Drop \/ Retry \/ Deliver \/ UNCHANGED chan
  PROVE  ChannelTypeOK'
<1> USE BufferAssumption DEF ChannelTypeOK, SockState
<1>1. ASSUME NEW live \in BOOLEAN, Mounts(live)
      PROVE  ChannelTypeOK'
  BY <1>1 DEF Mounts
<1>2. ASSUME NEW good \in BOOLEAN, Accept(good)
      PROVE  ChannelTypeOK'
  BY <1>2 DEF Accept
<1>3. CASE Reconnects \/ Greet \/ Published
  BY <1>3 DEF Reconnects, Greet, Published
<1>4. CASE Drop \/ Retry \/ UNCHANGED chan
  BY <1>4 DEF Drop, Retry, chan
<1>5. CASE Deliver
  <2>1. Kept(got) \in 0 .. BufferSize /\ Kept(got) >= got
    BY DEF Kept
  <2> QED
    BY <1>5, <2>1 DEF Deliver, Noticed
<1> QED
  BY <1>1, <1>2, <1>3, <1>4, <1>5

\* The rows only gain versions, and what is in the cache and owed stays.
Kindly ==
  /\ UNCHANGED <<table, cache, owed>> /\ db' \in Nat /\ db' >= db
  /\ fetch' \in [Keys -> Answers] /\ AskedMore(fetch, fetch')

\* A kind step keeps the types.
LEMMA KindTypes ==
  ASSUME ConsoleInv, Kindly, ChannelTypeOK', token' \in {"good", "expired"},
         view' \in Views, palette' \in BOOLEAN
  PROVE  ConsoleTypeOK'
<1>1. Keys' = Keys
  BY DEF Kindly, Keys
<1>2. db' \in Nat \ {0} /\ None .. db \subseteq None .. db' /\ Answers \subseteq Answers'
  BY DEF ConsoleInv, ConsoleTypeOK, Kindly, Answers, None
<1>3. cache' \in [Keys -> None .. db'] /\ owed' \in [Keys -> None .. db']
  BY <1>2 DEF ConsoleInv, ConsoleTypeOK, Kindly
<1>4. fetch' \in [Keys -> Answers']
  BY <1>2 DEF Kindly
<1>5. table' \in AllTables
  BY DEF ConsoleInv, ConsoleTypeOK, Kindly
<1> QED
  BY <1>1, <1>2, <1>3, <1>4, <1>5 DEF ConsoleTypeOK, Answers

\* A kind step owes nothing new, and a fetch asked for again pays what is owed.
LEMMA KindDebts ==
  ASSUME ConsoleInv, Kindly
  PROVE  DebtsPaid'
<1>1. Keys' = Keys
  BY DEF Kindly, Keys
<1>2. ASSUME NEW k \in Keys
      PROVE  /\ fetch'[k] = Idle => cache'[k] >= owed'[k]
             /\ fetch'[k] > None => fetch'[k] >= owed'[k]
  BY DEF ConsoleInv, DebtsPaid, Kindly, AskedMore, Asked, Idle, None
<1> QED
  BY <1>1, <1>2 DEF DebtsPaid

\* Waiting clicks stay sound while the page stays and the version grows.
LEMMA ClicksKept ==
  ASSUME ConsoleInv, UNCHANGED <<clicks, view>>, db' \in Nat, db' >= db
  PROVE  ClicksOK'
<1>1. ASSUME NEW c \in clicks
      PROVE  c.at <= db' /\ (c.here => c.button \in Pages[view].buttons)
  BY DEF ConsoleInv, ConsoleTypeOK, ClicksOK, Pressed
<1> QED
  BY <1>1 DEF ConsoleInv, ClicksOK

\* Clicks whose page is gone stay sound.
LEMMA ClicksLeft ==
  ASSUME ConsoleInv, NEW some \in SUBSET clicks, clicks' = Left(some), UNCHANGED db
  PROVE  ClicksOK'
<1>1. ASSUME NEW d \in Left(some)
      PROVE  d \in Pressed /\ d.at <= db /\ ~d.here
  <2>1. PICK c \in some : d = [c EXCEPT !.here = FALSE]
    BY <1>1 DEF Left
  <2> QED
    BY <2>1 DEF ConsoleInv, ClicksOK, Pressed
<1> QED
  BY <1>1 DEF ClicksOK

\* A step that the pages, the queries and the answers to writes sleep through.
LEMMA Untroubled ==
  ASSUME ConsoleInv, ChannelTypeOK', UNCHANGED <<table, view, palette, cache, fetch, clicks, owed>>,
         token' \in {"good", "expired"}, db' \in Nat, db' >= db
  PROVE  ConsoleInv'
<1>1. Kindly
  BY DEF Kindly, AskedMore, ConsoleInv, ConsoleTypeOK, Answers
<1>2. view' \in Views /\ palette' \in BOOLEAN
  BY DEF ConsoleInv, ConsoleTypeOK
<1> QED
  BY <1>1, <1>2, KindTypes, KindDebts, ClicksKept DEF ConsoleInv

\* What the steps use of the type invariant.
LEMMA QueriesTyped ==
  ASSUME ConsoleInv
  PROVE  fetch \in [Keys -> Answers] /\ Asked \in Answers /\ db \in Nat
  BY DEF ConsoleInv, ConsoleTypeOK, Answers

\* A page that shows itself, or another one, with the fetches f.
LEMMA ShowsAsks ==
  ASSUME NEW v \in Views, NEW f \in [Keys -> Answers], Asked \in Answers,
         ChannelTypeOK, AskedMore(fetch, f), Shows(v, f)
  PROVE  /\ view' = v /\ ChannelTypeOK'
         /\ fetch' \in [Keys -> Answers] /\ AskedMore(f, fetch') /\ AskedMore(fetch, fetch')
         /\ v # view => \A k \in Keys : k \in Pages[v].reads => fetch'[k] # Idle
<1>1. view' = v
  BY DEF Shows
<1>2. CASE v = view
  BY <1>2, ChannelSafe DEF Shows, AskedMore
<1>3. CASE v # view
  <2>1. fetch' = Mount(f, ReadsOf(v, palette')) /\ Mounts(Pages[v].notices # {})
    BY <1>3 DEF Shows
  <2>2. ChannelTypeOK'
    BY <2>1, ChannelSafe
  <2>3. \A k \in Keys : k \in Pages[v].reads => k \in ReadsOf(v, palette')
    BY DEF ReadsOf
  <2> QED
    BY <1>1, <2>1, <2>2, <2>3, MountAsks DEF AskedMore
<1> QED
  BY <1>1, <1>2, <1>3

\* A change of page mounts the queries of the new page (react-router, App.tsx).
LEMMA VisitStep ==
  ASSUME ConsoleInv, Visit
  PROVE  ConsoleInv'
<1>1. PICK v \in Views \ {view} : Shows(v, fetch)
  BY DEF Visit
<1>2. /\ view' = v /\ ChannelTypeOK'
      /\ fetch' \in [Keys -> Answers] /\ AskedMore(fetch, fetch')
  BY <1>1, QueriesTyped, ShowsAsks DEF ConsoleInv, ConsoleTypeOK, AskedMore
<1>3. Kindly
  BY <1>2, QueriesTyped DEF Visit, Kindly
<1>4. ConsoleTypeOK'
  BY <1>2, <1>3, KindTypes DEF Visit, ConsoleInv, ConsoleTypeOK
<1>5. ClicksOK'
  BY ClicksLeft DEF Visit
<1> QED
  BY <1>3, <1>4, <1>5, KindDebts DEF ConsoleInv

\* The command palette mounts its queries while it is open (CommandPalette.tsx).
LEMMA PaletteStep ==
  ASSUME ConsoleInv, OpenPalette \/ ClosePalette
  PROVE  ConsoleInv'
<1>1. UNCHANGED <<chan, table, db, token, view, cache, clicks, owed>> /\ palette' \in BOOLEAN
  BY DEF OpenPalette, ClosePalette
<1>2. fetch' = fetch \/ fetch' = Mount(fetch, ReadsOf(view, TRUE))
  BY DEF OpenPalette, ClosePalette
<1>3. fetch' \in [Keys -> Answers] /\ AskedMore(fetch, fetch')
  <2>1. AskedMore(fetch, fetch)
    BY DEF AskedMore
  <2>2. CASE fetch' = fetch
    BY <2>1, <2>2, QueriesTyped
  <2>3. CASE fetch' = Mount(fetch, ReadsOf(view, TRUE))
    BY <2>3, QueriesTyped, MountAsks
  <2> QED
    BY <1>2, <2>2, <2>3
<1>4. Kindly
  BY <1>1, <1>3, QueriesTyped DEF Kindly
<1>5. ChannelTypeOK'
  BY <1>1, ChannelSafe DEF ConsoleInv, ConsoleTypeOK
<1>6. ConsoleTypeOK'
  BY <1>1, <1>4, <1>5, KindTypes DEF ConsoleInv, ConsoleTypeOK
<1> QED
  BY <1>1, <1>4, <1>6, QueriesTyped, KindDebts, ClicksKept DEF ConsoleInv

\* A fetch brings what the table holds when it is answered.
LEMMA FetchStep ==
  ASSUME ConsoleInv, NEW k \in Keys, Poll(k) \/ Read(k) \/ Arrive(k)
  PROVE  ConsoleInv'
<1>1. UNCHANGED <<chan, table, db, token, view, palette, clicks, owed>>
  BY DEF Poll, Read, Arrive
<1>2. ChannelTypeOK'
  BY <1>1, ChannelSafe DEF ConsoleInv, ConsoleTypeOK
<1>3. ClicksOK'
  BY <1>1, QueriesTyped, ClicksKept
<1>4. Keys' = Keys
  BY <1>1 DEF Keys
<1>5. /\ fetch \in [Keys -> Answers] /\ db \in Nat \ {0}
      /\ cache \in [Keys -> None .. db] /\ owed \in [Keys -> None .. db]
  BY QueriesTyped DEF ConsoleInv, ConsoleTypeOK
<1>6. CASE Poll(k)
  <2>1. Kindly /\ UNCHANGED <<view, token, palette>>
    BY <1>1, <1>5, <1>6, QueriesTyped DEF Poll, Kindly, AskedMore
  <2> QED
    BY <1>2, <1>3, <2>1, KindTypes, KindDebts DEF ConsoleInv, ConsoleTypeOK
<1>7. CASE Read(k)
  <2>1. cache' = cache /\ fetch' = [fetch EXCEPT ![k] = db]
    BY <1>7 DEF Read
  <2>2. fetch' \in [Keys -> Answers]
    BY <1>5, <2>1 DEF Answers
  <2>3. ConsoleTypeOK'
    BY <1>1, <1>2, <1>4, <2>1, <2>2 DEF ConsoleInv, ConsoleTypeOK, Answers
  <2>4. ASSUME NEW q \in Keys
        PROVE  /\ fetch'[q] = Idle => cache'[q] >= owed'[q]
               /\ fetch'[q] > None => fetch'[q] >= owed'[q]
    BY <1>1, <1>5, <2>1 DEF ConsoleInv, DebtsPaid, Idle, None
  <2> QED
    BY <1>3, <1>4, <2>3, <2>4 DEF ConsoleInv, DebtsPaid
<1>8. CASE Arrive(k)
  <2>1. /\ fetch[k] > None /\ cache' = [cache EXCEPT ![k] = fetch[k]]
        /\ fetch' = [fetch EXCEPT ![k] = Idle]
    BY <1>8 DEF Arrive
  <2>2. fetch' \in [Keys -> Answers]
    BY <1>5, <2>1 DEF Answers
  <2>3. fetch[k] \in None .. db
    BY <1>5, <2>1 DEF Answers, None, Idle, Asked
  <2>4. cache' \in [Keys -> None .. db]
    BY <1>5, <2>1, <2>3
  <2>5. ConsoleTypeOK'
    BY <1>1, <1>2, <1>4, <2>2, <2>4 DEF ConsoleInv, ConsoleTypeOK, Answers
  <2>6. ASSUME NEW q \in Keys
        PROVE  /\ fetch'[q] = Idle => cache'[q] >= owed'[q]
               /\ fetch'[q] > None => fetch'[q] >= owed'[q]
    BY <1>1, <1>5, <2>1 DEF ConsoleInv, DebtsPaid, Idle, None
  <2> QED
    BY <1>3, <1>4, <2>5, <2>6 DEF ConsoleInv, DebtsPaid
<1> QED
  BY <1>6, <1>7, <1>8

\* An access token expires, or is renewed (client.ts), and the socket reopens.
LEMMA SessionStep ==
  ASSUME ConsoleInv, Renew \/ Expire
  PROVE  ConsoleInv'
<1>1. /\ UNCHANGED <<table, db, view, palette, cache, fetch, clicks, owed>>
      /\ token' \in {"good", "expired"} /\ (Reconnects \/ UNCHANGED chan)
  BY DEF Renew, Expire
<1>2. ChannelTypeOK'
  BY <1>1, ChannelSafe DEF ConsoleInv, ConsoleTypeOK
<1> QED
  BY <1>1, <1>2, QueriesTyped, Untroubled

\* The writes of others, and their publications, only make the rows newer.
LEMMA ElsewhereStep ==
  ASSUME ConsoleInv, Elsewhere \/ TellElsewhere
  PROVE  ConsoleInv'
<1>1. /\ UNCHANGED <<table, token, view, palette, cache, fetch, clicks, owed>>
      /\ db' = db \/ db' = db + 1
      /\ Published \/ UNCHANGED chan
  BY DEF Elsewhere, TellElsewhere
<1>2. ChannelTypeOK'
  BY <1>1, ChannelSafe DEF ConsoleInv, ConsoleTypeOK
<1>3. token' \in {"good", "expired"}
  BY <1>1 DEF ConsoleInv, ConsoleTypeOK
<1> QED
  BY <1>1, <1>2, <1>3, QueriesTyped, Untroubled

\* The socket, and the invalidations its messages bring (ws.ts, FleetDetailPage.tsx).
LEMMA ChannelStep ==
  ASSUME ConsoleInv, ChannelNext
  PROVE  ConsoleInv'
<1>1. /\ UNCHANGED Rest
      /\ \/ \E good \in BOOLEAN : Accept(good)
         \/ Greet \/ Retry \/ Drop \/ Deliver
  BY DEF ChannelNext, Opened, Connected, Greeted, Retried, Dropped, Delivered
<1>2. ChannelTypeOK'
  BY <1>1, ChannelSafe DEF ConsoleInv, ConsoleTypeOK
<1>3. fetch' = fetch \/ fetch' = Clear(Pages[view].notices)
  BY DEF ChannelNext, Opened, Connected, Greeted, Retried, Dropped, Delivered
<1>4. fetch' \in [Keys -> Answers] /\ AskedMore(fetch, fetch')
  BY <1>3, QueriesTyped, ClearAsks DEF AskedMore
<1>5. Kindly
  BY <1>1, <1>4, QueriesTyped DEF Rest, Kindly
<1>6. ConsoleTypeOK'
  BY <1>1, <1>2, <1>5, KindTypes DEF Rest, ConsoleInv, ConsoleTypeOK
<1> QED
  BY <1>1, <1>5, <1>6, QueriesTyped, KindDebts, ClicksKept DEF Rest, ConsoleInv

\* A click belongs to the page it is made on.
LEMMA ClickStep ==
  ASSUME ConsoleInv, Click
  PROVE  ConsoleInv'
<1>1. PICK b \in Pages[view].buttons :
        clicks' = clicks \cup {[button |-> b, at |-> None, told |-> FALSE, here |-> TRUE]}
  BY DEF Click
<1>2. UNCHANGED <<chan, table, db, token, view, palette, cache, fetch, owed>>
  BY DEF Click
<1>3. b \in AllButtons
  BY DEF AllButtons, ConsoleInv, ConsoleTypeOK
<1>4. ClicksOK'
  <2> DEFINE c == [button |-> b, at |-> None, told |-> FALSE, here |-> TRUE]
  <2>1. c \in Pressed
    BY <1>3 DEF Pressed, None
  <2>2. c.at = None /\ c.button = b
    OBVIOUS
  <2> HIDE DEF c
  <2>3. c.at <= db
    BY <2>2, QueriesTyped DEF None
  <2>4. clicks' = clicks \cup {c}
    BY <1>1 DEF c
  <2> QED
    BY <1>2, <2>1, <2>2, <2>3, <2>4 DEF ConsoleInv, ClicksOK
<1>5. ChannelTypeOK'
  BY <1>2, ChannelSafe DEF ConsoleInv, ConsoleTypeOK
<1>6. Kindly
  BY <1>2, QueriesTyped DEF Kindly, AskedMore
<1> QED
  BY <1>2, <1>4, <1>5, <1>6, KindTypes, KindDebts DEF ConsoleInv, ConsoleTypeOK

\* The backend writes and publishes: the click learns the version it has made.
LEMMA ServeStep ==
  ASSUME ConsoleInv, NEW c \in clicks, Serve(c) \/ Tell(c)
  PROVE  ConsoleInv'
<1>1. /\ UNCHANGED <<table, token, view, palette, cache, fetch, owed>>
      /\ Published \/ UNCHANGED chan
  BY DEF Serve, Tell
<1>2. db' \in Nat /\ db' >= db
  BY QueriesTyped DEF Serve, Tell
<1>3. c \in Pressed
  BY DEF ConsoleInv, ClicksOK
<1>4. \/ clicks' = clicks \ {c}
      \/ clicks' = (clicks \ {c}) \cup {[c EXCEPT !.at = db', !.told = ~Told(c.button.writes)]}
      \/ clicks' = (clicks \ {c}) \cup {[c EXCEPT !.told = TRUE]}
  BY DEF Serve, Tell
<1>5. ASSUME NEW d \in clicks'
      PROVE  /\ d \in Pressed /\ d.at <= db'
             /\ d.here => d.button \in Pages[view].buttons
  <2>1. \A e \in clicks : /\ e \in Pressed /\ e.at <= db' /\ e.at \in Nat
                          /\ e.here => e.button \in Pages[view].buttons
    BY <1>2, QueriesTyped DEF ConsoleInv, ClicksOK, Pressed
  <2>2. Told(c.button.writes) \in BOOLEAN
    BY DEF Told
  <2>3. CASE d \in clicks
    BY <2>1, <2>3
  <2>4. CASE d = [c EXCEPT !.at = db', !.told = ~Told(c.button.writes)]
    <3> DEFINE told == ~Told(c.button.writes)
    <3>1. told \in BOOLEAN /\ d = [c EXCEPT !.at = db', !.told = told]
      BY <2>2, <2>4
    <3> HIDE DEF told
    <3>2. d \in Pressed
      BY <1>2, <1>3, <3>1 DEF Pressed
    <3>3. d.at = db' /\ d.here = c.here /\ d.button = c.button
      BY <1>3, <3>1 DEF Pressed
    <3> QED
      BY <1>2, <2>1, <3>2, <3>3
  <2>5. CASE d = [c EXCEPT !.told = TRUE]
    BY <1>3, <2>1, <2>5 DEF Pressed
  <2> QED
    BY <1>4, <2>3, <2>4, <2>5
<1>6. ClicksOK'
  BY <1>1, <1>5 DEF ClicksOK
<1>7. ChannelTypeOK'
  BY <1>1, ChannelSafe DEF ConsoleInv, ConsoleTypeOK
<1>8. Kindly
  BY <1>1, <1>2, QueriesTyped DEF Kindly, AskedMore
<1> QED
  BY <1>1, <1>6, <1>7, <1>8, KindTypes, KindDebts DEF ConsoleInv, ConsoleTypeOK

\* The page after the button asks again for whatever the button has written.
LEMMA AnswerShows ==
  ASSUME ConsoleInv, NEW c \in clicks, Answer(c)
  PROVE  /\ view' \in Views /\ ChannelTypeOK'
         /\ fetch' \in [Keys -> Answers] /\ AskedMore(fetch, fetch')
         /\ \A k \in Keys :
              (/\ c.here \/ c.button.next # Stay
               /\ table \in c.button.writes /\ k \in Pages[view'].reads
               /\ cache[k] # None /\ (k \in Mounted \/ fetch[k] < None))
              => fetch'[k] = Asked
<1> DEFINE b == c.button
           v == IF b.next = Stay THEN view ELSE b.next
           f == Clear(b.clears)
<1>1. /\ view \in Views /\ c \in Pressed
      /\ c.here => b \in Pages[view].buttons
  BY DEF ConsoleInv, ConsoleTypeOK, ClicksOK
<1>2. PICK w \in Views : b \in Pages[w].buttons
  BY <1>1 DEF Pressed, AllButtons
<1>3. ButtonOK(b, w) /\ (c.here => ButtonOK(b, view))
  BY <1>1, <1>2, ButtonsClear
<1>4. v \in Views /\ (c.here \/ b.next # Stay => Covers(b, v))
  BY <1>1, <1>3 DEF ButtonOK
<1>5. Shows(v, f)
  BY DEF Answer
<1>6. /\ f \in [Keys -> Answers] /\ AskedMore(fetch, f)
      /\ \A k \in Under(b.clears) \cap Keys : cache[k] # None => f[k] = Asked
  BY QueriesTyped, ClearAsks
<1>7. ChannelTypeOK /\ Asked \in Answers
  BY QueriesTyped DEF ConsoleInv, ConsoleTypeOK
<1> HIDE DEF f, v
<1>8. /\ view' = v /\ ChannelTypeOK'
      /\ fetch' \in [Keys -> Answers] /\ AskedMore(f, fetch') /\ AskedMore(fetch, fetch')
      /\ v # view => \A k \in Keys : k \in Pages[v].reads => fetch'[k] # Idle
  BY <1>4, <1>5, <1>6, <1>7, ShowsAsks
<1>9. ASSUME NEW k \in Keys, c.here \/ b.next # Stay, table \in b.writes,
             k \in Pages[v].reads, cache[k] # None, k \in Mounted \/ fetch[k] < None
      PROVE  fetch'[k] = Asked
  <2>1. CASE k \in Mounted
    <3>1. table \in TablesOf(k)
      BY DEF Keys, KeysOf, ConsoleInv, ConsoleTypeOK
    <3>2. \E p \in b.clears : IsPrefix(p, k)
      BY <1>4, <1>9, <3>1 DEF Covers, Kempt
    <3>3. f[k] = Asked
      BY <1>6, <1>9, <2>1, <3>2 DEF Under
    <3> QED
      BY <1>8, <3>3 DEF AskedMore
  <2>2. CASE k \notin Mounted
    <3>1. v # view
      BY <1>9, <2>2 DEF Mounted, ReadsOf
    <3>2. fetch'[k] # Idle
      BY <1>8, <1>9, <3>1
    <3>3. fetch[k] \in {Idle, Asked}
      BY <1>9, <2>2, QueriesTyped DEF Answers, None
    <3> QED
      BY <1>8, <3>2, <3>3 DEF AskedMore
  <2> QED
    BY <2>1, <2>2
<1> QED
  BY <1>4, <1>8, <1>9

\* The success handler pays the debt it makes.
LEMMA AnswerStep ==
  ASSUME ConsoleInv, NEW c \in clicks, Answer(c)
  PROVE  ConsoleInv'
<1> DEFINE Due(k) == /\ c.here \/ c.button.next # Stay
                     /\ table \in c.button.writes /\ k \in Pages[view'].reads
                     /\ cache[k] # None /\ (k \in Mounted \/ fetch[k] < None)
<1>1. /\ view' \in Views /\ ChannelTypeOK'
      /\ fetch' \in [Keys -> Answers] /\ AskedMore(fetch, fetch')
      /\ \A k \in Keys : Due(k) => fetch'[k] = Asked
  BY AnswerShows
<1>2. /\ UNCHANGED <<table, db, token, palette, cache>>
      /\ owed' = [k \in Keys |-> IF Due(k) THEN c.at ELSE owed[k]]
      /\ clicks' = IF view' = view THEN clicks \ {c} ELSE Left(clicks \ {c})
  BY DEF Answer
<1> HIDE DEF Due
<1>3. c.at \in None .. db
  BY QueriesTyped DEF ConsoleInv, ClicksOK, Pressed, None
<1>4. Keys' = Keys
  BY <1>2 DEF Keys
<1>5. owed' \in [Keys -> None .. db]
  BY <1>2, <1>3 DEF ConsoleInv, ConsoleTypeOK
<1>6. ConsoleTypeOK'
  BY <1>1, <1>2, <1>4, <1>5 DEF ConsoleInv, ConsoleTypeOK, Answers
<1>7. ClicksOK'
  <2>1. CASE view' = view
    BY <1>2, <2>1 DEF ConsoleInv, ClicksOK
  <2>2. CASE view' # view
    BY <1>2, <2>2, ClicksLeft
  <2> QED
    BY <2>1, <2>2
<1>8. ASSUME NEW k \in Keys
      PROVE  /\ fetch'[k] = Idle => cache'[k] >= owed'[k]
             /\ fetch'[k] > None => fetch'[k] >= owed'[k]
  <2>1. CASE Due(k)
    BY <1>1, <2>1 DEF Asked, Idle, None
  <2>2. CASE ~Due(k)
    BY <1>1, <1>2, <2>2 DEF AskedMore, ConsoleInv, DebtsPaid, Asked, Idle, None
  <2> QED
    BY <2>1, <2>2
<1>9. DebtsPaid'
  BY <1>4, <1>8 DEF DebtsPaid
<1> QED
  BY <1>6, <1>7, <1>9 DEF ConsoleInv

\* A tab that has just opened owes nothing.
THEOREM ConsoleInvInit == Init => ConsoleInv
<1> SUFFICES ASSUME Init
             PROVE  ConsoleInv
  OBVIOUS
<1>1. fetch = Mount([k \in Keys |-> Idle], ReadsOf(view, FALSE))
  BY DEF Init
<1>2. db = 1 /\ cache = [k \in Keys |-> None] /\ owed = [k \in Keys |-> None] /\ clicks = {}
  BY DEF Init
<1>3. Answers = {Idle, Asked, 1}
  BY <1>2 DEF Answers
<1>4. [k \in Keys |-> Idle] \in [Keys -> {Idle, Asked}]
  OBVIOUS
<1>5. fetch \in [Keys -> {Idle, Asked}]
  BY <1>1, <1>4, MountAsks
<1>6. ChannelTypeOK
  BY BufferAssumption DEF Init, ChannelTypeOK, SockState
<1>7. ConsoleTypeOK
  <2>1. fetch \in [Keys -> {Idle, Asked} \cup 1 .. db]
    BY <1>5
  <2>2. cache \in [Keys -> None .. db] /\ owed \in [Keys -> None .. db]
    BY <1>2 DEF None
  <2>3. table \in AllTables /\ token \in {"good", "expired"} /\ view \in Views
    BY DEF Init
  <2>4. palette \in BOOLEAN
    BY DEF Init
  <2> QED
    BY <1>2, <1>6, <2>1, <2>2, <2>3, <2>4 DEF ConsoleTypeOK
<1>8. DebtsPaid
  BY <1>2, <1>5 DEF DebtsPaid, None, Idle, Asked
<1> QED
  BY <1>2, <1>7, <1>8 DEF ConsoleInv, ClicksOK

\* No step of the tab, the backend or anybody else breaks the invariant.
THEOREM ConsoleInvStep == ConsoleInv /\ [Next]_vars => ConsoleInv'
<1> SUFFICES ASSUME ConsoleInv, [Next]_vars
             PROVE  ConsoleInv'
  OBVIOUS
<1>1. CASE UNCHANGED vars
  <2>1. /\ UNCHANGED <<chan, table, db, token, view, palette, cache, fetch, clicks, owed>>
    BY <1>1 DEF vars
  <2>2. ChannelTypeOK' /\ token' \in {"good", "expired"}
    BY <2>1, ChannelSafe DEF ConsoleInv, ConsoleTypeOK
  <2> QED
    BY <2>1, <2>2, QueriesTyped, Untroubled
<1>2. CASE Next
  BY <1>2, VisitStep, PaletteStep, FetchStep, SessionStep, ClickStep, ServeStep, AnswerStep,
     ElsewhereStep, ChannelStep DEF Next
<1> QED
  BY <1>1, <1>2

\* The inductive invariant of the console holds throughout.
THEOREM ConsoleInvHolds == Spec => []ConsoleInv
<1> QED
  BY ConsoleInvInit, ConsoleInvStep, PTL DEF Spec

\* The state of the tab is typed; no query shows, fetches or is owed a version
\* that the table has not had (queries and buffer of client.ts and ws.ts).
THEOREM ConsoleTypeCorrect == Spec => []ConsoleTypeOK
<1>1. ConsoleInv => ConsoleTypeOK
  BY DEF ConsoleInv
<1> QED
  BY <1>1, ConsoleInvHolds, PTL

\* A page at rest shows what its own button has written, whatever number of
\* clicks, polls, events, changes of page and writes of others there is
\* (the onSuccess handlers of the pages, e.g. FleetDetailPage.tsx 74-89).
THEOREM OwnWritesAreShown == Spec => []OwnWritesShown
<1>1. ConsoleInv => OwnWritesShown
  BY DEF ConsoleInv, DebtsPaid, OwnWritesShown
<1> QED
  BY <1>1, ConsoleInvHolds, PTL

-----------------------------------------------------------------------------
(* The fleet page does not poll.  What it knows of the writes of others, and  *)
(* of what its socket missed, is in the messages that are still to come.      *)

\* The conditions on which the fleet page keeps up.
Due == view = "fleet" /\ token = "good" /\ ~marred /\ got < BufferSize
\* Each query shows the newest version, is asked for, or has it on its way.
Caught ==
  \A k \in Pages["fleet"].notices \cap Keys : cache[k] = db \/ fetch[k] \in {Asked, db}
\* A socket is refused for its token only; a live page has one.
SockOK ==
  /\ sock = "refused" => token = "expired"
  /\ Pages[view].notices # {} => sock # "idle"
\* An answer on its way is never older than what it replaces.
AnswersNewer == \A k \in Keys : fetch[k] > None => fetch[k] >= cache[k]
\* The inductive invariant of the fleet page.
NewsInv == untold \in Nat /\ AnswersNewer /\ SockOK /\ (Due => NewsComing \/ Caught)

\* The channel of the fleet page is about the tables whose writes are published.
LEMMA NoticesAre ==
  ASSUME ConsoleInv
  PROVE  /\ Pages["fleet"].notices # {}
         /\ Pages["fleet"].notices \subseteq Pages["fleet"].reads
         /\ \A k \in Pages["fleet"].notices : IsPrefix(k, k)
         /\ \A k \in Pages["fleet"].notices \cap Keys : table \in {"fleets", "devices"}
<1>1. Pages["fleet"].notices = {<<"fleets", "one">>, <<"devices">>}
  BY PageParts DEF Pages, FleetDetailPage, All, One
<1>2. /\ TablesOf(<<"fleets", "one">>) = {"fleets", "devices"}
      /\ TablesOf(<<"devices">>) = {"devices"}
  <2>1. "devices" \notin {"fleets", "traffic"}
    OBVIOUS
  <2> QED
    BY <2>1, TablesAre, Zenon
<1>3. ASSUME NEW k \in {<<"fleets", "one">>, <<"devices">>}, k \in Keys
      PROVE  table \in {"fleets", "devices"}
  <2>1. table \in TablesOf(k)
    BY <1>3 DEF Keys, KeysOf, ConsoleInv, ConsoleTypeOK
  <2>2. CASE k = <<"fleets", "one">>
    BY <1>2, <2>1, <2>2, Zenon
  <2>3. CASE k = <<"devices">>
    BY <1>2, <2>1, <2>3, Zenon
  <2> QED
    BY <1>3, <2>2, <2>3, Zenon
<1>4. Pages["fleet"].notices \subseteq Pages["fleet"].reads
  BY <1>1, ReadsAre
<1>5. \A k \in Pages["fleet"].notices : IsPrefix(k, k)
  <2>1. IsPrefix(<<"fleets", "one">>, <<"fleets", "one">>) /\ IsPrefix(<<"devices">>, <<"devices">>)
    BY KeyPrefixes
  <2> QED
    BY <1>1, <2>1, Zenon
<1> QED
  BY <1>1, <1>3, <1>4, <1>5

\* Asking again takes no newer answer away.
LEMMA AskingKeeps ==
  ASSUME ConsoleInv, UNCHANGED <<table, cache>>, AskedMore(fetch, fetch')
  PROVE  /\ AnswersNewer => AnswersNewer'
         /\ db' = db /\ Caught => Caught'
<1>1. Keys' = Keys
  BY DEF Keys
<1>2. AnswersNewer => AnswersNewer'
  BY <1>1 DEF AnswersNewer, AskedMore, Asked, None
<1>3. ASSUME db' = db, Caught
      PROVE  Caught'
  <2>1. ASSUME NEW k \in Pages["fleet"].notices \cap Keys
        PROVE  cache[k] = db \/ fetch'[k] \in {Asked, db}
    BY <1>3, <2>1 DEF Caught, AskedMore
  <2> QED
    BY <1>1, <1>3, <2>1 DEF Caught
<1> QED
  BY <1>2, <1>3

\* A step that writes nothing, and leaves the page waiting for what it waited for.
LEMMA NewsKept ==
  ASSUME ConsoleInv, NewsInv, UNCHANGED <<table, db, cache, untold>>, AskedMore(fetch, fetch'),
         SockOK',
         Due' => NewsComing' \/ (Due /\ ~NewsComing)
  PROVE  NewsInv'
  BY AskingKeeps, Zenon DEF NewsInv

\* A write that is still to be published is news to come; others do not
\* concern the page.
LEMMA WritesAreNews ==
  ASSUME ConsoleInv, NewsInv, UNCHANGED <<chan, table, token, view, cache, fetch, marred>>,
         untold' \in Nat, db' = db \/ db' = db + 1,
         table \in {"fleets", "devices"} => NewsComing' \/ (db' = db /\ ~NewsComing)
  PROVE  NewsInv'
<1>1. AskedMore(fetch, fetch') /\ Keys' = Keys
  BY DEF AskedMore, Keys
<1>2. AnswersNewer'
  BY <1>1, AskingKeeps DEF NewsInv
<1>3. SockOK' /\ Due' = Due
  BY DEF chan, NewsInv, SockOK, Due
<1>4. CASE table \in {"fleets", "devices"}
  BY <1>1, <1>2, <1>3, <1>4, AskingKeeps DEF NewsInv
<1>5. CASE table \notin {"fleets", "devices"}
  <2>1. Pages["fleet"].notices \cap Keys = {}
    BY <1>5, NoticesAre
  <2>2. Caught'
    BY <1>1, <2>1 DEF Caught
  <2> QED
    BY <1>2, <1>3, <2>2 DEF NewsInv
<1> QED
  BY <1>4, <1>5

\* A mounted page opens its socket; one that stays keeps it.
LEMMA NewsShown ==
  ASSUME ConsoleInv, NewsInv, NEW v \in Views, NEW f, Shows(v, f),
         UNCHANGED <<table, db, token, cache, untold>>, AskedMore(fetch, fetch'),
         view' = view => ~NewsComing \/ NewsComing'
  PROVE  NewsInv'
<1>1. view' = v
  BY DEF Shows
<1>2. CASE v = view
  <2>1. UNCHANGED <<chan, marred, view>>
    BY <1>1, <1>2 DEF Shows
  <2>2. SockOK' /\ Due' = Due
    BY <2>1 DEF chan, NewsInv, SockOK, Due
  <2> QED
    BY <1>1, <1>2, <2>2, NewsKept
<1>3. CASE v # view
  <2>1. Mounts(Pages[v].notices # {})
    BY <1>3 DEF Shows
  <2>2. SockOK'
    BY <1>1, <2>1 DEF Mounts, SockOK
  <2>3. Due' => NewsComing'
    BY <1>1, <2>1, NoticesAre DEF Mounts, Due, NewsComing
  <2> QED
    BY <2>2, <2>3, NewsKept
<1> QED
  BY <1>2, <1>3

\* The tab: links, the palette, the tokens, a button (App.tsx, CommandPalette.tsx, client.ts).
LEMMA NewsTabStep ==
  ASSUME ConsoleInv, NewsInv, Visit \/ OpenPalette \/ ClosePalette \/ Renew \/ Expire \/ Click
  PROVE  NewsInv'
<1>1. CASE Visit
  <2>1. PICK v \in Views \ {view} : Shows(v, fetch)
    BY <1>1 DEF Visit
  <2>2. AskedMore(fetch, fetch') /\ view' # view
    BY <2>1, QueriesTyped, ShowsAsks DEF ConsoleInv, ConsoleTypeOK, AskedMore
  <2> QED
    BY <1>1, <2>1, <2>2, NewsShown DEF Visit
<1>2. CASE OpenPalette \/ ClosePalette
  <2>1. /\ UNCHANGED <<chan, table, db, token, view, cache, clicks, untold, marred>>
        /\ fetch' = fetch \/ fetch' = Mount(fetch, ReadsOf(view, TRUE))
    BY <1>2 DEF OpenPalette, ClosePalette
  <2>2. AskedMore(fetch, fetch')
    <3>1. AskedMore(fetch, fetch)
      BY DEF AskedMore
    <3>2. AskedMore(fetch, Mount(fetch, ReadsOf(view, TRUE)))
      BY QueriesTyped, MountAsks
    <3> QED
      BY <2>1, <3>1, <3>2, Zenon
  <2>3. SockOK' /\ Due' = Due /\ NewsComing' = NewsComing
    BY <2>1 DEF chan, NewsInv, SockOK, Due, NewsComing
  <2> QED
    BY <2>1, <2>2, <2>3, NewsKept
<1>3. CASE Renew
  <2>1. /\ Reconnects /\ UNCHANGED <<table, db, view, cache, fetch, clicks, untold, marred>>
    BY <1>3 DEF Renew
  <2>2. SockOK'
    BY <2>1 DEF Reconnects, NewsInv, SockOK
  <2>3. Due' => NewsComing'
    BY <2>1, NoticesAre DEF Reconnects, NewsInv, SockOK, Due, NewsComing
  <2> QED
    BY <2>1, <2>2, <2>3, NewsKept DEF AskedMore
<1>4. CASE Expire
  <2>1. SockOK' /\ ~Due'
    BY <1>4 DEF Expire, chan, NewsInv, SockOK, Due
  <2> QED
    BY <1>4, <2>1, NewsKept DEF Expire, AskedMore
<1>5. CASE Click
  <2>1. PICK b \in Pages[view].buttons :
          clicks' = clicks \cup {[button |-> b, at |-> None, told |-> FALSE, here |-> TRUE]}
    BY <1>5 DEF Click
  <2>2. UNCHANGED <<chan, table, db, token, view, cache, fetch, untold, marred>>
    BY <1>5 DEF Click
  <2>3. SockOK' /\ Due' = Due
    BY <2>2 DEF chan, NewsInv, SockOK, Due
  <2>4. NewsComing => NewsComing'
    BY <2>1, <2>2 DEF NewsComing, chan
  <2> QED
    BY <2>2, <2>3, <2>4, NewsKept DEF AskedMore
<1> QED
  BY <1>1, <1>2, <1>3, <1>4, <1>5

\* The fetches: an answer carries the version of the moment it is given.
LEMMA NewsFetchStep ==
  ASSUME ConsoleInv, NewsInv, NEW k \in Keys, Poll(k) \/ Read(k) \/ Arrive(k)
  PROVE  NewsInv'
<1>1. UNCHANGED <<chan, table, db, token, view, clicks, untold, marred>>
  BY DEF Poll, Read, Arrive
<1>2. SockOK' /\ Due' = Due /\ NewsComing' = NewsComing /\ Keys' = Keys
  BY <1>1 DEF chan, NewsInv, SockOK, Due, NewsComing, Keys
<1>3. /\ fetch \in [Keys -> Answers] /\ cache \in [Keys -> None .. db] /\ db \in Nat \ {0}
  BY QueriesTyped DEF ConsoleInv, ConsoleTypeOK
<1>4. CASE Poll(k)
  <2>1. AskedMore(fetch, fetch') /\ UNCHANGED cache
    BY <1>3, <1>4 DEF Poll, AskedMore
  <2> QED
    BY <1>1, <1>2, <2>1, NewsKept
<1>5. CASE Read(k)
  <2>1. UNCHANGED cache /\ fetch' = [fetch EXCEPT ![k] = db]
    BY <1>5 DEF Read
  <2>2. AnswersNewer'
    BY <1>2, <1>3, <2>1 DEF NewsInv, AnswersNewer, None
  <2>3. Caught => Caught'
    BY <1>1, <1>2, <1>3, <2>1 DEF Caught
  <2> QED
    BY <1>1, <1>2, <2>2, <2>3 DEF NewsInv
<1>6. CASE Arrive(k)
  <2>1. /\ fetch[k] > None /\ cache' = [cache EXCEPT ![k] = fetch[k]]
        /\ fetch' = [fetch EXCEPT ![k] = Idle]
    BY <1>6 DEF Arrive
  <2>2. AnswersNewer'
    BY <1>2, <1>3, <2>1 DEF NewsInv, AnswersNewer, None, Idle
  <2>3. ASSUME Caught
        PROVE  Caught'
    <3>1. fetch[k] \in 1 .. db /\ cache[k] \in None .. db /\ fetch[k] >= cache[k]
      BY <1>3, <2>1 DEF Answers, None, Idle, Asked, NewsInv, AnswersNewer
    <3>2. ASSUME NEW q \in Pages["fleet"].notices \cap Keys
          PROVE  cache'[q] = db \/ fetch'[q] \in {Asked, db}
      <4>1. cache[q] = db \/ fetch[q] \in {Asked, db}
        BY <2>3 DEF Caught
      <4>2. CASE q = k
        BY <1>3, <2>1, <3>1, <4>1, <4>2 DEF Asked, None
      <4>3. CASE q # k
        BY <1>3, <2>1, <4>1, <4>3
      <4> QED
        BY <4>2, <4>3
    <3> QED
      BY <1>1, <1>2, <3>2 DEF Caught
  <2> QED
    BY <1>1, <1>2, <2>2, <2>3 DEF NewsInv
<1> QED
  BY <1>4, <1>5, <1>6

\* A publication reaches the page, or the socket that opens later greets it.
LEMMA PublishedIsNews ==
  ASSUME ConsoleInv, NewsInv, Published, UNCHANGED <<table, db, token, view, cache, fetch, marred>>,
         untold' \in Nat
  PROVE  NewsInv'
<1>1. UNCHANGED <<sock, got>>
  BY DEF Published
<1>2. SockOK' /\ Due' = Due
  BY <1>1 DEF NewsInv, SockOK, Due
<1>3. Due' => NewsComing'
  <2>1. ASSUME Due
        PROVE  sock \in {"connecting", "joined", "waiting", "open"}
    BY <2>1, NoticesAre DEF Due, NewsInv, SockOK, ConsoleInv, ConsoleTypeOK, ChannelTypeOK, SockState
  <2>2. sock \in {"joined", "open"} => inbox' > 0
    BY DEF Published, ConsoleInv, ConsoleTypeOK, ChannelTypeOK
  <2> QED
    BY <1>1, <1>2, <2>1, <2>2 DEF NewsComing
<1>4. AnswersNewer'
  BY AskingKeeps DEF NewsInv, AskedMore
<1> QED
  BY <1>2, <1>3, <1>4 DEF NewsInv

\* Writes and their publications (signals.py, events.py), the tab's own and others'.
LEMMA NewsWriteStep ==
  ASSUME ConsoleInv, NewsInv,
         (\E c \in clicks : Serve(c) \/ Tell(c)) \/ Elsewhere \/ TellElsewhere
  PROVE  NewsInv'
<1>1. untold \in Nat
  BY DEF NewsInv
<1>2. ASSUME NEW c \in clicks, Serve(c)
      PROVE  NewsInv'
  <2>1. UNCHANGED <<chan, table, token, view, cache, fetch, untold, marred>>
    BY <1>2 DEF Serve
  <2>2. c \in Pressed /\ c.at = None /\ db \in Nat
    BY <1>2, QueriesTyped DEF Serve, ConsoleInv, ClicksOK
  <2>3. ASSUME NEW d \in clicks, d.at # None, ~d.told
        PROVE  d \in clicks'
    BY <1>2, <2>2, <2>3 DEF Serve
  <2>4. NewsComing => NewsComing'
    BY <2>1, <2>3 DEF NewsComing, chan
  <2>5. CASE db' = db
    BY <1>1, <2>1, <2>4, <2>5, WritesAreNews
  <2>6. CASE db' # db
    <3>1. /\ db' = db + 1 /\ table \in c.button.writes
          /\ clicks' = (clicks \ {c}) \cup {[c EXCEPT !.at = db', !.told = ~Told(c.button.writes)]}
      BY <1>2, <2>6 DEF Serve
    <3>2. ASSUME table \in {"fleets", "devices"}
          PROVE  NewsComing'
      <4>1. Told(c.button.writes)
        BY <3>1, <3>2 DEF Told
      <4>2. PICK d \in clicks' : d = [c EXCEPT !.at = db', !.told = ~Told(c.button.writes)]
        BY <3>1
      <4>3. d.at = db + 1 /\ ~d.told
        BY <2>2, <3>1, <4>1, <4>2 DEF Pressed
      <4> QED
        BY <2>2, <4>3 DEF NewsComing, None
    <3> QED
      BY <1>1, <2>1, <3>1, <3>2, WritesAreNews
  <2> QED
    BY <2>5, <2>6
<1>3. ASSUME NEW c \in clicks, Tell(c)
      PROVE  NewsInv'
  <2>1. UNCHANGED <<table, db, token, view, cache, fetch, untold>>
    BY <1>3 DEF Tell
  <2>2. CASE Published /\ UNCHANGED marred
    BY <1>1, <2>1, <2>2, PublishedIsNews
  <2>3. CASE UNCHANGED chan /\ marred' = TRUE
    <3>1. SockOK' /\ ~Due'
      BY <2>1, <2>3 DEF chan, NewsInv, SockOK, Due
    <3> QED
      BY <2>1, <3>1, NewsKept DEF AskedMore
  <2> QED
    BY <1>3, <2>2, <2>3 DEF Tell
<1>4. CASE Elsewhere
  <2>1. /\ UNCHANGED <<chan, table, token, view, cache, fetch, marred>>
        /\ db' = db + 1 /\ untold' = IF Told({table}) THEN untold + 1 ELSE untold
    BY <1>4 DEF Elsewhere
  <2>2. untold' \in Nat
    BY <1>1, <2>1
  <2>3. ASSUME table \in {"fleets", "devices"}
        PROVE  NewsComing'
    <3>1. Told({table})
      BY <2>3 DEF Told
    <3> QED
      BY <1>1, <2>1, <3>1 DEF NewsComing
  <2> QED
    BY <2>1, <2>2, <2>3, WritesAreNews
<1>5. CASE TellElsewhere
  <2>1. /\ UNCHANGED <<table, db, token, view, cache, fetch, clicks>>
        /\ untold > 0 /\ untold' = untold - 1
    BY <1>5 DEF TellElsewhere
  <2>2. untold' \in Nat
    BY <1>1, <2>1
  <2>3. CASE Published /\ UNCHANGED marred
    BY <2>1, <2>2, <2>3, PublishedIsNews
  <2>4. CASE UNCHANGED chan /\ marred' = TRUE
    <3>1. SockOK' /\ ~Due'
      BY <2>1, <2>4 DEF chan, NewsInv, SockOK, Due
    <3>2. AnswersNewer'
      BY <2>1, AskingKeeps DEF NewsInv, AskedMore
    <3> QED
      BY <2>2, <3>1, <3>2 DEF NewsInv
  <2> QED
    BY <1>5, <2>3, <2>4 DEF TellElsewhere
<1> QED
  BY <1>2, <1>3, <1>4, <1>5

\* The success handler takes no news away: its own write is published by then.
LEMMA NewsAnswerStep ==
  ASSUME ConsoleInv, NewsInv, NEW c \in clicks, Answer(c)
  PROVE  NewsInv'
<1> DEFINE v == IF c.button.next = Stay THEN view ELSE c.button.next
           f == Clear(c.button.clears)
<1>1. AskedMore(fetch, fetch') /\ view' \in Views
  BY AnswerShows
<1>2. /\ Shows(v, f) /\ c.told /\ UNCHANGED <<table, db, token, cache, untold>>
      /\ clicks' = IF view' = view THEN clicks \ {c} ELSE Left(clicks \ {c})
  BY DEF Answer
<1> HIDE DEF v, f
<1>3. view' = v
  BY <1>2 DEF Shows
<1>4. ASSUME view' = view, NewsComing
      PROVE  NewsComing'
  <2>1. UNCHANGED chan /\ clicks' = clicks \ {c}
    BY <1>2, <1>3, <1>4 DEF Shows
  <2> QED
    BY <1>2, <1>4, <2>1 DEF NewsComing, chan
<1> QED
  BY <1>1, <1>2, <1>3, <1>4, NewsShown

\* The socket: each opening greets, each message that the page notices makes it
\* ask, and a refusal is for the token (ws.ts, consumers.py, FleetDetailPage.tsx).
LEMMA NewsChannelStep ==
  ASSUME ConsoleInv, NewsInv, ChannelNext
  PROVE  NewsInv'
<1>1. UNCHANGED <<table, db, token, view, cache, clicks, untold>>
  BY DEF ChannelNext, Opened, Connected, Greeted, Retried, Dropped, Delivered, Rest
<1>2. inbox \in Nat /\ got \in 0 .. BufferSize /\ seen \in 0 .. got
  BY DEF ConsoleInv, ConsoleTypeOK, ChannelTypeOK
<1>3. CASE Opened \/ Dropped
  <2>1. UNCHANGED <<fetch, marred>>
    BY <1>3 DEF Opened, Connected, Greeted, Retried, Dropped
  <2>2. \/ Accept(token = "good") \/ Greet \/ Retry \/ Drop
    BY <1>3 DEF Opened, Connected, Greeted, Retried, Dropped
  <2>3. token = "good" \/ token = "expired"
    BY DEF ConsoleInv, ConsoleTypeOK
  <2>4. SockOK'
    BY <1>1, <2>2, <2>3 DEF Accept, Greet, Retry, Drop, NewsInv, SockOK
  <2>5. Due' => NewsComing'
    BY <1>1, <1>2, <2>2 DEF Accept, Greet, Retry, Drop, Due, NewsComing
  <2> QED
    BY <1>1, <2>1, <2>4, <2>5, NewsKept DEF AskedMore
<1>4. CASE Delivered
  <2>1. Deliver /\ SockOK'
    BY <1>1, <1>4 DEF Delivered, Deliver, NewsInv, SockOK
  <2>2. AskedMore(fetch, fetch') /\ AnswersNewer'
    <3>1. AskedMore(fetch, fetch')
      BY <1>4, QueriesTyped, ClearAsks DEF Delivered, AskedMore
    <3> QED
      BY <1>1, <3>1, AskingKeeps DEF NewsInv
  <2>3. ASSUME Due'
        PROVE  Caught'
    <3>1. got' = Kept(got) /\ got' < BufferSize /\ view = "fleet" /\ ~marred'
      BY <1>1, <2>1, <2>3 DEF Deliver, Due
    <3>2. Noticed
      BY <1>2, <3>1, BufferAssumption DEF Kept, Noticed
    <3>3. /\ fetch' = Clear(Pages["fleet"].notices)
          /\ ~Marring(Pages["fleet"].notices)
      BY <1>4, <3>1, <3>2 DEF Delivered
    <3>4. ASSUME NEW k \in Pages["fleet"].notices \cap Keys
          PROVE  fetch'[k] = Asked
      <4>1. k \in Under(Pages["fleet"].notices)
        <5>1. k \in Mounted
          BY <3>1, NoticesAre DEF Mounted, ReadsOf
        <5>2. IsPrefix(k, k)
          BY NoticesAre
        <5> QED
          BY <5>1, <5>2 DEF Under
      <4>2. cache[k] # None \/ ~(fetch[k] > None)
        BY <3>3, <4>1 DEF Marring
      <4>3. fetch[k] \in Answers
        BY QueriesTyped
      <4> QED
        BY <3>3, <4>1, <4>2, <4>3, QueriesTyped DEF Clear, Answers, None, Idle, Asked
    <3> QED
      BY <1>1, <3>4 DEF Caught, Keys
  <2> QED
    BY <1>1, <2>1, <2>2, <2>3 DEF NewsInv
<1> QED
  BY <1>3, <1>4 DEF ChannelNext

\* No step of anybody leaves the fleet page behind.
LEMMA NewsInvStep ==
  ASSUME ConsoleInv, NewsInv, [Next]_vars
  PROVE  NewsInv'
<1>1. CASE UNCHANGED vars
  <2>1. UNCHANGED <<chan, table, db, token, view, cache, fetch, clicks, untold, marred>>
    BY <1>1 DEF vars
  <2>2. SockOK' /\ Due' = Due /\ NewsComing' = NewsComing
    BY <2>1 DEF chan, NewsInv, SockOK, Due, NewsComing
  <2> QED
    BY <2>1, <2>2, NewsKept DEF AskedMore
<1>2. CASE Next
  BY <1>2, NewsTabStep, NewsFetchStep, NewsWriteStep, NewsAnswerStep, NewsChannelStep DEF Next
<1> QED
  BY <1>1, <1>2

\* What the fleet page of the code promises without polling: while it lags
\* behind there is news coming, or it is asking (FleetDetailPage.tsx 57-66,
\* ws.ts 40-95, consumers.py), however many sockets drop, tokens expire, events
\* come and answers overtake one another.
THEOREM FleetPageIsNeverForgotten == Spec => []FleetPageExpectsNews
<1>1. Init => NewsInv
  <2> SUFFICES ASSUME Init
               PROVE  NewsInv
    OBVIOUS
  <2>1. ConsoleInv
    BY ConsoleInvInit
  <2>2. sock = (IF Pages[view].notices # {} THEN "connecting" ELSE "idle") /\ untold = 0
    BY DEF Init
  <2>3. SockOK /\ (Due => NewsComing)
    BY <2>1, <2>2, NoticesAre DEF SockOK, Due, NewsComing
  <2>4. AnswersNewer
    <3>1. \A k \in Keys : cache[k] = None
      BY DEF Init
    <3>2. fetch \in [Keys -> Answers] /\ Answers \subseteq Int
      BY <2>1, QueriesTyped DEF Answers, Idle, Asked
    <3>3. \A k \in Keys : fetch[k] \in Int
      BY <3>2
    <3> QED
      BY <3>1, <3>3 DEF AnswersNewer, None
  <2> QED
    BY <2>2, <2>3, <2>4 DEF NewsInv
<1>2. ConsoleInv /\ NewsInv /\ [Next]_vars => NewsInv'
  BY NewsInvStep
<1>3. Spec => []NewsInv
  BY <1>1, <1>2, ConsoleInvHolds, PTL DEF Spec
<1>4. NewsInv => FleetPageExpectsNews
  BY DEF NewsInv, Due, Caught, FleetPageExpectsNews, FleetPageLate
<1> QED
  BY <1>3, <1>4, PTL
==============================================================================
