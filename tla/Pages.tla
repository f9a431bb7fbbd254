-------------------------------- MODULE Pages --------------------------------
(* What each page of the console asks for and does: the queries it mounts,  *)
(* those it polls, those its live channel invalidates, and its buttons with *)
(* the tables the backend writes, the queries the success handler           *)
(* invalidates and the page it goes on to.  A query key is its sequence of  *)
(* names; "one" stands for the id of the row shown.                         *)
EXTENDS Sequences

Stay == "stay"
All(resource) == <<resource>>
One(resource) == <<resource, "one">>

\* Every request that writes adds a row to the audit log.
Button(writes, clears, next) ==
  [writes |-> writes \cup {"audit"}, clears |-> clears, next |-> next]
Page(reads, polls, notices, buttons) ==
  [reads |-> reads, polls |-> polls, notices |-> notices, buttons |-> buttons]

\* The tables the answer to a query is built from: fleets come with the states
\* of their devices.
TablesOf(key) ==
  CASE key[1] = "fleets" -> {"fleets", "devices"}
    [] key[1] = "traffic" -> {key[2]}
    [] OTHER -> {key[1]}

-----------------------------------------------------------------------------
Health == All("health")
Recent == <<"audit", "recent">>
Entries == <<"audit", "entries">>
Profiles == <<"traffic", "profiles">>
Flows(of) == <<"traffic", "flows", of>>
FlowStats(of) == <<"traffic", "flows", "stats", of>>

\* Mutant: the dashboard relies on its channel alone.
DashboardUnpolled ==
  Page({Health, All("controllers"), All("devices"), All("fleets"), FlowStats("cluster"),
        Recent},
       {Health, FlowStats("cluster"), Recent},
       {All("fleets"), All("devices"), Recent}, {})
DashboardPage ==
  Page({Health, All("controllers"), All("devices"), All("fleets"), FlowStats("cluster"),
        Recent},
       {Health, All("devices"), All("fleets"), FlowStats("cluster"), Recent},
       {All("fleets"), All("devices"), Recent}, {})

CreateController == Button({"controllers"}, {All("controllers")}, Stay)
ControllersPage == Page({All("controllers")}, {}, {}, {CreateController})

\* The delete button goes back to the list.
ControllerDetailPage ==
  Page({One("controllers"), All("devices"), All("fleets")},
       {One("controllers"), All("devices"), All("fleets")}, {},
       {Button({"controllers"}, {All("controllers")}, "controllers")})

CreateDevice == Button({"devices"}, {All("devices")}, Stay)
DevicesPage ==
  Page({All("devices"), All("controllers"), All("templates")}, {All("devices")}, {},
       {CreateDevice})

\* The simulate tab: force inform, which writes no row; disconnect and
\* reconnect.
DeleteDevice == Button({"devices"}, {All("devices")}, "devices")
Simulate == {Button({}, {}, Stay), Button({"devices"}, {One("devices")}, Stay)}
DeviceDetailPage ==
  Page({One("devices")}, {One("devices")}, {}, {DeleteDevice} \cup Simulate)

\* The flows tab adds two queries and takes the simulate tab's place.
DeviceFlowsTab ==
  LET queries == {One("devices"), Flows("byDevice"), FlowStats("device")}
  IN Page(queries, queries, {}, {DeleteDevice})

\* The create form goes back to /fleets when it was opened for a blueprint.
CreateFleet(next) == Button({"fleets", "devices"}, {All("fleets"), All("devices")}, next)
FleetsPage ==
  Page({All("fleets"), All("controllers"), All("blueprints"), All("templates")}, {}, {},
       {CreateFleet(Stay), CreateFleet("fleets")})

\* Pause and resume; tear down.
FleetDetailPage ==
  Page({One("fleets"), All("devices"), All("controllers"), One("blueprints")}, {},
       {One("fleets"), All("devices")},
       {Button({"fleets"}, {One("fleets")}, Stay),
        Button({"fleets"}, {All("fleets"), All("devices")}, "fleets")})

\* The refresh button writes nothing.
Refresh == [writes |-> {}, clears |-> {All("blueprints")}, next |-> Stay]
BlueprintsPage == Page({All("blueprints")}, {}, {}, {Refresh})

TopologyPage ==
  Page({All("controllers"), All("fleets"), All("devices")},
       {All("controllers"), All("fleets"), All("devices")}, {}, {})

\* Save and delete.
ProfileEditor == Button({"profiles"}, {Profiles}, Stay)
ProfilesTab == Page({Profiles}, {}, {}, {ProfileEditor})

\* Sample flows; the key is the prefix of both queries.
FlowsTab ==
  Page({All("fleets"), Flows("fleet"), FlowStats("fleet")},
       {Flows("fleet"), FlowStats("fleet")}, {},
       {Button({"flows"}, {<<"traffic", "flows">>}, Stay)})

\* Upload and delete.
FirmwarePage ==
  Page({All("firmware")}, {All("firmware")}, {}, {Button({"firmware"}, {All("firmware")}, Stay)})

AuditPage == Page({Entries}, {}, {}, {})

\* Create and revoke.
CreateToken == Button({"tokens"}, {All("tokens")}, Stay)
TokensPage == Page({All("tokens")}, {}, {}, {CreateToken})

\* Its channel is left out: nothing publishes to it.
InformInspectorPage == Page({One("devices")}, {}, {}, {Button({}, {}, Stay)})

\* The command palette is mounted over any page and asks while it is open.
PaletteReads == {All("fleets"), All("blueprints"), All("devices"), All("controllers")}

Pages ==
  [dashboard |-> DashboardPage, controllers |-> ControllersPage,
   controller |-> ControllerDetailPage, devices |-> DevicesPage,
   device |-> DeviceDetailPage, deviceFlows |-> DeviceFlowsTab,
   fleets |-> FleetsPage, fleet |-> FleetDetailPage, blueprints |-> BlueprintsPage,
   topology |-> TopologyPage, profiles |-> ProfilesTab, flows |-> FlowsTab,
   firmware |-> FirmwarePage, audit |-> AuditPage, tokens |-> TokensPage,
   inspector |-> InformInspectorPage]
Views == DOMAIN Pages
AllKeys == UNION {Pages[v].reads : v \in Views} \cup PaletteReads
AllTables == UNION {TablesOf(k) : k \in AllKeys}
==============================================================================
