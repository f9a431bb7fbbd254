-------------------------- MODULE BlueprintEditor ---------------------------
(* One browser tab on the blueprint editor (BlueprintEditorPage.tsx with    *)
(* BlueprintCanvas.tsx), its requests, the query cache of the blueprints    *)
(* and the rows of the backend.  The draft survives a change of blueprint,  *)
(* validation answers and file reads arrive late, and a refetch replaces    *)
(* the draft.  One operator: nobody else writes blueprints.                 *)
EXTENDS BlueprintDoc

CONSTANTS Ids,        \* ids of blueprint rows, 1 .. n
          Home,       \* the source of the starter the editor opens with
          Typed,      \* texts that are typed into the YAML editor
          Files,      \* texts of imported files
          Starters,   \* the starters a new blueprint can start from
          Names,      \* blueprint names the operator types
          HostNames,  \* host names the operator types on the canvas
          MaxEdits,   \* bound on edits of the draft
          MaxOps,     \* bound on saves, clones, deletes, visits and lost answers
          MaxValidations,         \* bound on validate requests in flight
          MaxDevices  \* bound on the devices of a document

ASSUME HostNamesAssumption == HostNames \subseteq Host
ASSUME IdsAssumption == Ids \subseteq Nat \ {0} /\ 1 \in Ids
ASSUME BoundsAssumption == {MaxEdits, MaxOps} \subseteq Nat
ASSUME TextsAssumption == {Home} \cup Typed \cup Files \cup Starters \subseteq SourceText

VARIABLES id,          \* the blueprint of the route, or New, or Away
          name, source,           \* the draft
          timer,       \* the text the debounce timer will send, or NoText
          validating,  \* validate requests in flight, oldest first
          validation,  \* the text the shown validation is about, or NoText
          picked,      \* a file that is being read, and the draft it was picked under
          db,          \* the rows of the backend
          cache, fetch,           \* the query cache of each row
          pending,     \* saves, clones and deletes in flight, with a number each
                       \* and whether the component that sent them is mounted
          ghost,       \* history: the draft's origin, whether it was edited ...
          outrun,      \* history: rows whose last read was overtaken by a save
          budget       \* edits and operations left

draft == <<name, source, timer>>
checks == <<validating, validation, picked>>
vars == <<id, draft, checks, db, cache, fetch, pending, ghost, outrun, budget>>

New == 0
Away == -1
Sent == -2
Refusal == -3
NoText == [yaml |-> "none", devices |-> <<>>]
NoName == <<>>
NoRow == [name |-> NoName, source |-> Empty, version |-> 0]
Deleted == [NoRow EXCEPT !.version = -1]
Stored(row) == row.version > 0
NotPicked == [text |-> NoText, seen |-> NoText]

Doc == LET parsed == ParseBlueprintYaml(source)
       IN IF parsed = NoDoc THEN <<>> ELSE parsed

\* Whether some name is taken by another row.
Taken(n, b) == \E c \in Ids \ {b} : Stored(db[c]) /\ db[c].name = n

-----------------------------------------------------------------------------
(* Effects of the component.  *)

\* The effect on source re-arms the debounce timer; its cleanup clears it.
\* Mutant: a timer that runs is left alone.
SetSourceOnce(text) ==
  /\ source' = text
  /\ timer' = IF text = source \/ timer # NoText THEN timer
              ELSE IF text = Empty THEN NoText ELSE text
SetSource(text) ==
  /\ source' = text
  /\ timer' = IF text = source THEN timer
              ELSE IF text = Empty THEN NoText ELSE text

\* existing.data: the cached row of the blueprint on the route.
Existing(b, rows) == IF b \in Ids THEN rows[b] ELSE NoRow

\* The effect on existing.data replaces the draft when the data is another
\* object: another blueprint's, or another version of this one's.
Load(b, rows) ==
  LET row == Existing(b, rows)
  IN IF Stored(row) /\ <<b, row>> # <<id, Existing(id, cache)>>
     THEN /\ name' = row.name
          /\ SetSource(row.source)
          /\ ghost' = [ghost EXCEPT !.origin = b, !.named = FALSE, !.edited = FALSE]
     ELSE UNCHANGED <<draft, ghost>>

\* A query that gets its first observer is fetched, unless it is in flight.
Ask(f, b) ==
  IF b \in Ids /\ f[b].phase = "idle" THEN [f EXCEPT ![b].phase = "asked"] ELSE f
\* Invalidation restarts the query of the route; the library does not restart
\* a first load.
Invalidate(f) ==
  IF id \in Ids /\ Stored(cache[id])
  THEN [f EXCEPT ![id] = [phase |-> "asked", row |-> NoRow]] ELSE Ask(f, id)

\* The route changes to b, with the requests out.  Between two blueprints the
\* component stays mounted with its state; from another page it is new; between
\* /blueprints/new and /blueprints/$id the router may do either.  What a
\* component that is gone has sent is answered all the same.
GoTo(b, f, out) ==
  /\ id' = b
  /\ fetch' = IF b = id THEN f ELSE Ask(f, b)
  /\ \/ /\ id = b \/ b = Away \/ id # Away
        /\ Load(b, cache)
        /\ pending' = out
        /\ UNCHANGED checks
     \/ /\ id # b /\ b # Away
        /\ id = Away \/ New \in {id, b}
        /\ LET row == Existing(b, cache)
               known == Stored(row)
           IN /\ name' = IF known THEN row.name ELSE NoName
              /\ source' = IF known THEN row.source ELSE Home
              /\ timer' = source'
              /\ ghost' = [ghost EXCEPT !.origin = IF known THEN b ELSE New,
                                        !.named = FALSE, !.edited = FALSE, !.late = FALSE]
        /\ pending' = {[p EXCEPT !.mounted = FALSE] : p \in out}
        /\ validating' = <<>> /\ validation' = NoText /\ picked' = NotPicked

-----------------------------------------------------------------------------
Init ==
  /\ id \in {New, 1}
  /\ name = NoName /\ source = Home /\ timer = Home
  /\ validating = <<>> /\ validation = NoText /\ picked = NotPicked
  /\ db = [b \in Ids |-> IF b = 1 THEN [name |-> <<"home">>, source |-> Home, version |-> 1]
                         ELSE NoRow]
  /\ cache = [b \in Ids |-> NoRow]
  /\ fetch = Ask([b \in Ids |-> [phase |-> "idle", row |-> NoRow]], id)
  /\ pending = {}
  /\ ghost = [origin |-> New, named |-> FALSE, edited |-> FALSE, late |-> FALSE,
              lost |-> FALSE, crossed |-> FALSE, renamed |-> {}]
  /\ outrun = {}
  /\ budget = [edits |-> MaxEdits, ops |-> MaxOps]

Spend(what) == budget[what] > 0 /\ budget' = [budget EXCEPT ![what] = @ - 1]

(* Editing.  *)
Edit(text) ==
  /\ id # Away
  /\ SetSource(text)
  /\ ghost' = [ghost EXCEPT !.edited = TRUE]
  /\ UNCHANGED <<id, name, db, cache, fetch, pending, outrun>>

TypeSource ==
  /\ Spend("edits")
  /\ \E text \in Typed : Edit(text) /\ UNCHANGED checks

TypeName ==
  /\ id # Away /\ Spend("edits")
  /\ \E n \in Names : name' = n
  /\ ghost' = [ghost EXCEPT !.named = TRUE, !.edited = TRUE]
  /\ UNCHANGED <<id, source, timer, checks, db, cache, fetch, pending, outrun>>

\* The starter list of a new blueprint: a draft other than the home starter is
\* replaced after a confirmation only, which the operator may refuse.
PickStarter ==
  /\ id = New /\ Spend("edits")
  /\ \E text \in Starters : Edit(text) /\ UNCHANGED checks

PickFile ==
  /\ id # Away /\ picked = NotPicked /\ Spend("edits")
  /\ \E text \in Files : picked' = [text |-> text, seen |-> source]
  /\ UNCHANGED <<id, draft, validating, validation, db, cache, fetch, pending, ghost, outrun>>

\* The file has been read: the confirmation looks at the draft of the moment
\* the file was picked.
FileRead ==
  /\ picked # NotPicked
  /\ \/ Edit(picked.text)
     \/ /\ picked.seen \notin {Empty, Home}
        /\ UNCHANGED <<id, draft, db, cache, fetch, pending, ghost, outrun>>
  /\ picked' = NotPicked
  /\ UNCHANGED <<validating, validation, budget>>

-----------------------------------------------------------------------------
(* The canvas.  Every handler makes the next document out of the current     *)
(* one (docRef); these are the documents it can make.                       *)
Drawn(doc) == CanvasGraph(doc).nodes

\* A template is dropped on the pane or on a device's node, which may have the
\* name that is made up or the root's.
Dropped(doc) ==
  LET dropped(new, parent) ==
        AddDevice(doc, new, IF parent = new THEN NoHost ELSE parent)
  IN {dropped(NextHostname(family, doc), parent) :
        family \in Family, parent \in (Drawn(doc) \ {Root}) \cup Hosts(doc) \cup {NoHost}}

\* Mutant: the null of a clash is taken for a document.
RenamedUnchecked(doc) ==
  {RenameDevice(doc, old, new) : old \in Hosts(doc), new \in HostNames}
Renamed(doc) ==
  {RenameDevice(doc, old, new) : old \in Hosts(doc), new \in HostNames} \ {NoDoc}

Connected(doc) ==
  LET drawn == Drawn(doc)
  IN {SetUplink(doc, to, IF from = Root THEN NoHost ELSE from) :
        from \in drawn, to \in drawn \ {Root}}

\* The delete button of a node, of the context menu or of the toolbar; the
\* selection and the menu may still hold a name that is gone.
DeletedByHostname(doc) ==
  {RemoveDevice(doc, host) : host \in (Drawn(doc) \cup HostNames) \ {Root, NoHost}}

\* The delete key removes the selected nodes by the names of their devices.
DeletedByKey(doc) == {RemoveHosts(doc, hosts) : hosts \in SUBSET (Hosts(doc) \ {Root})}

CanvasNext(doc) ==
  Dropped(doc) \cup Renamed(doc) \cup Connected(doc) \cup DeletedByHostname(doc)
    \cup DeletedByKey(doc)

OnCanvasChange ==
  /\ Spend("edits")
  /\ \E next \in CanvasNext(Doc) \ {Doc} :
       Len(next) <= MaxDevices /\ Edit(StringifyBlueprint(next))
  /\ UNCHANGED checks

-----------------------------------------------------------------------------
(* Validation.  *)
Debounced ==
  /\ id # Away /\ timer # NoText /\ Len(validating) < MaxValidations
  /\ validating' = Append(validating, [text |-> timer, overtaken |-> FALSE])
  /\ timer' = NoText
  /\ UNCHANGED <<id, name, source, validation, picked, db, cache, fetch, pending, outrun,
                 ghost, budget>>

Without(seq, i) == SubSeq(seq, 1, i - 1) \o SubSeq(seq, i + 1, Len(seq))

\* Answers may arrive out of order; each one replaces the shown validation.
Validated ==
  \E i \in DOMAIN validating :
    /\ validation' = validating[i].text
    /\ validating' = Without([j \in DOMAIN validating |->
                        IF j < i THEN [validating[j] EXCEPT !.overtaken = TRUE]
                        ELSE validating[j]], i)
    /\ ghost' = [ghost EXCEPT !.late = validating[i].overtaken]
    /\ UNCHANGED <<id, draft, picked, db, cache, fetch, pending, budget, outrun>>

ValidateFails ==
  \E i \in DOMAIN validating :
    /\ Spend("ops")
    /\ validating' = Without(validating, i)
    /\ ghost' = [ghost EXCEPT !.lost = TRUE]
    /\ UNCHANGED <<id, draft, validation, picked, db, cache, fetch, pending, outrun>>

-----------------------------------------------------------------------------
(* Requests for the whole blueprint.  *)
Send(kind) ==
  /\ Spend("ops")
  /\ pending' = pending \cup
       {[no |-> budget.ops, mounted |-> TRUE, kind |-> kind, target |-> id, name |-> name,
         source |-> source, origin |-> ghost.origin, named |-> ghost.named,
         result |-> Sent]}
  /\ UNCHANGED <<id, draft, checks, db, cache, fetch, ghost, outrun>>

\* isPending belongs to the component: one that is new may send again.
IsPending(kind) == \E p \in pending : p.mounted /\ p.kind = kind
Save == id # Away /\ name # NoName /\ ~IsPending("save") /\ Send("save")
Clone == id \in Ids /\ ~IsPending("clone") /\ Send("clone")
Delete == id \in Ids /\ Send("delete")

Answered(p, result) == pending' = (pending \ {p}) \cup {[p EXCEPT !.result = result]}
Refused(p) == Answered(p, Refusal) /\ UNCHANGED <<db, ghost>>

UniqueCloneName(base) ==
  LET k == CHOOSE k \in 1 .. Cardinality(Ids) + 1 :
             ~Taken(Append(base, k), New) /\ \A j \in 1 .. k - 1 : Taken(Append(base, j), New)
  IN Append(base, k)

\* Mutant: names are not unique.
Accepts(p) == Valid(p.source) /\ p.name # NoName
\* The serializer: a valid source and a name no other row has.
Storable(p) == Valid(p.source) /\ p.name # NoName /\ ~Taken(p.name, p.target)

Insert(p, row) ==
  \E b \in Ids :
    /\ db[b] = NoRow /\ \A c \in Ids : c < b => db[c] # NoRow
    /\ db' = [db EXCEPT ![b] = row]
    /\ Answered(p, b)

\* Rows that have lost the name under which some draft may have loaded them.
Gone == {b \in Ids : ~Stored(db[b])} \cup ghost.renamed

ServerSaves(p) ==
  /\ p.kind = "save"
  /\ \/ /\ p.target = New /\ Storable(p)
        /\ Insert(p, [name |-> p.name, source |-> p.source, version |-> 1])
        /\ UNCHANGED ghost
     \/ /\ p.target \in Ids /\ Storable(p) /\ Stored(db[p.target])
        /\ db' = [db EXCEPT ![p.target] =
                   [name |-> p.name, source |-> p.source, version |-> @.version + 1]]
        /\ ghost' = [ghost EXCEPT
             !.crossed = @ \/ (~p.named /\ p.origin # p.target /\ p.origin \notin Gone),
             !.renamed = IF p.name = db[p.target].name THEN @ ELSE @ \cup {p.target}]
        /\ Answered(p, p.target)
     \/ ~(Storable(p) /\ (p.target \in Ids => Stored(db[p.target]))) /\ Refused(p)

ServerClones(p) ==
  /\ p.kind = "clone"
  /\ \/ /\ Stored(db[p.target])
        /\ Insert(p, [db[p.target] EXCEPT !.name = UniqueCloneName(@), !.version = 1])
        /\ UNCHANGED ghost
     \/ ~Stored(db[p.target]) /\ Refused(p)

\* A blueprint that fleets refer to is protected.
ServerDeletes(p) ==
  /\ p.kind = "delete"
  /\ \/ /\ Stored(db[p.target])
        /\ db' = [db EXCEPT ![p.target] = Deleted]
        /\ Answered(p, Away)
        /\ UNCHANGED ghost
     \/ Refused(p)

ServerStep ==
  \E p \in pending :
    /\ p.result = Sent
    /\ ServerSaves(p) \/ ServerClones(p) \/ ServerDeletes(p)
    /\ UNCHANGED <<id, draft, checks, cache, fetch, budget, outrun>>

\* A read older than the row that p saved, which is not restarted.
OutrunBy(p) ==
  {b \in Ids \cap {p.target} : fetch'[b].phase = "read" /\ fetch'[b].row # db[b]}

\* Mutant: the saved blueprint is not fetched again.
SucceedQuietly ==
  \E p \in pending :
    /\ p.result \notin {Sent, Refusal}
    /\ GoTo(p.result, fetch, pending \ {p})
    /\ outrun' = outrun \cup OutrunBy(p)
    /\ UNCHANGED <<db, cache, budget>>
\* onSuccess, also of a component that is gone: invalidate, then navigate.
Succeed ==
  \E p \in pending :
    /\ p.result \notin {Sent, Refusal}
    /\ GoTo(p.result, Invalidate(fetch), pending \ {p})
    /\ outrun' = outrun \cup OutrunBy(p)
    /\ UNCHANGED <<db, cache, budget>>

\* onError, or an answer that is lost.
Fail ==
  \E p \in pending :
    /\ IF p.result = Refusal THEN UNCHANGED budget ELSE Spend("ops")
    /\ pending' = pending \ {p}
    /\ ghost' = [ghost EXCEPT !.lost = @ \/ p.result # Refusal]
    /\ UNCHANGED <<id, draft, checks, db, cache, fetch, outrun>>

-----------------------------------------------------------------------------
(* The query of one blueprint.  *)
QueryRead ==
  \E b \in Ids :
    /\ fetch[b].phase = "asked"
    /\ fetch' = [fetch EXCEPT ![b] = [phase |-> "read", row |-> db[b]]]
    /\ outrun' = outrun \ {b}
    /\ UNCHANGED <<id, draft, checks, db, cache, pending, ghost, budget>>

\* A missing row is an error and leaves the cached data alone.
QueryArrives ==
  \E b \in Ids :
    /\ fetch[b].phase = "read"
    /\ fetch' = [fetch EXCEPT ![b] = [phase |-> "idle", row |-> NoRow]]
    /\ cache' = IF Stored(fetch[b].row) THEN [cache EXCEPT ![b] = fetch[b].row] ELSE cache
    /\ Load(id, cache')
    /\ UNCHANGED <<id, checks, db, pending, budget, outrun>>

\* A link, the command palette, or the list of blueprints.
Visit ==
  /\ Spend("ops")
  /\ \E b \in {c \in Ids : Stored(db[c])} \cup {New, Away} :
       b # id /\ GoTo(b, fetch, pending)
  /\ UNCHANGED <<db, cache, outrun>>

Next ==
  \/ TypeSource \/ TypeName \/ PickStarter \/ PickFile \/ FileRead \/ OnCanvasChange
  \/ Debounced \/ Validated \/ ValidateFails
  \/ Save \/ Clone \/ Delete \/ ServerStep \/ Succeed \/ Fail
  \/ QueryRead \/ QueryArrives \/ Visit

Spec == Init /\ [][Next]_vars

-----------------------------------------------------------------------------
Texts == {source, timer, validation, picked.text, picked.seen}

\* Every text has a document, every cached or fetched row is a row, and the
\* route is a page of the editor.
EditorTypeOK ==
  /\ id \in Ids \cup {New, Away}
  /\ \A t \in Texts : /\ t.yaml \in {"mapping", "empty", "malformed", "none"}
                     /\ \A i \in DOMAIN t.devices : t.devices[i].host \in Host \cup {NoHost}
  /\ \A b \in Ids : cache[b].version >= 0 /\ fetch[b].phase \in {"idle", "asked", "read"}
  /\ \A p \in pending : p.result \in Ids \cup {Sent, Refusal, Away}

\* (The properties of the canvas are looked at when a text has just come in,
\* before the debounce.)
NewText == timer = source
\* No number of a family is so high that one more is not a double.
Countable(doc) == \A h \in Hosts(doc) : h[1] \in Family => h[2] < Exact

\* The canvas mirrors the validator's hard rules on names and uplinks
\* (blueprintDoc.ts:133-137, 159): no operation on it, of any of its five
\* handlers, turns a document that the backend accepts into one that it
\* refuses, with three exceptions.  Nothing stops a rename to more than 64
\* characters; a dropped device repeats a name when the family has a number of
\* 2^53 or more; and renaming a device uplinked to itself leaves the uplink
\* behind.
CanvasKeepsDocSound ==
  NewText /\ SoundTree(Doc) /\ Countable(Doc) =>
    \A next \in CanvasNext(Doc) : Hosts(next) \cap TooLong = {} => SoundTree(next)

\* No two devices of one name; none called like the root's node.
UniqueNames == /\ \A i, j \in DOMAIN Doc :
                    Doc[i].host = Doc[j].host => i = j \/ Doc[i].host = NoHost
               /\ Root \notin Hosts(Doc)

\* Whatever text is loaded, typed or edited, unnamed devices and uplinks that
\* go round included, the canvas (BlueprintCanvas.tsx:182-249) draws edges
\* between drawn nodes only, but for uplinks to a name that every object
\* inherits (byHost is a plain object, line 188): such an edge has no start.
\* With unique names every device has a node of its own, apart from the others
\* and from the root, unless a device is called like the placeholder of an
\* unnamed one (line 222).
CanvasDrawsDoc ==
  LET graph == CanvasGraph(Doc)
      placeholders == {NodeId(Doc[i], graph.place[i]) :
                         i \in {j \in DOMAIN Doc : Doc[j].host = NoHost}}
  IN NewText =>
     /\ \A e \in graph.edges : e[1] \in graph.nodes \cup Inherited /\ e[2] \in graph.nodes
     /\ UniqueNames /\ placeholders \cap Hosts(Doc) = {} =>
          Cardinality(graph.nodes) = Len(Doc) + 1

\* The walk up the uplinks ends (BlueprintCanvas.tsx:193-200): no device stands
\* further right than there are devices and one.  With unique names, every
\* device whose uplink is drawn stands one column right of it, unless it is its
\* own ancestor.
CanvasColumns ==
  LET column(i) == CanvasGraph(Doc).place[i][1]
      up(h) == ByHost(Doc)[h].uplink
      ownAncestor(h) == \A s \in SUBSET Named(Doc) :
        up(h) \in s /\ (\A g \in s : up(g) \in Named(Doc) => up(g) \in s) => h \in s
  IN NewText =>
       /\ \A i \in DOMAIN Doc : column(i) \in 1 .. Len(Doc) + 1
       /\ UniqueNames =>
            \A i, j \in DOMAIN Doc :
              /\ Doc[i].host # NoHost /\ Doc[i].uplink = Doc[j].host /\ Doc[j].host # NoHost
              /\ ~ownAncestor(Doc[i].host)
              => column(i) = column(j) + 1

\* Between two blueprints the draft of the first one is on the page of the
\* second until that has loaded (BlueprintEditorPage.tsx:56-82).  A save in
\* that window never overwrites the second with the first, as long as the name
\* of the draft was not edited and the first row was neither renamed nor
\* deleted: the backend refuses the name, and a page that has loaded nothing
\* has no name to save under.
NoCrossSave == ~ghost.crossed

Settled == /\ pending = {} /\ \A b \in Ids : fetch[b].phase = "idle"
           /\ ~ghost.lost
\* When nothing is in flight the page of a blueprint shows the row as stored,
\* version included, and a draft that was not edited is that row's: whatever
\* saves, clones, deletes and visits overlapped, of one component or of several
\* after another (BlueprintEditorPage.tsx:56-137).  The one exception: a read of
\* the row that began before the save is still on its way when the answer to the
\* save comes, and the library does not restart it, because the operator is on
\* another page or the page is on its first load.  Then the older row is shown,
\* until the row is read again.
EditorShowsStored ==
  Settled /\ id \in Ids \ outrun /\ Stored(db[id]) =>
    /\ cache[id] = db[id]
    /\ ~ghost.edited => name = db[id].name /\ source = db[id].source

\* When no timer and no request is out, the shown validation is about the
\* text in the editor and the preview draws what the canvas draws
\* (BlueprintEditorPage.tsx:84-104), unless a request failed, an answer was
\* overtaken by a later one, or the text is empty and is not sent.  The preview
\* keeps a device called like the root's node apart, which the canvas does not.
ValidationCatchesUp ==
  id # Away /\ timer = NoText /\ validating = <<>> /\ source # Empty
    /\ ~ghost.late /\ ~ghost.lost
  => /\ validation = source
     /\ Valid(source) /\ Root \notin Hosts(Doc) =>
          PreviewGraph(validation.devices) = CanvasGraph(Doc)
=============================================================================
