---------------------------- MODULE BlueprintDoc ----------------------------
(* The document behind the blueprint canvas (lib/blueprintDoc.ts) and the   *)
(* graphs drawn from it (BlueprintCanvas.tsx, BlueprintTopology.tsx).  Pure *)
(* operators: a document is the sequence of its devices, because nothing    *)
(* else in the YAML is touched by the canvas.                               *)
EXTENDS Integers, Sequences, FiniteSets

CONSTANTS Family,     \* device families a template can have
          Word,       \* host names of any other form
          Inherited,  \* host names that every object has: constructor, toString
          TooLong,    \* host names of more than 64 characters
          Exact       \* up to here, every natural number is a double: 2^53

ASSUME WordsAssumption == /\ "(unnamed)" \notin Family /\ "" \notin Word
                          /\ Inherited \cup TooLong \subseteq Word \X {-1}
ASSUME ExactAssumption == Exact \in Nat /\ \E k \in 1 .. Exact : Exact = 4 * k

\* A host name is <<family, number>> when it is written family-number, the
\* placeholder <<"(unnamed)", column, row>> when it is written
\* (unnamed-column-row), and <<word, -1>> else; NoHost is the empty name and
\* also the null uplink.  Numbers with leading zeros or above 2^54, and the
\* name __proto__, are left out.
Number == 0 .. 2 * Exact
NoHost == <<"", -1>>
Host == (Family \X Number) \cup (Word \X {-1}) \cup ({"(unnamed)"} \X Nat \X Nat)
Device == [host : Host \cup {NoHost}, uplink : Host \cup {NoHost}]

\* A source text is YAML with a document in it, the empty text (YAML, but no
\* mapping), or text that is not YAML.
Text(devices) == [yaml |-> "mapping", devices |-> devices]
Empty == [yaml |-> "empty", devices |-> <<>>]
Malformed == [yaml |-> "malformed", devices |-> <<>>]
SourceText == [yaml : {"mapping", "empty", "malformed"}, devices : Seq(Device)]
\* null in place of a document: no host name has such a number.
NoDoc == <<[host |-> <<"null", -2>>, uplink |-> NoHost]>>

ParseBlueprintYaml(source) ==
  IF source.yaml = "malformed" THEN NoDoc ELSE source.devices

StringifyBlueprint(doc) == Text(doc)

Hosts(doc) == {doc[i].host : i \in DOMAIN doc}
Named(doc) == Hosts(doc) \ {NoHost}

\* Mutant: the number after the first of the family instead of the highest.
FirstFree(family, doc) ==
  <<family, 1 + Cardinality({h \in Hosts(doc) : h[1] = family /\ h[2] >= 0})>>
\* The double next to a number: above 2^53 they are the even numbers, and what
\* is half way goes to the multiple of four.
Double(n) == IF n <= Exact \/ n % 2 = 0 THEN n
             ELSE IF n % 4 = 1 THEN n - 1 ELSE n + 1
\* One more than the highest number the family has in the document, in doubles.
NextHostname(family, doc) ==
  LET used == {Double(h[2]) : h \in {g \in Hosts(doc) : g[1] = family /\ g[2] >= 0}}
      highest == CHOOSE n \in used \cup {0} : \A m \in used : m <= n
  IN <<family, Double(highest + 1)>>

AddDevice(doc, host, uplink) ==
  Append(doc, [host |-> host, uplink |-> uplink])

\* The n-th smallest number of a set.
Nth(set, n) == CHOOSE i \in set : Cardinality({j \in set : j <= i}) = n
\* Removing several devices one after the other; children of a removed device
\* lose their uplink.
RemoveHosts(doc, hosts) ==
  LET kept == {i \in DOMAIN doc : doc[i].host \notin hosts}
      scrub(d) == [d EXCEPT !.uplink = IF @ \in hosts THEN NoHost ELSE @]
  IN [n \in 1 .. Cardinality(kept) |-> scrub(doc[Nth(kept, n)])]
RemoveDevice(doc, host) == RemoveHosts(doc, {host})

\* A device that is renamed keeps its own uplink, even one to itself; nothing
\* is uplinked to a device without a name.
RenameDevice(doc, old, new) ==
  IF new \in {NoHost, old} THEN doc
  ELSE IF new \in Hosts(doc) THEN NoDoc
  ELSE [i \in DOMAIN doc |->
         IF doc[i].host = old THEN [doc[i] EXCEPT !.host = new]
         ELSE IF old # NoHost /\ doc[i].uplink = old THEN [doc[i] EXCEPT !.uplink = new]
         ELSE doc[i]]

SetUplink(doc, target, uplink) ==
  IF uplink = target \/ (uplink # NoHost /\ uplink \notin Hosts(doc)) THEN doc
  ELSE [i \in DOMAIN doc |->
         IF doc[i].host = target THEN [doc[i] EXCEPT !.uplink = uplink] ELSE doc[i]]

-----------------------------------------------------------------------------
(* The graph: one node per device, in the column of its depth under the     *)
(* root, one edge from its uplink or from the root.                         *)
Root == <<"__root__", -1>>

\* The names that are found in the object byHost: the document's and those
\* that every object inherits.
Found(doc) == Named(doc) \cup Inherited
\* Later devices of the same name win; what is inherited has no uplink.
ByHost(doc) ==
  [h \in Found(doc) |->
    IF h \in Named(doc)
    THEN doc[CHOOSE i \in DOMAIN doc :
               doc[i].host = h /\ \A j \in DOMAIN doc : doc[j].host = h => j <= i]
    ELSE [host |-> h, uplink |-> NoHost]]

\* Mutant: the walk goes up one uplink only.
DepthOfUplink(doc, host) ==
  IF host \in Named(doc) /\ ByHost(doc)[host].uplink \in Found(doc) THEN 2 ELSE 1
\* The walk up the uplinks stops at a name it has seen.
Depth(doc, host) ==
  LET by == ByHost(doc)
      depth[p \in Found(doc) \X SUBSET Found(doc)] ==
        LET h == p[1]
            seen == p[2]
            parent == by[h].uplink
        IN IF h \in seen \/ parent \notin Found(doc) THEN 1
           ELSE depth[<<parent, seen \cup {h}>>] + 1
  IN IF host = NoHost THEN 1 ELSE depth[<<host, {}>>]

\* Where each device stands: its column, and its row within the column.
Place(doc) ==
  LET column == [i \in DOMAIN doc |-> Depth(doc, doc[i].host)]
  IN [i \in DOMAIN doc |->
       <<column[i], Cardinality({j \in 1 .. i - 1 : column[j] = column[i]})>>]

\* Mutant: unnamed devices are told apart by their column only.
NodeIdByColumn(device, place) ==
  IF device.host = NoHost THEN <<"(unnamed)", place[1]>> ELSE device.host
\* A device may have the name that stands for an unnamed one.
NodeId(device, place) ==
  IF device.host = NoHost THEN <<"(unnamed)", place[1], place[2]>> ELSE device.host
\* The preview of the last validated document gives all devices with an empty
\* name the same node.
PreviewNodeId(device) == device.host

EdgeSource(doc, i) == IF doc[i].uplink \in Found(doc) THEN doc[i].uplink ELSE Root

\* place and id give the place and the node of each device.
Graph(doc, place, id) ==
  [nodes |-> {Root} \cup {id[i] : i \in DOMAIN doc},
   place |-> place,
   edges |-> {<<EdgeSource(doc, i), id[i]>> : i \in DOMAIN doc}]

CanvasGraph(doc) ==
  LET place == Place(doc)
  IN Graph(doc, place, [i \in DOMAIN doc |-> NodeId(doc[i], place[i])])
PreviewGraph(parsed) ==
  Graph(parsed, Place(parsed), [i \in DOMAIN parsed |-> PreviewNodeId(parsed[i])])

-----------------------------------------------------------------------------
(* What the backend validator accepts (backend/apps/blueprints/validator.py *)
(* and schemas/blueprint.v1.json), as far as devices go.                    *)
Sound(doc) ==
  /\ Hosts(doc) \cap ({NoHost} \cup TooLong) = {}
  /\ \A i, j \in DOMAIN doc : doc[i].host = doc[j].host => i = j
  /\ \A i \in DOMAIN doc : doc[i].uplink \in Hosts(doc) \cup {NoHost}

\* The documents of which no device is uplinked to itself, which the validator
\* would accept.
SoundTree(doc) == Sound(doc) /\ \A i \in DOMAIN doc : doc[i].uplink # doc[i].host

Valid(source) == source.yaml = "mapping" /\ Sound(source.devices)
=============================================================================
