------------------------ MODULE BlueprintDoc_proofs -------------------------
(* Proofs about the canvas (lib/blueprintDoc.ts, BlueprintCanvas.tsx), for  *)
(* documents of any length and any families and host names: what nextHostname *)
(* computes in doubles is a new name while the family's numbers are exact,  *)
(* whatever the canvas makes of a document is a document, and a sound one   *)
(* if it was sound and no name got too long, each device is drawn at a node *)
(* of its own unless it is called like another's placeholder, and the walk  *)
(* up the uplinks that gives it a column ends.                              *)
EXTENDS BlueprintEditor, WellFoundedInduction, FiniteSetTheorems, TLAPS

\* A set of naturals that is not empty has a least element (for the hostname
\* numbers of blueprintDoc.ts 100-112).
LEMMA LeastExists ==
  ASSUME NEW S \in SUBSET Nat, S # {}
  PROVE  \E n \in S : \A m \in S : n <= m
<1>1. PICK n \in S : \A m \in S : <<m, n>> \notin OpToRel(<, Nat)
  BY NatLessThanWellFounded, WFMin, Zenon
<1>2. \A m \in S : ~(m < n)
  BY <1>1, Zenon DEF OpToRel
<1> QED BY <1>2

\* So has a bounded one a greatest (the loop of blueprintDoc.ts 103-110).
LEMMA GreatestExists ==
  ASSUME NEW S \in SUBSET Nat, S # {}, NEW b \in Nat, \A m \in S : m <= b
  PROVE  \E n \in S : \A m \in S : m <= n
<1> DEFINE above == {u \in Nat : \A m \in S : m <= u}
<1>1. PICK u \in above : \A v \in above : u <= v
  <2>1. b \in above OBVIOUS
  <2> HIDE DEF above
  <2>2. above \in SUBSET Nat BY DEF above
  <2> QED BY <2>1, <2>2, LeastExists
<1>2. SUFFICES ASSUME u \notin S PROVE FALSE
  BY <1>1
<1>3. \A m \in S : m < u
  BY <1>1, <1>2
<1>4. u - 1 \in above
  <2>1. PICK m \in S : m < u BY <1>3
  <2>2. u - 1 \in Nat BY <1>1, <2>1
  <2>3. \A k \in S : k <= u - 1 BY <1>1, <1>3
  <2> QED BY <2>2, <2>3
<1> QED BY <1>1, <1>4

\* The numbers of finitely many devices have a bound (blueprintDoc.ts 103-110).
LEMMA BoundExists ==
  ASSUME NEW n \in Nat, NEW f \in [1 .. n -> Nat]
  PROVE  \E b \in Nat : \A i \in 1 .. n : f[i] <= b
<1> DEFINE Bounded(k) == \E b \in Nat : \A i \in 1 .. k : f[i] <= b
           open == {k \in 0 .. n : ~Bounded(k)}
<1>1. SUFFICES ASSUME open # {} PROVE FALSE
  <2>1. n \in 0 .. n OBVIOUS
  <2> QED BY <2>1
<1>2. PICK k \in open : \A m \in open : k <= m
  <2>1. open \in SUBSET Nat OBVIOUS
  <2> HIDE DEF open
  <2> QED BY <1>1, <2>1, LeastExists
<1>3. \A i \in 1 .. 0 : f[i] <= 0
  OBVIOUS
<1>4. k \in 1 .. n
  BY <1>2, <1>3
<1>5. Bounded(k - 1)
  <2>1. k - 1 \in 0 .. n /\ ~(k <= k - 1) BY <1>4
  <2> QED BY <1>2, <2>1
<1>6. PICK b \in Nat : \A i \in 1 .. k - 1 : f[i] <= b
  BY <1>5
<1>7. \A i \in 1 .. k : f[i] <= b + f[k]
  <2>1. \A i \in 1 .. k : f[i] \in Nat BY <1>4
  <2>2. \A i \in 1 .. k : i = k \/ i \in 1 .. k - 1 BY <1>4
  <2> QED BY <1>4, <1>6, <2>1, <2>2
<1>8. b + f[k] \in Nat BY <1>4
<1> QED BY <1>2, <1>7, <1>8

\* The number of a host name is a natural number, or -1 when it has none; that
\* of a family is within the numbers looked at (blueprintDoc.ts 102-108).
LEMMA HostNumber ==
  ASSUME NEW h \in Host \cup {NoHost}
  PROVE  h[2] \in Nat \cup {-1} /\ (h[1] \in Family /\ h[2] >= 0 => h[2] \in Number)
<1>1. CASE h \in Family \X Number BY <1>1 DEF Number
<1>2. CASE h \in Word \X {-1} BY <1>2
<1>3. CASE h = NoHost
  <2>1. h[2] = -1 BY <1>3 DEF NoHost
  <2> QED BY <2>1
<1>4. CASE h \in {"(unnamed)"} \X Nat \X Nat
  <2>1. h[1] = "(unnamed)" /\ h[2] \in Nat BY <1>4
  <2> QED BY <2>1, WordsAssumption
<1> QED BY <1>1, <1>2, <1>3, <1>4 DEF Host

\* The double next to a number in range is in range, and a number that is small
\* enough is its own (Number() and + of blueprintDoc.ts 107-111).
LEMMA DoubleTyped ==
  /\ \A n \in Number : Double(n) \in Number /\ Double(n + 1) \in Number
  /\ \A n \in 0 .. Exact : Double(n) = n
<1>1. PICK k \in 1 .. Exact : Exact = 4 * k /\ Exact \in Nat /\ k \in Nat
  BY ExactAssumption
<1>2. \A n \in Nat : n % 2 \in 0 .. 1 /\ n % 4 \in 0 .. 3
  OBVIOUS
<1>3. (2 * Exact + 1) % 4 = 1 /\ (2 * Exact + 1) % 2 = 1 /\ (2 * Exact) % 2 = 0
  BY <1>1
<1>4. ASSUME NEW n \in 0 .. 2 * Exact + 1
      PROVE  Double(n) \in Number
  BY <1>1, <1>2, <1>3 DEF Double, Number
<1>5. \A n \in Number : n \in 0 .. 2 * Exact + 1 /\ n + 1 \in 0 .. 2 * Exact + 1
  BY <1>1 DEF Number
<1>6. \A n \in 0 .. Exact : Double(n) = n
  BY <1>1 DEF Double
<1> QED BY <1>4, <1>5, <1>6

\* A document's devices and the names in it.
LEMMA DeviceTypes ==
  ASSUME NEW doc \in Seq(Device)
  PROVE  /\ Len(doc) \in Nat /\ DOMAIN doc = 1 .. Len(doc)
         /\ \A i \in DOMAIN doc : /\ doc[i] \in Device
                                 /\ doc[i].host \in Host \cup {NoHost}
                                 /\ doc[i].uplink \in Host \cup {NoHost}
         /\ Hosts(doc) \subseteq Host \cup {NoHost}
<1>1. \A i \in 1 .. Len(doc) : doc[i] \in Device OBVIOUS
<1>2. \A d \in Device : d.host \in Host \cup {NoHost} /\ d.uplink \in Host \cup {NoHost}
  BY DEF Device
<1> QED BY <1>1, <1>2 DEF Hosts

\* A document: uplinks may be anything, for a template may be dropped on a
\* device without a name.
IsDoc(doc) ==
  \E S : /\ doc \in Seq(S)
         /\ \A d \in S : /\ d = [host |-> d.host, uplink |-> d.uplink]
                         /\ d.host \in Host \cup {NoHost}
\* A document's devices are records with a typed host name (BlueprintDevice,
\* blueprintDoc.ts:11-19).
LEMMA DocParts ==
  ASSUME NEW doc, IsDoc(doc)
  PROVE  /\ Len(doc) \in Nat /\ DOMAIN doc = 1 .. Len(doc)
         /\ doc = [i \in 1 .. Len(doc) |-> doc[i]]
         /\ \A i \in 1 .. Len(doc) : /\ doc[i] = [host |-> doc[i].host, uplink |-> doc[i].uplink]
                                     /\ doc[i].host \in Host \cup {NoHost}
<1>1. PICK S : /\ doc \in Seq(S)
               /\ \A d \in S : /\ d = [host |-> d.host, uplink |-> d.uplink]
                               /\ d.host \in Host \cup {NoHost}
  BY DEF IsDoc
<1>2. Len(doc) \in Nat /\ DOMAIN doc = 1 .. Len(doc) /\ \A i \in 1 .. Len(doc) : doc[i] \in S
  BY <1>1
<1> QED
  BY <1>1, <1>2

\* And whatever has such devices is a document.
LEMMA DocOf ==
  ASSUME NEW n \in Nat, NEW doc, doc = [i \in 1 .. n |-> doc[i]],
         \A i \in 1 .. n : /\ doc[i] = [host |-> doc[i].host, uplink |-> doc[i].uplink]
                           /\ doc[i].host \in Host \cup {NoHost}
  PROVE  IsDoc(doc)
<1> DEFINE S == {doc[i] : i \in 1 .. n}
<1>1. \A i \in 1 .. n : doc[i] \in S
  OBVIOUS
<1>2. \A d \in S : /\ d = [host |-> d.host, uplink |-> d.uplink]
                   /\ d.host \in Host \cup {NoHost}
  OBVIOUS
<1> HIDE DEF S
<1>3. doc \in Seq(S)
  BY <1>1
<1> QED
  BY <1>2, <1>3 DEF IsDoc

\* A document that is loaded or typed is one (parseBlueprintYaml,
\* blueprintDoc.ts:41-76).
LEMMA DeviceDocs ==
  ASSUME NEW doc \in Seq(Device)
  PROVE  IsDoc(doc)
<1>1. \A d \in Device : /\ d = [host |-> d.host, uplink |-> d.uplink]
                        /\ d.host \in Host \cup {NoHost}
  BY DEF Device
<1> QED
  BY <1>1 DEF IsDoc

\* The names in a document.
LEMMA HostTypes ==
  ASSUME NEW doc, IsDoc(doc)
  PROVE  /\ Len(doc) \in Nat /\ DOMAIN doc = 1 .. Len(doc)
         /\ \A i \in DOMAIN doc : doc[i].host \in Host \cup {NoHost}
         /\ Hosts(doc) \subseteq Host \cup {NoHost}
  BY DocParts DEF Hosts

\* A sound document has no uplink but names and none.
LEMMA SoundDocs ==
  ASSUME NEW doc, IsDoc(doc), Sound(doc)
  PROVE  doc \in Seq(Device)
<1>1. \A i \in 1 .. Len(doc) : doc[i].uplink \in Host \cup {NoHost}
  BY HostTypes DEF Sound
<1>2. ASSUME NEW i \in 1 .. Len(doc)
      PROVE  doc[i] \in Device
  <2>1. /\ doc[i] = [host |-> doc[i].host, uplink |-> doc[i].uplink]
        /\ doc[i].host \in Host \cup {NoHost}
    BY DocParts
  <2>2. \A h, u \in Host \cup {NoHost} : [host |-> h, uplink |-> u] \in Device
    BY DEF Device
  <2> QED
    BY <1>1, <2>1, <2>2, Zenon
<1> QED
  BY <1>2, DocParts

\* A host name that is made up for a dropped device is the family's, and one
\* more than its highest number when that is exact (nextHostname,
\* blueprintDoc.ts:100-112).
LEMMA NextHostnameNumber ==
  ASSUME NEW doc, IsDoc(doc), NEW family \in Family
  PROVE  /\ NextHostname(family, doc) \in Family \X Number
         /\ (\A h \in Hosts(doc) : h[1] = family => h[2] < Exact)
            => NextHostname(family, doc) \notin Hosts(doc)
<1> DEFINE same == {g \in Hosts(doc) : g[1] = family /\ g[2] >= 0}
           used == {Double(h[2]) : h \in same}
           Highest(n) == n \in used \cup {0} /\ \A m \in used : m <= n
<1>0. Exact \in Nat /\ Exact > 0 /\ 0 \in Number
  BY ExactAssumption DEF Number
<1>1. \A h \in same : h[2] \in Number
  BY HostTypes, HostNumber
<1>2. used \cup {0} \in SUBSET Number
  BY <1>0, <1>1, DoubleTyped
<1>3. PICK n \in Number : Highest(n)
  <2> HIDE DEF used
  <2>1. used \cup {0} \in SUBSET Nat /\ 2 * Exact \in Nat
        /\ \A m \in used \cup {0} : m <= 2 * Exact
    BY <1>0, <1>2 DEF Number
  <2>2. \E n \in used \cup {0} : \A m \in used \cup {0} : m <= n
    BY <2>1, GreatestExists
  <2> QED BY <1>2, <2>2
<1>4. \A k : Highest(k) => k = n
  <2> HIDE DEF used
  <2> QED BY <1>2, <1>3 DEF Number
<1>5. NextHostname(family, doc) = <<family, Double(n + 1)>>
  <2>1. (CHOOSE k \in used \cup {0} : \A m \in used : m <= k) = n
    <3> HIDE DEF used
    <3> QED BY <1>3, <1>4
  <2> QED BY <2>1 DEF NextHostname
<1>6. Double(n + 1) \in Number
  BY DoubleTyped
<1>7. ASSUME \A h \in Hosts(doc) : h[1] = family => h[2] < Exact
      PROVE  <<family, Double(n + 1)>> \notin Hosts(doc)
  <2>1. \A h \in same : Double(h[2]) = h[2] /\ h[2] < Exact
    <3>1. \A h \in same : h[2] < Exact BY <1>7
    <3>2. \A h \in same : h[2] \in 0 .. Exact
      BY <1>0, <1>1, <3>1 DEF Number
    <3> QED BY <3>1, <3>2, DoubleTyped
  <2>2. n < Exact
    <3>1. \A m \in used : m < Exact BY <2>1
    <3> HIDE DEF used
    <3> QED BY <1>0, <1>3, <3>1
  <2>3. Double(n + 1) = n + 1
    <3>1. n + 1 \in 0 .. Exact BY <1>0, <2>2 DEF Number
    <3> QED BY <3>1, DoubleTyped
  <2>4. SUFFICES ASSUME <<family, n + 1>> \in Hosts(doc) PROVE FALSE
    BY <2>3
  <2>5. <<family, n + 1>> \in same BY <2>4 DEF Number
  <2>6. n + 1 \in used BY <2>1, <2>5
  <2> HIDE DEF used
  <2> QED BY <1>3, <2>6 DEF Number
<1> QED BY <1>5, <1>6, <1>7

\* A host name that is made up for a dropped device is a name, neither empty nor
\* too long, and not in the document, as long as the family has no number of
\* 2^53 or more: from there on the code, which computes in doubles, repeats a
\* name (nextHostname, blueprintDoc.ts:100-112).
THEOREM NextHostnameIsNew ==
  ASSUME NEW doc, IsDoc(doc), NEW family \in Family,
         \A h \in Hosts(doc) : h[1] = family => h[2] < Exact
  PROVE  NextHostname(family, doc) \in Host \ (Hosts(doc) \cup {NoHost} \cup TooLong)
<1>1. /\ NextHostname(family, doc) \in Family \X Number
      /\ NextHostname(family, doc) \notin Hosts(doc)
  BY NextHostnameNumber
<1>2. \A h \in Family \X Number : h[2] >= 0
  BY DEF Number
<1>3. (\A h \in TooLong : h[2] = -1) /\ NoHost[2] = -1
  <2>1. \A h \in TooLong : h \in Word \X {-1} BY WordsAssumption
  <2>2. \A h \in TooLong : h[2] = -1 BY <2>1
  <2> QED BY <2>2 DEF NoHost
<1>4. -1 < 0 OBVIOUS
<1> QED BY <1>1, <1>2, <1>3 DEF Host

\* Dropping a template on any node, an unnamed one included (addDevice,
\* blueprintDoc.ts:115-117).
LEMMA AddTyped ==
  ASSUME NEW doc, IsDoc(doc), NEW host \in Host \cup {NoHost}, NEW uplink
  PROVE  IsDoc(AddDevice(doc, host, uplink))
<1>1. PICK S : /\ doc \in Seq(S)
               /\ \A d \in S : /\ d = [host |-> d.host, uplink |-> d.uplink]
                               /\ d.host \in Host \cup {NoHost}
  BY DEF IsDoc
<1> DEFINE new == [host |-> host, uplink |-> uplink]  S2 == S \cup {new}
<1>2. \A d \in S2 : /\ d = [host |-> d.host, uplink |-> d.uplink]
                    /\ d.host \in Host \cup {NoHost}
  BY <1>1
<1>3. new \in S2 /\ S \subseteq S2
  OBVIOUS
<1> HIDE DEF new, S2
<1>4. doc \in Seq(S2)
  BY <1>1, <1>3
<1>5. Append(doc, new) \in Seq(S2)
  BY <1>3, <1>4
<1> QED
  BY <1>2, <1>5 DEF IsDoc, AddDevice, new

\* Renaming, unless the name is taken (renameDevice, blueprintDoc.ts:138-151).
LEMMA RenameTyped ==
  ASSUME NEW doc, IsDoc(doc), NEW old, NEW new \in Host, RenameDevice(doc, old, new) # NoDoc
  PROVE  IsDoc(RenameDevice(doc, old, new))
<1> DEFINE n == Len(doc)
           next == [i \in DOMAIN doc |->
                     IF doc[i].host = old THEN [doc[i] EXCEPT !.host = new]
                     ELSE IF old # NoHost /\ doc[i].uplink = old THEN [doc[i] EXCEPT !.uplink = new]
                     ELSE doc[i]]
<1>1. RenameDevice(doc, old, new) = doc \/ RenameDevice(doc, old, new) = next
  BY DEF RenameDevice
<1>2. IsDoc(next)
  <2>1. n \in Nat /\ DOMAIN doc = 1 .. n
    BY DocParts
  <2>2. ASSUME NEW i \in 1 .. n
        PROVE  /\ next[i] = [host |-> next[i].host, uplink |-> next[i].uplink]
               /\ next[i].host \in Host \cup {NoHost}
    <3>1. /\ doc[i] = [host |-> doc[i].host, uplink |-> doc[i].uplink]
          /\ doc[i].host \in Host \cup {NoHost}
      BY DocParts
    <3>2. next[i] = IF doc[i].host = old THEN [doc[i] EXCEPT !.host = new]
                    ELSE IF old # NoHost /\ doc[i].uplink = old THEN [doc[i] EXCEPT !.uplink = new]
                    ELSE doc[i]
      BY <2>1
    <3> HIDE DEF next
    <3> QED
      BY <3>1, <3>2
  <2>3. next = [i \in 1 .. n |-> next[i]]
    BY <2>1
  <2> HIDE DEF next
  <2> QED
    BY <2>1, <2>2, <2>3, DocOf
<1> QED
  BY <1>1, <1>2

\* Connecting to anything (setUplink, blueprintDoc.ts:154-168).
LEMMA UplinkTyped ==
  ASSUME NEW doc, IsDoc(doc), NEW target, NEW uplink
  PROVE  IsDoc(SetUplink(doc, target, uplink))
<1> DEFINE n == Len(doc)
           next == [i \in DOMAIN doc |->
                     IF doc[i].host = target THEN [doc[i] EXCEPT !.uplink = uplink] ELSE doc[i]]
<1>1. SetUplink(doc, target, uplink) = doc \/ SetUplink(doc, target, uplink) = next
  BY DEF SetUplink
<1>2. IsDoc(next)
  <2>1. n \in Nat /\ DOMAIN doc = 1 .. n
    BY DocParts
  <2>2. ASSUME NEW i \in 1 .. n
        PROVE  /\ next[i] = [host |-> next[i].host, uplink |-> next[i].uplink]
               /\ next[i].host \in Host \cup {NoHost}
    <3>1. /\ doc[i] = [host |-> doc[i].host, uplink |-> doc[i].uplink]
          /\ doc[i].host \in Host \cup {NoHost}
      BY DocParts
    <3>2. next[i] = IF doc[i].host = target THEN [doc[i] EXCEPT !.uplink = uplink] ELSE doc[i]
      BY <2>1
    <3> HIDE DEF next
    <3> QED
      BY <3>1, <3>2
  <2>3. next = [i \in 1 .. n |-> next[i]]
    BY <2>1
  <2> HIDE DEF next
  <2> QED
    BY <2>1, <2>2, <2>3, DocOf
<1> QED
  BY <1>1, <1>2

\* Appending a device of a new name, uplinked to a device of the document or
\* to none (addDevice, blueprintDoc.ts:115-117).
LEMMA AddKeepsSound ==
  ASSUME NEW doc \in Seq(Device), SoundTree(doc),
         NEW host \in Host \ (Hosts(doc) \cup {NoHost} \cup TooLong),
         NEW uplink \in Hosts(doc) \cup {NoHost}
  PROVE  SoundTree(AddDevice(doc, host, uplink))
<1> DEFINE next == AddDevice(doc, host, uplink)
           last == Len(doc) + 1
<1>1. /\ DOMAIN next = 1 .. last
      /\ \A i \in 1 .. Len(doc) : next[i] = doc[i]
      /\ next[last] = [host |-> host, uplink |-> uplink]
  BY DeviceTypes DEF AddDevice
<1>2. \A i \in 1 .. last : i = last \/ i \in 1 .. Len(doc)
  BY DeviceTypes
<1>3. Hosts(next) = Hosts(doc) \cup {host}
  <2>1. last \in 1 .. last BY DeviceTypes
  <2>2. \A i \in 1 .. Len(doc) : i \in 1 .. last BY DeviceTypes
  <2> HIDE DEF next, last
  <2>3. next[last].host = host
    BY <1>1
  <2>4. \A i \in 1 .. Len(doc) : next[i].host = doc[i].host
    BY <1>1
  <2>5. Hosts(doc) = {doc[i].host : i \in 1 .. Len(doc)}
    BY DeviceTypes DEF Hosts
  <2>6. Hosts(next) = {next[i].host : i \in 1 .. last}
    BY <1>1 DEF Hosts
  <2>7. Hosts(doc) \cup {host} \subseteq Hosts(next)
    BY <2>1, <2>2, <2>3, <2>4, <2>5, <2>6
  <2>8. Hosts(next) \subseteq Hosts(doc) \cup {host}
    BY <1>2, <2>3, <2>4, <2>5, <2>6
  <2> QED BY <2>7, <2>8
<1> HIDE DEF next, last
<1>4. \A i, j \in DOMAIN next : next[i].host = next[j].host => i = j
  <2>1. \A i \in 1 .. Len(doc) : next[i].host \in Hosts(doc) /\ next[i].host # host
    BY <1>1, DeviceTypes DEF Hosts
  <2>2. next[last].host = host BY <1>1
  <2> QED BY <1>1, <1>2, <2>1, <2>2, DeviceTypes DEF SoundTree, Sound
<1>5. \A i \in DOMAIN next : /\ next[i].uplink \in Hosts(next) \cup {NoHost}
                             /\ next[i].uplink # next[i].host
  BY <1>1, <1>2, <1>3, DeviceTypes DEF SoundTree, Sound
<1>6. Hosts(next) \cap ({NoHost} \cup TooLong) = {}
  BY <1>3 DEF SoundTree, Sound
<1> QED BY <1>4, <1>5, <1>6 DEF SoundTree, Sound, next

\* Renaming a device, unless the new name is refused (renameDevice,
\* blueprintDoc.ts:138-151).
LEMMA RenameKeepsSound ==
  ASSUME NEW doc \in Seq(Device), SoundTree(doc), NEW old \in Hosts(doc), NEW new \in Host,
         Hosts(RenameDevice(doc, old, new)) \cap TooLong = {}
  PROVE  RenameDevice(doc, old, new) = NoDoc \/ SoundTree(RenameDevice(doc, old, new))
<1>1. SUFFICES ASSUME new # NoHost, new # old, new \notin Hosts(doc)
               PROVE  SoundTree(RenameDevice(doc, old, new))
  BY DEF RenameDevice
<1> DEFINE next == RenameDevice(doc, old, new)
           moved(h) == IF h = old THEN new ELSE h
<1>2. old # NoHost BY DEF SoundTree, Sound
<1>3. DOMAIN next = DOMAIN doc
  BY <1>1 DEF RenameDevice
<1>4. \A i \in DOMAIN doc :
        next[i].host = moved(doc[i].host) /\ next[i].uplink = moved(doc[i].uplink)
  <2>1. TAKE i \in DOMAIN doc
  <2>2. doc[i] \in Device /\ doc[i].uplink # doc[i].host
    BY DeviceTypes DEF SoundTree
  <2>3. next[i] = IF doc[i].host = old THEN [doc[i] EXCEPT !.host = new]
                  ELSE IF old # NoHost /\ doc[i].uplink = old THEN [doc[i] EXCEPT !.uplink = new]
                  ELSE doc[i]
    BY <1>1 DEF RenameDevice
  <2> HIDE DEF next
  <2> QED BY <1>2, <2>2, <2>3 DEF Device
<1> HIDE DEF next
<1>5. \A i \in DOMAIN doc : doc[i].host \in Hosts(doc) /\ doc[i].host # new
  BY <1>1 DEF Hosts
<1>6. \A i \in DOMAIN doc : doc[i].uplink \in Hosts(doc) \cup {NoHost} /\ doc[i].uplink # new
  BY <1>1 DEF SoundTree, Sound
<1>7. Hosts(next) \cap ({NoHost} \cup TooLong) = {}
  <2>1. Hosts(next) \cap TooLong = {} BY DEF next
  <2>2. NoHost \notin Hosts(next)
    BY <1>1, <1>3, <1>4, <1>5 DEF Hosts, SoundTree, Sound
  <2> QED BY <2>1, <2>2
<1>8. \A i, j \in DOMAIN next : next[i].host = next[j].host => i = j
  BY <1>3, <1>4, <1>5 DEF SoundTree, Sound
<1>9. \A i \in DOMAIN next : next[i].uplink \in Hosts(next) \cup {NoHost}
  <2>1. \A h \in Hosts(doc) : moved(h) \in Hosts(next)
    BY <1>3, <1>4 DEF Hosts
  <2> QED BY <1>2, <1>3, <1>4, <1>6, <2>1
<1>10. \A i \in DOMAIN next : next[i].uplink # next[i].host
  BY <1>3, <1>4, <1>5, <1>6 DEF SoundTree
<1> QED BY <1>7, <1>8, <1>9, <1>10 DEF SoundTree, Sound, next

\* Connecting a device to another one, or to none (setUplink,
\* blueprintDoc.ts:154-169).
LEMMA UplinkKeepsSound ==
  ASSUME NEW doc \in Seq(Device), SoundTree(doc), NEW target \in Hosts(doc),
         NEW uplink \in Host \cup {NoHost}
  PROVE  SoundTree(SetUplink(doc, target, uplink))
<1>1. SUFFICES ASSUME uplink # target, uplink \in Hosts(doc) \cup {NoHost}
               PROVE  SoundTree(SetUplink(doc, target, uplink))
  BY DEF SetUplink
<1> DEFINE next == SetUplink(doc, target, uplink)
<1>2. DOMAIN next = DOMAIN doc
  BY <1>1 DEF SetUplink
<1>3. \A i \in DOMAIN doc :
        /\ next[i].host = doc[i].host
        /\ next[i].uplink = IF doc[i].host = target THEN uplink ELSE doc[i].uplink
  <2>1. TAKE i \in DOMAIN doc
  <2>2. next[i] = IF doc[i].host = target THEN [doc[i] EXCEPT !.uplink = uplink] ELSE doc[i]
    BY <1>1 DEF SetUplink
  <2>3. doc[i] \in Device BY DeviceTypes
  <2> HIDE DEF next
  <2> QED BY <2>2, <2>3 DEF Device
<1> HIDE DEF next
<1>4. Hosts(next) = Hosts(doc)
  BY <1>2, <1>3 DEF Hosts
<1> QED BY <1>1, <1>2, <1>3, <1>4 DEF SoundTree, Sound, next

\* The n-th smallest of a finite set of numbers is there, and is no other's.
LEMMA NthIsThere ==
  ASSUME NEW S \in SUBSET Nat, IsFiniteSet(S)
  PROVE  /\ Cardinality(S) \in Nat
         /\ \A n \in 1 .. Cardinality(S) :
              /\ Nth(S, n) \in S
              /\ Cardinality({j \in S : j <= Nth(S, n)}) = n
         /\ \A i \in S : \E n \in 1 .. Cardinality(S) : Nth(S, n) = i
<1> DEFINE Below(i) == {j \in S : j <= i}
           rank == [i \in S |-> Cardinality(Below(i))]
           card == Cardinality(S)
<1>1. \A i \in S : IsFiniteSet(Below(i)) /\ Cardinality(Below(i)) \in 1 .. card
  <2>1. TAKE i \in S
  <2>2. Below(i) \in SUBSET S /\ i \in Below(i)
    OBVIOUS
  <2>3. IsFiniteSet(Below(i)) /\ Cardinality(Below(i)) <= card
    BY <2>2, FS_Subset
  <2>4. Cardinality(Below(i)) # 0
    BY <2>2, <2>3, FS_EmptySet
  <2>5. Cardinality(Below(i)) \in Nat /\ card \in Nat
    BY <2>3, FS_CardinalityType
  <2> QED
    BY <2>3, <2>4, <2>5
<1>2. \A i, k \in S : i < k => Cardinality(Below(i)) < Cardinality(Below(k))
  <2>1. TAKE i, k \in S
  <2>2. HAVE i < k
  <2>3. Below(i) \subseteq Below(k) /\ k \in Below(k) /\ k \notin Below(i)
    <3>1. i \in Nat /\ k \in Nat /\ \A j \in S : j \in Nat
      OBVIOUS
    <3>2. \A j \in S : j <= i => j <= k
      BY <2>2, <3>1
    <3>3. k \in Below(k) /\ k \notin Below(i)
      BY <2>2, <3>1
    <3>4. Below(i) \subseteq Below(k)
      BY <3>2
    <3> QED
      BY <3>3, <3>4
  <2>4. Below(i) # Below(k)
    BY <2>3
  <2>5. /\ Cardinality(Below(i)) <= Cardinality(Below(k))
        /\ Cardinality(Below(i)) # Cardinality(Below(k))
    BY <1>1, <2>3, <2>4, FS_Subset
  <2> QED
    BY <1>1, <2>5
<1>3. card \in Nat
  BY FS_CardinalityType
<1>4. \A n \in 1 .. card : \E i \in S : Cardinality(Below(i)) = n
  <2>1. rank \in [S -> 1 .. card]
    BY <1>1
  <2>2. \A i, k \in S : rank[i] = rank[k] => i = k
    BY <1>1, <1>2
  <2>3. rank \in Injection(S, 1 .. card)
    BY <2>1, <2>2 DEF Injection, IsInjective
  <2>4. PICK T \in SUBSET (1 .. card) : T = {rank[i] : i \in S}
    BY <2>1
  <2>5. rank \in Bijection(S, T)
    <3> HIDE DEF rank
    <3> QED
      BY <2>1, <2>2, <2>4 DEF Bijection, Injection, IsInjective, Surjection
  <2>6. IsFiniteSet(T) /\ Cardinality(T) = card
    BY <2>5, FS_Bijection DEF ExistsBijection
  <2>7. IsFiniteSet(1 .. card) /\ Cardinality(1 .. card) = card
    BY <1>3, FS_Interval
  <2>8. T = 1 .. card
    BY <2>4, <2>6, <2>7, FS_Subset
  <2> QED
    BY <2>4, <2>8
<1>5. \A n \in 1 .. card : Nth(S, n) \in S /\ Cardinality(Below(Nth(S, n))) = n
  BY <1>4 DEF Nth
<1>6. ASSUME NEW i \in S
      PROVE  \E n \in 1 .. card : Nth(S, n) = i
  <2> DEFINE n == Cardinality(Below(i))
  <2>1. n \in 1 .. card
    BY <1>1
  <2>2. Nth(S, n) \in S /\ Cardinality(Below(Nth(S, n))) = n
    BY <1>5, <2>1
  <2>3. Nth(S, n) = i
    <3> DEFINE m == Nth(S, n)
    <3>1. m \in S /\ Cardinality(Below(m)) = Cardinality(Below(i))
      BY <2>2
    <3> HIDE DEF m
    <3>2. m \in Nat /\ i \in Nat /\ n \in Nat
      BY <1>1, <1>3, <3>1
    <3>3. ~(m < i) /\ ~(i < m)
      BY <1>2, <3>1, <3>2
    <3>4. m = i
      BY <3>2, <3>3
    <3> QED
      BY <3>4 DEF m
  <2> QED
    BY <2>1, <2>3
<1> QED
  BY <1>3, <1>5, <1>6

\* The devices of next are those of doc at kept, in their order.
Remains(doc, hosts, kept, next) ==
  /\ Cardinality(kept) \in Nat
  /\ next = [n \in 1 .. Cardinality(kept) |-> next[n]]
  /\ \A n \in 1 .. Cardinality(kept) :
       /\ Nth(kept, n) \in kept
       /\ Cardinality({j \in kept : j <= Nth(kept, n)}) = n
       /\ next[n].host = doc[Nth(kept, n)].host
       /\ next[n].uplink = (IF doc[Nth(kept, n)].uplink \in hosts THEN NoHost
                            ELSE doc[Nth(kept, n)].uplink)
       /\ next[n] = [host |-> next[n].host, uplink |-> next[n].uplink]
  /\ \A i \in kept : \E n \in 1 .. Cardinality(kept) : Nth(kept, n) = i
\* What remains when devices are removed: the kept ones, in their order
\* (removeDevice, blueprintDoc.ts:120-131).
LEMMA KeptDevices ==
  ASSUME NEW doc, IsDoc(doc), NEW hosts,
         NEW kept, kept = {i \in DOMAIN doc : doc[i].host \notin hosts}
  PROVE  Remains(doc, hosts, kept, RemoveHosts(doc, hosts))
<1> DEFINE scrub(d) == [d EXCEPT !.uplink = IF @ \in hosts THEN NoHost ELSE @]
           next == [n \in 1 .. Cardinality(kept) |-> scrub(doc[Nth(kept, n)])]
<1>1. RemoveHosts(doc, hosts) = next
  BY DEF RemoveHosts
<1>2. Len(doc) \in Nat /\ DOMAIN doc = 1 .. Len(doc)
  BY DocParts
<1>3. kept \in SUBSET Nat /\ IsFiniteSet(kept)
  <2>1. kept \subseteq 1 .. Len(doc) /\ IsFiniteSet(1 .. Len(doc))
    BY <1>2, FS_Interval
  <2>2. IsFiniteSet(kept)
    BY <2>1, FS_Subset
  <2> QED
    BY <1>2, <2>1, <2>2
<1>4. \A i \in kept : doc[i] = [host |-> doc[i].host, uplink |-> doc[i].uplink]
  BY <1>2, DocParts
<1>5. /\ Cardinality(kept) \in Nat
      /\ \A n \in 1 .. Cardinality(kept) :
           /\ Nth(kept, n) \in kept /\ Cardinality({j \in kept : j <= Nth(kept, n)}) = n
      /\ \A i \in kept : \E n \in 1 .. Cardinality(kept) : Nth(kept, n) = i
  BY <1>3, NthIsThere
<1>6. ASSUME NEW n \in 1 .. Cardinality(kept)
      PROVE  /\ next[n].host = doc[Nth(kept, n)].host
             /\ next[n].uplink = (IF doc[Nth(kept, n)].uplink \in hosts THEN NoHost
                                  ELSE doc[Nth(kept, n)].uplink)
             /\ next[n] = [host |-> next[n].host, uplink |-> next[n].uplink]
  <2> DEFINE d == doc[Nth(kept, n)]
  <2>1. d = [host |-> d.host, uplink |-> d.uplink]
    BY <1>4, <1>5
  <2>2. next[n] = scrub(d)
    OBVIOUS
  <2> HIDE DEF d, next
  <2>3. /\ next[n].host = d.host
        /\ next[n].uplink = (IF d.uplink \in hosts THEN NoHost ELSE d.uplink)
        /\ next[n] = [host |-> next[n].host, uplink |-> next[n].uplink]
    BY <2>1, <2>2
  <2> QED
    BY <2>3 DEF d
<1>7. next = [n \in 1 .. Cardinality(kept) |-> next[n]]
  OBVIOUS
<1> HIDE DEF next
<1>8. Remains(doc, hosts, kept, next)
  BY <1>5, <1>6, <1>7 DEF Remains
<1> QED
  BY <1>1, <1>8

\* Removing makes a document of a document.
LEMMA RemoveTyped ==
  ASSUME NEW doc, IsDoc(doc), NEW hosts
  PROVE  IsDoc(RemoveHosts(doc, hosts))
<1> DEFINE kept == {i \in DOMAIN doc : doc[i].host \notin hosts}
<1>0. kept = {i \in DOMAIN doc : doc[i].host \notin hosts}
  OBVIOUS
<1>2. \A i \in kept : doc[i].host \in Host \cup {NoHost}
  BY DocParts
<1> HIDE DEF kept
<1> DEFINE next == RemoveHosts(doc, hosts)
<1>9. Remains(doc, hosts, kept, next)
  BY <1>0, KeptDevices
<1> HIDE DEF next
<1>1. /\ Cardinality(kept) \in Nat
      /\ next = [n \in 1 .. Cardinality(kept) |-> next[n]]
      /\ \A n \in 1 .. Cardinality(kept) :
           /\ Nth(kept, n) \in kept /\ next[n].host = doc[Nth(kept, n)].host
           /\ next[n] = [host |-> next[n].host, uplink |-> next[n].uplink]
  BY <1>9 DEF Remains
<1>3. \A n \in 1 .. Cardinality(kept) :
        /\ next[n] = [host |-> next[n].host, uplink |-> next[n].uplink]
        /\ next[n].host \in Host \cup {NoHost}
  BY <1>1, <1>2
<1>4. IsDoc(next)
  BY <1>1, <1>3, DocOf
<1> QED
  BY <1>4 DEF next

\* Removal leaves the others as they are, and those uplinked to the removed
\* ones without an uplink (removeDevice, blueprintDoc.ts:120-131).
LEMMA RemoveKeepsSound ==
  ASSUME NEW doc, IsDoc(doc), SoundTree(doc), NEW hosts
  PROVE  SoundTree(RemoveHosts(doc, hosts))
<1> DEFINE kept == {i \in DOMAIN doc : doc[i].host \notin hosts}
           card == Cardinality(kept)
           at(n) == Nth(kept, n)
<1>0. kept = {i \in DOMAIN doc : doc[i].host \notin hosts}
  OBVIOUS
<1>2. /\ \A i \in kept : i \in DOMAIN doc /\ doc[i].host \notin hosts
      /\ \A i \in DOMAIN doc : doc[i].host \notin hosts => i \in kept
  OBVIOUS
<1> HIDE DEF kept
<1> DEFINE next == RemoveHosts(doc, hosts)
<1>9. Remains(doc, hosts, kept, next)
  BY <1>0, KeptDevices
<1> HIDE DEF next
<1>1. /\ card \in Nat
      /\ next = [n \in 1 .. card |-> next[n]]
      /\ \A n \in 1 .. card :
           /\ at(n) \in kept /\ Cardinality({j \in kept : j <= at(n)}) = n
           /\ next[n].host = doc[at(n)].host
           /\ next[n].uplink = (IF doc[at(n)].uplink \in hosts THEN NoHost
                                ELSE doc[at(n)].uplink)
      /\ \A i \in kept : \E n \in 1 .. card : at(n) = i
  BY <1>9 DEF Remains
<1>3. \A m, n \in 1 .. card : at(m) = at(n) => m = n
  BY <1>1
<1> HIDE DEF card, at
<1>4. DOMAIN next = 1 .. card
  BY <1>1
<1>5. Hosts(next) = Hosts(doc) \ hosts
  <2>1. \A n \in 1 .. card : next[n].host \in Hosts(doc) \ hosts
    BY <1>1, <1>2 DEF Hosts
  <2>2. \A i \in DOMAIN doc : doc[i].host \notin hosts => doc[i].host \in Hosts(next)
    <3>1. TAKE i \in DOMAIN doc
    <3>2. HAVE doc[i].host \notin hosts
    <3>3. PICK n \in 1 .. card : at(n) = i
      BY <1>1, <1>2, <3>2
    <3> QED
      BY <1>1, <1>4, <3>3 DEF Hosts
  <2> QED
    BY <1>4, <2>1, <2>2 DEF Hosts
<1>6. \A m, n \in DOMAIN next : next[m].host = next[n].host => m = n
  <2>1. TAKE m, n \in DOMAIN next
  <2>2. HAVE next[m].host = next[n].host
  <2>3. at(m) \in DOMAIN doc /\ at(n) \in DOMAIN doc /\ doc[at(m)].host = doc[at(n)].host
    BY <1>1, <1>2, <1>4, <2>2
  <2>4. at(m) = at(n)
    BY <2>3 DEF SoundTree, Sound
  <2> QED
    BY <1>3, <1>4, <2>4
<1>7. \A n \in DOMAIN next : /\ next[n].uplink \in Hosts(next) \cup {NoHost}
                             /\ next[n].uplink # next[n].host
  <2>1. TAKE n \in DOMAIN next
  <2>2. /\ at(n) \in DOMAIN doc /\ next[n].host = doc[at(n)].host
        /\ next[n].uplink = (IF doc[at(n)].uplink \in hosts THEN NoHost ELSE doc[at(n)].uplink)
    BY <1>1, <1>2, <1>4
  <2>3. /\ doc[at(n)].uplink \in Hosts(doc) \cup {NoHost}
        /\ doc[at(n)].uplink # doc[at(n)].host /\ doc[at(n)].host # NoHost
    BY <2>2 DEF SoundTree, Sound, Hosts
  <2> QED
    BY <1>5, <2>2, <2>3
<1>8. Hosts(next) \cap ({NoHost} \cup TooLong) = {}
  BY <1>5 DEF SoundTree, Sound
<1> QED
  BY <1>6, <1>7, <1>8 DEF SoundTree, Sound, next

\* In a sound document the drawn nodes are the root and the host names
\* (BlueprintCanvas.tsx:182-249).
LEMMA DrawnNodes ==
  ASSUME NEW doc, SoundTree(doc)
  PROVE  Drawn(doc) \subseteq Hosts(doc) \cup {Root}
<1>1. \A i \in DOMAIN doc : \A place : NodeId(doc[i], place) = doc[i].host
  BY DEF NodeId, SoundTree, Sound, Hosts
<1> QED BY <1>1 DEF Drawn, CanvasGraph, Graph, Hosts

\* Whatever the canvas makes of a document is a document (BlueprintCanvas.tsx:
\* 258-372).
LEMMA CanvasMakesDocs ==
  ASSUME NEW doc, IsDoc(doc)
  PROVE  \A next \in CanvasNext(doc) : IsDoc(next)
<1>1. \A next \in Dropped(doc) : IsDoc(next)
  BY NextHostnameNumber, AddTyped DEF Dropped, Host
<1>2. \A next \in Renamed(doc) : IsDoc(next)
  BY HostNamesAssumption, RenameTyped DEF Renamed
<1>3. \A next \in Connected(doc) : IsDoc(next)
  BY UplinkTyped DEF Connected
<1>4. \A next \in DeletedByHostname(doc) \cup DeletedByKey(doc) : IsDoc(next)
  BY RemoveTyped DEF DeletedByHostname, DeletedByKey, RemoveDevice
<1> QED
  BY <1>1, <1>2, <1>3, <1>4 DEF CanvasNext

\* No operation on the canvas, of any of its five handlers, turns a document
\* that the backend accepts into one that it refuses, however long it is and
\* whatever its names, but for a rename to more than 64 characters, a drop when
\* a family's number has come to 2^53, and a device uplinked to itself
\* (BlueprintCanvas.tsx:258-372).
THEOREM CanvasKeepsSound ==
  ASSUME NEW doc, IsDoc(doc), SoundTree(doc), Countable(doc),
         NEW next \in CanvasNext(doc), Hosts(next) \cap TooLong = {}
  PROVE  SoundTree(next)
<1>0. doc \in Seq(Device) /\ Drawn(doc) \ {Root} \subseteq Hosts(doc)
  BY SoundDocs, DrawnNodes DEF SoundTree
<1>1. CASE next \in Dropped(doc)
  <2>1. PICK family \in Family, parent \in (Drawn(doc) \ {Root}) \cup Hosts(doc) \cup {NoHost} :
          next = AddDevice(doc, NextHostname(family, doc),
                           IF parent = NextHostname(family, doc) THEN NoHost ELSE parent)
    BY <1>1 DEF Dropped
  <2>2. NextHostname(family, doc) \in Host \ (Hosts(doc) \cup {NoHost} \cup TooLong)
    BY NextHostnameIsNew DEF Countable
  <2>3. parent \in Hosts(doc) \cup {NoHost}
    BY <1>0
  <2> QED BY <1>0, <2>1, <2>2, <2>3, AddKeepsSound
<1>2. CASE next \in Renamed(doc)
  BY <1>0, <1>2, HostNamesAssumption, RenameKeepsSound DEF Renamed
<1>3. CASE next \in Connected(doc)
  <2>1. PICK from \in Drawn(doc), to \in Drawn(doc) \ {Root} :
          next = SetUplink(doc, to, IF from = Root THEN NoHost ELSE from)
    BY <1>3 DEF Connected
  <2>2. to \in Hosts(doc)
    BY <1>0
  <2>3. (IF from = Root THEN NoHost ELSE from) \in Host \cup {NoHost}
    BY <1>0, DeviceTypes
  <2> QED
    BY <1>0, <2>1, <2>2, <2>3, UplinkKeepsSound
<1>4. CASE next \in DeletedByHostname(doc) \cup DeletedByKey(doc)
  BY <1>4, RemoveKeepsSound DEF DeletedByHostname, DeletedByKey, RemoveDevice
<1> QED
  BY <1>1, <1>2, <1>3, <1>4 DEF CanvasNext

-----------------------------------------------------------------------------
(* The graph of the canvas.  *)

\* Two devices never share a place (BlueprintCanvas.tsx:201-213).
LEMMA PlacesAreApart ==
  ASSUME NEW doc, IsDoc(doc), NEW i \in DOMAIN doc, NEW j \in DOMAIN doc, i < j
  PROVE  Place(doc)[i] # Place(doc)[j]
<1>1. PICK column : column = [k \in DOMAIN doc |-> Depth(doc, doc[k].host)]
  OBVIOUS
<1>2. PICK left : left = {k \in 1 .. i - 1 : column[k] = column[i]}
  OBVIOUS
<1>3. PICK right : right = {k \in 1 .. j - 1 : column[k] = column[j]}
  OBVIOUS
<1>4. Place(doc) = [k \in DOMAIN doc |->
        <<column[k], Cardinality({m \in 1 .. k - 1 : column[m] = column[k]})>>]
  BY <1>1 DEF Place
<1>5. Place(doc)[i] = <<column[i], Cardinality(left)>>
        /\ Place(doc)[j] = <<column[j], Cardinality(right)>>
  BY <1>2, <1>3, <1>4
<1>6. SUFFICES ASSUME column[i] = column[j], Cardinality(left) = Cardinality(right)
               PROVE  FALSE
  BY <1>5
<1>7. i \in Nat /\ j \in Nat
  BY DocParts
<1>8. IsFiniteSet(1 .. j - 1)
  BY <1>7, FS_Interval
<1>9. left \in SUBSET right /\ right \in SUBSET (1 .. j - 1)
  BY <1>2, <1>3, <1>6, <1>7
<1>10. left = right
  BY <1>6, <1>8, <1>9, FS_Subset
<1>11. i \in right /\ i \notin left
  BY <1>2, <1>3, <1>6, <1>7, DocParts
<1> QED
  BY <1>10, <1>11

\* The node of an unnamed device is not the root's (BlueprintCanvas.tsx:222).
LEMMA NodeNames == \A p : <<"(unnamed)", p[1], p[2]>> # Root
<1>1. DOMAIN Root = 1 .. 2
  BY DEF Root
<1>2. \A p : DOMAIN <<"(unnamed)", p[1], p[2]>> = 1 .. 3
  OBVIOUS
<1>3. 3 \notin 1 .. 2 /\ 3 \in 1 .. 3
  OBVIOUS
<1> QED
  BY <1>1, <1>2, <1>3

\* The nodes of the devices, by position.
Nodes(doc) == [i \in DOMAIN doc |-> NodeId(doc[i], Place(doc)[i])]

\* What the canvas draws, in these terms (BlueprintCanvas.tsx:182-249).
LEMMA DrawnGraph ==
  ASSUME NEW doc, IsDoc(doc)
  PROVE  /\ CanvasGraph(doc).nodes = {Root} \cup {Nodes(doc)[i] : i \in DOMAIN doc}
         /\ CanvasGraph(doc).edges = {<<EdgeSource(doc, i), Nodes(doc)[i]>> : i \in DOMAIN doc}
  BY DEF CanvasGraph, Graph, Nodes

\* Every edge ends at a drawn node, and starts at one or at a name that every
\* object inherits (BlueprintCanvas.tsx:188, 231-247).
LEMMA EdgesAreDrawn ==
  ASSUME NEW doc, IsDoc(doc), NEW e \in CanvasGraph(doc).edges
  PROVE  /\ e[1] \in CanvasGraph(doc).nodes \cup Inherited
         /\ e[2] \in CanvasGraph(doc).nodes
<1>1. PICK i \in DOMAIN doc : e = <<EdgeSource(doc, i), Nodes(doc)[i]>>
  BY DrawnGraph
<1>2. ASSUME doc[i].uplink \in Named(doc)
      PROVE  \E j \in DOMAIN doc : doc[i].uplink = Nodes(doc)[j]
  <2>1. PICK j \in DOMAIN doc : doc[j].host = doc[i].uplink /\ doc[j].host # NoHost
    BY <1>2 DEF Named, Hosts
  <2>2. Nodes(doc)[j] = doc[j].host
    BY <2>1 DEF Nodes, NodeId
  <2> QED
    BY <2>1, <2>2
<1> QED
  BY <1>1, <1>2, DrawnGraph DEF EdgeSource, Found

\* The nodes of the unnamed devices.
Placeholders(doc) ==
  {NodeId(doc[i], Place(doc)[i]) : i \in {j \in DOMAIN doc : doc[j].host = NoHost}}

\* With unique names, none of them the placeholder of an unnamed device, each
\* device has a node of its own (BlueprintCanvas.tsx:214-230).
LEMMA NodesAreApart ==
  ASSUME NEW doc, IsDoc(doc),
         \A i, j \in DOMAIN doc : doc[i].host = doc[j].host => i = j \/ doc[i].host = NoHost,
         Root \notin Hosts(doc), Placeholders(doc) \cap Hosts(doc) = {}
  PROVE  /\ \A i, j \in DOMAIN doc : Nodes(doc)[i] = Nodes(doc)[j] => i = j
         /\ \A i \in DOMAIN doc : Nodes(doc)[i] # Root
<1>1. PICK place : place = Place(doc)
  OBVIOUS
<1>2. \A i \in DOMAIN doc :
        Nodes(doc)[i] = IF doc[i].host = NoHost
                        THEN <<"(unnamed)", place[i][1], place[i][2]>> ELSE doc[i].host
  BY <1>1 DEF Nodes, NodeId
<1>3. \A i \in DOMAIN doc : doc[i].host \in Host \cup {NoHost} /\ i \in Nat
  <2>1. Len(doc) \in Nat /\ DOMAIN doc = 1 .. Len(doc)
    BY DocParts
  <2>2. \A i \in 1 .. Len(doc) : doc[i].host \in Host \cup {NoHost}
    BY DocParts
  <2> QED
    BY <2>1, <2>2
<1>6. \A i, j \in DOMAIN doc : doc[i].host = NoHost => Nodes(doc)[i] # doc[j].host
  BY DEF Placeholders, Nodes, Hosts
<1>4. ASSUME NEW i \in DOMAIN doc, NEW j \in DOMAIN doc, Nodes(doc)[i] = Nodes(doc)[j]
      PROVE  i = j
  <2>1. CASE doc[i].host # NoHost /\ doc[j].host # NoHost
    BY <1>2, <1>4, <2>1
  <2>2. CASE doc[i].host # NoHost /\ doc[j].host = NoHost
    BY <1>2, <1>4, <1>6, <2>2
  <2>3. CASE doc[i].host = NoHost /\ doc[j].host # NoHost
    BY <1>2, <1>4, <1>6, <2>3
  <2>4. CASE doc[i].host = NoHost /\ doc[j].host = NoHost
    <3>1. place[i][1] = place[j][1] /\ place[i][2] = place[j][2]
      <4>1. <<"(unnamed)", place[i][1], place[i][2]>> = <<"(unnamed)", place[j][1], place[j][2]>>
        BY <1>2, <1>4, <2>4
      <4>2. \A a, b, c, d : <<"(unnamed)", a, b>> = <<"(unnamed)", c, d>> => a = c /\ b = d
        OBVIOUS
      <4> QED
        BY <4>1, <4>2
    <3>2. \A k \in DOMAIN doc : \E c, r : place[k] = <<c, r>>
      BY <1>1 DEF Place
    <3>3. place[i] = place[j]
      BY <3>1, <3>2
    <3>4. i < j \/ j < i \/ i = j
      BY <1>3
    <3> QED
      BY <1>1, <3>3, <3>4, PlacesAreApart
  <2> QED
    BY <2>1, <2>2, <2>3, <2>4
<1>5. \A i \in DOMAIN doc : Nodes(doc)[i] # Root
  BY <1>2, NodeNames DEF Hosts
<1> QED
  BY <1>4, <1>5

\* The canvas draws no edge to a node that is not there, and none from one but
\* for uplinks to a name that every object inherits; and it draws one node per
\* device besides the root, if the names are unique and none is the root's or
\* the placeholder of an unnamed device: for any document that can be loaded,
\* typed or edited, with uplinks that go round too (BlueprintCanvas.tsx:182-249).
THEOREM CanvasDrawsEveryDevice ==
  ASSUME NEW doc, IsDoc(doc)
  PROVE  /\ \A e \in CanvasGraph(doc).edges :
              /\ e[1] \in CanvasGraph(doc).nodes \cup Inherited
              /\ e[2] \in CanvasGraph(doc).nodes
         /\ /\ \A i, j \in DOMAIN doc :
                 doc[i].host = doc[j].host => i = j \/ doc[i].host = NoHost
            /\ Root \notin Hosts(doc)
            /\ Placeholders(doc) \cap Hosts(doc) = {}
            => Cardinality(CanvasGraph(doc).nodes) = Len(doc) + 1
<1>1. ASSUME \A i, j \in DOMAIN doc :
               doc[i].host = doc[j].host => i = j \/ doc[i].host = NoHost,
             Root \notin Hosts(doc),
             Placeholders(doc) \cap Hosts(doc) = {}
      PROVE  Cardinality(CanvasGraph(doc).nodes) = Len(doc) + 1
  <2>1. PICK n \in Nat : n = Len(doc) /\ DOMAIN doc = 1 .. n
    BY DocParts
  <2>2. PICK f : f = Nodes(doc)
    OBVIOUS
  <2>3. PICK S : S = {f[i] : i \in 1 .. n}
    OBVIOUS
  <2>4. f \in [1 .. n -> S]
    <3>1. f = [i \in 1 .. n |-> f[i]]
      BY <2>1, <2>2 DEF Nodes
    <3> QED
      BY <2>3, <3>1
  <2>5. /\ \A i, j \in 1 .. n : f[i] = f[j] => i = j
        /\ Root \notin S
    BY <1>1, <2>1, <2>2, <2>3, NodesAreApart
  <2>6. f \in Bijection(1 .. n, S)
    BY <2>3, <2>4, <2>5 DEF Bijection, Injection, Surjection, IsInjective
  <2>7. IsFiniteSet(1 .. n) /\ Cardinality(1 .. n) = n
    BY FS_Interval
  <2>8. IsFiniteSet(S) /\ Cardinality(S) = n
    BY <2>6, <2>7, FS_Bijection DEF ExistsBijection
  <2>9. CanvasGraph(doc).nodes = S \cup {Root}
    BY <2>1, <2>2, <2>3, DrawnGraph
  <2> QED
    BY <2>1, <2>5, <2>8, <2>9, FS_AddElement
<1> QED
  BY <1>1, EdgesAreDrawn

-----------------------------------------------------------------------------
(* The walk up the uplinks (BlueprintCanvas.tsx:186-200).  A walk is a      *)
(* device and the names seen on the way to it; what is left of it are the   *)
(* names of the document not yet seen.                                      *)
Walks(doc) == Found(doc) \X SUBSET Found(doc)
Left(doc, p) == Cardinality(Named(doc) \ p[2])
Parent(doc, h) == ByHost(doc)[h].uplink
Climbs(doc, p) == p[1] \notin p[2] /\ Parent(doc, p[1]) \in Found(doc)
Above(doc, p) == <<Parent(doc, p[1]), p[2] \cup {p[1]}>>
WalkStep(doc, f, p) ==
  IF p[1] \in p[2] \/ Parent(doc, p[1]) \notin Found(doc) THEN 1 ELSE f[Above(doc, p)] + 1
WalkOf(doc, f) == f = [p \in Walks(doc) |-> WalkStep(doc, f, p)]

\* The names of a document are finitely many, no more than its devices
\* (buildGraph's byHost, BlueprintCanvas.tsx:186).
LEMMA NamesAreFinite ==
  ASSUME NEW doc, IsDoc(doc)
  PROVE  IsFiniteSet(Named(doc)) /\ Cardinality(Named(doc)) <= Len(doc)
<1>1. Len(doc) \in Nat /\ DOMAIN doc = 1 .. Len(doc)
  BY DocParts
<1>2. IsFiniteSet(1 .. Len(doc)) /\ Cardinality(1 .. Len(doc)) = Len(doc)
  <2>1. 1 \in Int /\ Len(doc) \in Int /\ (1 > Len(doc) => Len(doc) = 0)
    BY <1>1
  <2> QED BY <1>1, <2>1, FS_Interval
<1> DEFINE named == {i \in 1 .. Len(doc) : doc[i].host # NoHost}
           hostAt == [i \in named |-> doc[i].host]
<1>3. IsFiniteSet(named) /\ Cardinality(named) <= Len(doc)
  <2>1. named \in SUBSET (1 .. Len(doc))
    OBVIOUS
  <2> HIDE DEF named
  <2> QED BY <1>2, <2>1, FS_Subset
<1>4. hostAt \in Surjection(named, Named(doc))
  BY <1>1 DEF Surjection, Named, Hosts
<1> HIDE DEF named, hostAt
<1>5. IsFiniteSet(Named(doc)) /\ Cardinality(Named(doc)) <= Cardinality(named)
  BY <1>3, <1>4, FS_Surjection
<1> QED
  BY <1>1, <1>3, <1>5, FS_CardinalityType

\* Only the document's names have an uplink: a walk ends at a name that every
\* object inherits (BlueprintCanvas.tsx:188, 196-198).
LEMMA InheritedEnds ==
  ASSUME NEW doc, NEW h \in Found(doc) \ Named(doc)
  PROVE  Parent(doc, h) = NoHost /\ NoHost \notin Found(doc)
<1>1. Parent(doc, h) = NoHost
  BY DEF Parent, ByHost
<1>2. NoHost \notin Inherited
  <2>1. \A g \in Inherited : g[1] # ""
    BY WordsAssumption
  <2>2. NoHost[1] = "" BY DEF NoHost
  <2> QED BY <2>1, <2>2
<1> QED BY <1>1, <1>2 DEF Found, Named

\* A walk that goes up has one name less left (BlueprintCanvas.tsx:193-200).
LEMMA ClimbingShortens ==
  ASSUME NEW doc, IsFiniteSet(Named(doc)), NEW p \in Walks(doc)
  PROVE  /\ Left(doc, p) \in Nat /\ Left(doc, p) <= Cardinality(Named(doc))
         /\ Climbs(doc, p) => /\ Above(doc, p) \in Walks(doc)
                              /\ Left(doc, Above(doc, p)) \in Nat
                              /\ Left(doc, Above(doc, p)) < Left(doc, p)
<1> DEFINE left == Named(doc) \ p[2]
<1>1. p[1] \in Found(doc) /\ p[2] \in SUBSET Found(doc) /\ p = <<p[1], p[2]>>
  BY DEF Walks
<1>2. left \in SUBSET Named(doc)
  OBVIOUS
<1>3. Left(doc, p) = Cardinality(left)
  BY DEF Left
<1>4. Above(doc, p)[2] = p[2] \cup {p[1]}
  BY DEF Above
<1>5. Left(doc, Above(doc, p)) = Cardinality(left \ {p[1]})
  <2>1. Named(doc) \ (p[2] \cup {p[1]}) = left \ {p[1]}
    OBVIOUS
  <2> QED BY <1>4, <2>1 DEF Left
<1>6. Climbs(doc, p) => p[1] \in left /\ Above(doc, p) \in Walks(doc)
  BY <1>1, InheritedEnds DEF Climbs, Above, Walks
<1> HIDE DEF left
<1>7. IsFiniteSet(left) /\ Cardinality(left) \in Nat /\ Cardinality(left) <= Cardinality(Named(doc))
  BY <1>2, FS_Subset, FS_CardinalityType
<1>8. p[1] \in left => Cardinality(left \ {p[1]}) = Cardinality(left) - 1
                       /\ Cardinality(left \ {p[1]}) \in Nat
  BY <1>7, FS_RemoveElement, FS_CardinalityType
<1> QED
  BY <1>3, <1>5, <1>6, <1>7, <1>8

\* Whatever holds of a walk if it holds of the one above it holds of every
\* walk: the walks of a document end (BlueprintCanvas.tsx:193-200).
LEMMA WalkInduction ==
  ASSUME NEW doc, IsFiniteSet(Named(doc)), NEW good,
         \A p \in Walks(doc) : (Climbs(doc, p) => Above(doc, p) \in good) => p \in good
  PROVE  Walks(doc) \subseteq good
<1> DEFINE open == {n \in Nat : \E p \in Walks(doc) : Left(doc, p) = n /\ p \notin good}
<1>1. SUFFICES ASSUME NEW p \in Walks(doc), p \notin good PROVE FALSE
  OBVIOUS
<1>2. Left(doc, p) \in open
  BY <1>1, ClimbingShortens
<1>3. open \in SUBSET Nat
  OBVIOUS
<1>4. PICK n \in open : \A m \in open : n <= m
  <2> HIDE DEF open
  <2> QED BY <1>2, <1>3, LeastExists
<1>5. PICK q \in Walks(doc) : Left(doc, q) = n /\ q \notin good
  BY <1>4
<1>6. Climbs(doc, q) /\ Above(doc, q) \notin good
  BY <1>5
<1>7. Left(doc, Above(doc, q)) \in open
  BY <1>6, ClimbingShortens
<1>8. Left(doc, Above(doc, q)) < n /\ n \in Nat /\ Left(doc, Above(doc, q)) \in Nat
  BY <1>5, <1>6, ClimbingShortens
<1> QED
  BY <1>4, <1>7, <1>8

\* The recursion that computes the columns has a solution, so depth is what
\* its definition says (BlueprintCanvas.tsx:193-200).
LEMMA WalkExists ==
  ASSUME NEW doc, IsFiniteSet(Named(doc))
  PROVE  \E f : WalkOf(doc, f)
<1> DEFINE Solves(g, n) == \A p \in Walks(doc) : Left(doc, p) < n => g[p] = WalkStep(doc, g, p)
           open == {n \in Nat : ~\E g : Solves(g, n)}
<1>1. ASSUME NEW n \in Nat, n > 0, NEW g, Solves(g, n - 1)
      PROVE  \E h : Solves(h, n)
  <2>1. PICK h : h = [p \in Walks(doc) |-> IF Left(doc, p) < n - 1 THEN g[p]
                                           ELSE WalkStep(doc, g, p)]
    OBVIOUS
  <2>2. ASSUME NEW p \in Walks(doc), Left(doc, p) < n
        PROVE  h[p] = WalkStep(doc, h, p)
    <3>1. h[p] = WalkStep(doc, g, p)
      BY <1>1, <2>1
    <3>2. CASE ~Climbs(doc, p)
      BY <3>1, <3>2 DEF WalkStep, Climbs
    <3>3. CASE Climbs(doc, p)
      <4>1. Above(doc, p) \in Walks(doc) /\ Left(doc, Above(doc, p)) < n - 1
        BY <1>1, <2>2, <3>3, ClimbingShortens
      <4>2. h[Above(doc, p)] = g[Above(doc, p)]
        BY <2>1, <4>1
      <4> QED
        BY <3>1, <4>2 DEF WalkStep
    <3> QED
      BY <3>2, <3>3
  <2> QED
    BY <2>2
<1>2. open = {}
  <2>1. SUFFICES ASSUME open # {} PROVE FALSE
    OBVIOUS
  <2>2. open \in SUBSET Nat
    OBVIOUS
  <2>3. PICK n \in open : \A m \in open : n <= m
    <3> HIDE DEF open
    <3> QED BY <2>1, <2>2, LeastExists
  <2>4. Solves(<<>>, 0)
    <3>1. \A p \in Walks(doc) : Left(doc, p) \in Nat
      BY ClimbingShortens
    <3>2. \A p \in Walks(doc) : ~(Left(doc, p) < 0)
      BY <3>1
    <3> QED BY <3>2
  <2>5. n \in Nat /\ n > 0
    <3>1. n # 0
      BY <2>3, <2>4
    <3> QED BY <2>3, <3>1
  <2>6. n - 1 \in Nat /\ n - 1 \notin open
    BY <2>3, <2>5
  <2>7. PICK g : Solves(g, n - 1)
    BY <2>6
  <2> HIDE DEF Solves
  <2> QED
    BY <1>1, <2>3, <2>5, <2>7
<1> DEFINE top == Cardinality(Named(doc)) + 1
<1>3. top \in Nat
  BY FS_CardinalityType
<1>4. PICK g : Solves(g, top)
  <2> HIDE DEF Solves, top
  <2> QED BY <1>2, <1>3
<1>5. \A p \in Walks(doc) : Left(doc, p) < top
  BY ClimbingShortens, FS_CardinalityType
<1>6. \A p \in Walks(doc) : g[p] = WalkStep(doc, g, p)
  BY <1>4, <1>5
<1>7. PICK f : f = [p \in Walks(doc) |-> g[p]]
  OBVIOUS
<1>8. ASSUME NEW p \in Walks(doc) PROVE WalkStep(doc, f, p) = g[p]
  <2>1. Climbs(doc, p) => f[Above(doc, p)] = g[Above(doc, p)]
    BY <1>7, ClimbingShortens
  <2> QED
    BY <1>6, <2>1 DEF WalkStep, Climbs
<1>9. f = [p \in Walks(doc) |-> WalkStep(doc, f, p)]
  BY <1>7, <1>8
<1> QED
  BY <1>9 DEF WalkOf

\* The depth of a device is that solution at the walk that has seen nothing
\* (BlueprintCanvas.tsx:193-200).
LEMMA DepthIsWalk ==
  ASSUME NEW doc, IsFiniteSet(Named(doc))
  PROVE  \E f : /\ WalkOf(doc, f)
                /\ \A h : Depth(doc, h) = IF h = NoHost THEN 1 ELSE f[<<h, {}>>]
<1>1. PICK f : f = CHOOSE g : g = [p \in Walks(doc) |-> WalkStep(doc, g, p)]
  OBVIOUS
<1>2. WalkOf(doc, f)
  BY <1>1, WalkExists, Zenon DEF WalkOf
<1>3. ASSUME NEW h, h # NoHost PROVE Depth(doc, h) = f[<<h, {}>>]
  <2>1. Depth(doc, h) =
          (CHOOSE g : g = [p \in Found(doc) \X SUBSET Found(doc) |->
             IF p[1] \in p[2] \/ ByHost(doc)[p[1]].uplink \notin Found(doc) THEN 1
             ELSE g[<<ByHost(doc)[p[1]].uplink, p[2] \cup {p[1]}>>] + 1])[<<h, {}>>]
    BY <1>3, Zenon DEF Depth
  <2>2. Depth(doc, h) =
          (CHOOSE g : g = [p \in Walks(doc) |-> WalkStep(doc, g, p)])[<<h, {}>>]
    BY <2>1, Zenon DEF Walks, WalkStep, Above, Parent
  <2> QED
    BY <1>1, <2>2, Zenon
<1>4. \A h : h = NoHost => Depth(doc, h) = 1
  BY DEF Depth
<1> QED
  BY <1>2, <1>3, <1>4

\* A walk counts the names it has left at most, and itself.
LEMMA WalkRange ==
  ASSUME NEW doc, IsFiniteSet(Named(doc)), NEW f, WalkOf(doc, f)
  PROVE  \A p \in Walks(doc) : f[p] \in 1 .. Left(doc, p) + 1
<1> DEFINE good == {p \in Walks(doc) : f[p] \in 1 .. Left(doc, p) + 1}
<1>1. ASSUME NEW p \in Walks(doc), Climbs(doc, p) => Above(doc, p) \in good
      PROVE  f[p] \in 1 .. Left(doc, p) + 1
  <2>1. f[p] = WalkStep(doc, f, p)
    BY DEF WalkOf
  <2>2. Left(doc, p) \in Nat
    BY ClimbingShortens
  <2>3. CASE ~Climbs(doc, p)
    BY <2>1, <2>2, <2>3 DEF WalkStep, Climbs
  <2>4. CASE Climbs(doc, p)
    <3>1. f[p] = f[Above(doc, p)] + 1
      BY <2>1, <2>4 DEF WalkStep, Climbs
    <3>2. f[Above(doc, p)] \in 1 .. Left(doc, Above(doc, p)) + 1
      BY <1>1, <2>4
    <3>3. Left(doc, Above(doc, p)) \in Nat /\ Left(doc, Above(doc, p)) < Left(doc, p)
      BY <2>4, ClimbingShortens
    <3> QED
      BY <2>2, <3>1, <3>2, <3>3
  <2> QED
    BY <2>3, <2>4
<1>2. \A p \in Walks(doc) : (Climbs(doc, p) => Above(doc, p) \in good) => p \in good
  BY <1>1
<1>3. Walks(doc) \subseteq good
  <2> HIDE DEF good
  <2> QED BY <1>2, WalkInduction
<1> QED
  BY <1>3

\* The walks among names whose uplinks stay among them do not care whether
\* another name was seen (the guard of BlueprintCanvas.tsx:195).
LEMMA WalkIgnores ==
  ASSUME NEW doc, IsFiniteSet(Named(doc)), NEW f, WalkOf(doc, f),
         NEW s \in SUBSET Found(doc),
         \A g \in s : Parent(doc, g) \in Found(doc) => Parent(doc, g) \in s,
         NEW h \in Found(doc) \ s
  PROVE  \A p \in Walks(doc) : p[1] \in s => f[<<p[1], p[2] \cup {h}>>] = f[p]
<1> DEFINE good == {p \in Walks(doc) : p[1] \in s => f[<<p[1], p[2] \cup {h}>>] = f[p]}
<1>1. ASSUME NEW p \in Walks(doc), Climbs(doc, p) => Above(doc, p) \in good, p[1] \in s
      PROVE  f[<<p[1], p[2] \cup {h}>>] = f[p]
  <2>1. PICK q : q = <<p[1], p[2] \cup {h}>>
    OBVIOUS
  <2>2. p[1] \in Found(doc) /\ p[2] \in SUBSET Found(doc) /\ q \in Walks(doc)
        /\ q[1] = p[1] /\ q[2] = p[2] \cup {h}
    BY <2>1 DEF Walks
  <2>3. f[p] = WalkStep(doc, f, p) /\ f[q] = WalkStep(doc, f, q)
    BY <2>2 DEF WalkOf
  <2>4. Climbs(doc, q) <=> Climbs(doc, p)
    BY <1>1, <2>2 DEF Climbs
  <2>5. CASE ~Climbs(doc, p)
    BY <2>1, <2>3, <2>4, <2>5 DEF WalkStep, Climbs
  <2>6. CASE Climbs(doc, p)
    <3>1. f[p] = f[Above(doc, p)] + 1 /\ f[q] = f[Above(doc, q)] + 1
      BY <2>3, <2>4, <2>6 DEF WalkStep, Climbs
    <3>2. PICK a : a = Above(doc, p)
      OBVIOUS
    <3>3. a[1] = Parent(doc, p[1]) /\ a[2] = p[2] \cup {p[1]}
      BY <3>2 DEF Above
    <3>4. a[1] \in s
      BY <1>1, <2>6, <3>3 DEF Climbs
    <3>5. Above(doc, q) = <<a[1], a[2] \cup {h}>>
      <4>1. q[2] \cup {q[1]} = a[2] \cup {h}
        BY <2>2, <3>3
      <4> QED BY <2>2, <3>3, <4>1 DEF Above
    <3>6. f[Above(doc, q)] = f[a]
      BY <1>1, <2>6, <3>2, <3>4, <3>5
    <3> QED
      BY <2>1, <3>1, <3>2, <3>6
  <2> QED
    BY <2>5, <2>6
<1>2. \A p \in Walks(doc) : (Climbs(doc, p) => Above(doc, p) \in good) => p \in good
  BY <1>1
<1>3. Walks(doc) \subseteq good
  <2> HIDE DEF good
  <2> QED BY <1>2, WalkInduction
<1> QED
  BY <1>3

\* The walk up the uplinks of any document ends, whatever names are missing,
\* repeated or uplinked in a circle: a device stands in a column between 1 and
\* one more than the number of devices (BlueprintCanvas.tsx:193-213).
THEOREM ColumnsAreBounded ==
  ASSUME NEW doc, IsDoc(doc), NEW i \in DOMAIN doc
  PROVE  Place(doc)[i][1] \in 1 .. Len(doc) + 1
<1>1. IsFiniteSet(Named(doc)) /\ Cardinality(Named(doc)) <= Len(doc) /\ Len(doc) \in Nat
      /\ Cardinality(Named(doc)) \in Nat
  BY NamesAreFinite, DocParts, FS_CardinalityType
<1>2. PICK f : /\ WalkOf(doc, f)
               /\ \A h : Depth(doc, h) = IF h = NoHost THEN 1 ELSE f[<<h, {}>>]
  BY <1>1, DepthIsWalk
<1>3. Place(doc)[i][1] = Depth(doc, doc[i].host)
  BY DEF Place
<1>4. CASE doc[i].host = NoHost
  <2>1. Place(doc)[i][1] = 1
    BY <1>2, <1>3, <1>4
  <2> QED
    BY <1>1, <2>1
<1>5. CASE doc[i].host # NoHost
  <2>1. PICK p : p = <<doc[i].host, {}>>
    OBVIOUS
  <2>2. p \in Walks(doc)
    BY <1>5, <2>1 DEF Walks, Found, Named, Hosts
  <2>3. Place(doc)[i][1] \in 1 .. Left(doc, p) + 1
    BY <1>1, <1>2, <1>3, <1>5, <2>1, <2>2, WalkRange
  <2>4. Left(doc, p) \in Nat /\ Left(doc, p) <= Cardinality(Named(doc))
    BY <1>1, <2>2, ClimbingShortens
  <2> QED
    BY <1>1, <2>3, <2>4
<1> QED
  BY <1>4, <1>5

\* A device stands one column right of its uplink unless it is its own
\* ancestor: s holds the uplink and the uplinks of what it holds, and not the
\* device (BlueprintCanvas.tsx:193-200).
LEMMA OneColumnRight ==
  ASSUME NEW doc, IsDoc(doc), NEW s \in SUBSET Named(doc),
         \A g \in s : Parent(doc, g) \in Named(doc) => Parent(doc, g) \in s,
         NEW h \in Named(doc) \ s, Parent(doc, h) \in s
  PROVE  Depth(doc, h) = Depth(doc, Parent(doc, h)) + 1
<1>1. IsFiniteSet(Named(doc))
  BY NamesAreFinite
<1>2. PICK f : /\ WalkOf(doc, f)
               /\ \A g : Depth(doc, g) = IF g = NoHost THEN 1 ELSE f[<<g, {}>>]
  BY <1>1, DepthIsWalk
<1>3. PICK up : up = Parent(doc, h)
  OBVIOUS
<1>4. up \in Found(doc) /\ h \in Found(doc) /\ h # NoHost /\ up # NoHost
  BY <1>3 DEF Named, Found
<1>5. PICK p : p = <<h, {}>>
  OBVIOUS
<1>6. p \in Walks(doc) /\ p[1] = h /\ p[2] = {} /\ <<up, {}>> \in Walks(doc)
  BY <1>4, <1>5 DEF Walks
<1>7. f[p] = f[<<up, {h}>>] + 1
  <2>1. f[p] = WalkStep(doc, f, p)
    BY <1>2, <1>6 DEF WalkOf
  <2>2. Above(doc, p) = <<up, {h}>>
    BY <1>3, <1>6 DEF Above
  <2> QED
    BY <1>3, <1>4, <1>6, <2>1, <2>2 DEF WalkStep
<1>8. f[<<up, {h}>>] = f[<<up, {}>>]
  <2>1. PICK q : q = <<up, {}>>
    OBVIOUS
  <2>2. q \in Walks(doc) /\ q[1] = up /\ q[1] \in s /\ q[2] \cup {h} = {h}
    BY <1>3, <1>6, <2>1
  <2>3. PICK t \in SUBSET Found(doc) : t = s \cup (Found(doc) \ Named(doc))
    BY DEF Found
  <2>4. \A g \in t : Parent(doc, g) \in Found(doc) => Parent(doc, g) \in t
    BY <2>3, InheritedEnds
  <2>5. h \in Found(doc) \ t
    BY <1>4, <2>3
  <2>6. f[<<q[1], q[2] \cup {h}>>] = f[q]
    BY <1>1, <1>2, <2>2, <2>3, <2>4, <2>5, WalkIgnores
  <2> QED
    BY <2>1, <2>2, <2>6
<1> QED
  BY <1>2, <1>3, <1>4, <1>5, <1>7, <1>8
=============================================================================
