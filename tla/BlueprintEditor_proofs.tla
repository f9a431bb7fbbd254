----------------------- MODULE BlueprintEditor_proofs ------------------------
(* Proofs about the blueprint editor, for any ids, texts, names and bounds: *)
(* its types, that the canvas keeps a valid draft valid and draws it, and   *)
(* that validation catches up with the text.  The texts and names of a      *)
(* behaviour are not known beforehand (the canvas makes new texts, the      *)
(* backend new names), so types are relative to those met so far.           *)
EXTENDS BlueprintDoc_proofs, SequenceTheorems

\* A text whose document is one.
IsText(t) == t.yaml \in {"mapping", "empty", "malformed"} /\ IsDoc(t.devices)

Rows(T, N) == [name : N, source : T, version : Int]
PageIds == Ids \cup {New, Away}
Ghosts == [origin : Ids \cup {New}, named : BOOLEAN, edited : BOOLEAN, late : BOOLEAN,
           lost : BOOLEAN, crossed : BOOLEAN, renamed : SUBSET Ids]
Requests(T, N) ==
  [no : Int, mounted : BOOLEAN, kind : {"save", "clone", "delete"},
   target : Ids \cup {New}, name : N, source : T, origin : Ids \cup {New}, named : BOOLEAN, result : Ids \cup {Sent, Refusal, Away}]
Queries(T, N) == [phase : {"idle", "asked", "read"}, row : Rows(T, N)]

\* T and N: texts and names the operator has met so far.
Universe(T, N) ==
  /\ {Home, Empty} \cup Typed \cup Files \cup Starters \subseteq T
  /\ {NoName, <<"home">>} \cup Names \subseteq N
  /\ \A t \in T : IsText(t)
DraftTyped(T, N) ==
  /\ id \in PageIds /\ name \in N /\ source \in T /\ timer \in T \cup {NoText}
  /\ ghost \in Ghosts
ChecksTyped(T) ==
  /\ validating \in Seq([text : T, overtaken : BOOLEAN])
  /\ validation \in T \cup {NoText}
  /\ picked \in [text : T, seen : T] \cup {NotPicked}
RowsTyped(T, N) ==
  /\ db \in [Ids -> Rows(T, N)] /\ cache \in [Ids -> Rows(T, N)]
  /\ fetch \in [Ids -> Queries(T, N)]
  /\ \A b \in Ids : cache[b].version >= 0
PendingTyped(T, N) ==
  /\ pending \subseteq Requests(T, N)
  /\ \A p \in pending : p.kind # "save" => p.target \in Ids
RequestsTyped(T, N) == PendingTyped(T, N) /\ outrun \subseteq Ids
TypedBy(T, N) ==
  /\ Universe(T, N) /\ DraftTyped(T, N) /\ ChecksTyped(T) /\ RowsTyped(T, N)
  /\ RequestsTyped(T, N)
EditorTyped == \E T, N : TypedBy(T, N)
BudgetTyped == budget \in [edits : Int, ops : Int]

-----------------------------------------------------------------------------
\* The ids of rows and the marks of pages and answers are told apart.
LEMMA IdFacts ==
  /\ New \notin Ids /\ Away \notin Ids /\ Sent \notin Ids /\ Refusal \notin Ids /\ 1 \in Ids
  /\ New # Away /\ Sent # Refusal /\ Sent # Away /\ Refusal # Away /\ Ids \subseteq Int
  BY IdsAssumption DEF New, Away, Sent, Refusal

\* The rows that are not there have the type of rows.
LEMMA NoRowTyped ==
  ASSUME NEW T, NEW N, Universe(T, N)
  PROVE  /\ NoRow \in Rows(T, N) /\ Deleted \in Rows(T, N)
         /\ NoRow.version = 0 /\ Deleted.version = -1 /\ Deleted # NoRow
<1>1. NoRow \in Rows(T, N) /\ NoRow.version = 0
  BY DEF Universe, Rows, NoRow
<1>2. Deleted \in Rows(T, N) /\ Deleted.version = -1
  BY <1>1 DEF Deleted, Rows
<1> QED
  BY <1>1, <1>2

\* A text is never the mark for none.
LEMMA TextIsSome ==
  ASSUME NEW T, NEW N, Universe(T, N)
  PROVE  \A t \in T : t # NoText
  BY DEF Universe, IsText, NoText

\* The effect on source (BlueprintEditorPage.tsx:89-104).
LEMMA SetSourceTyped ==
  ASSUME NEW T, NEW text \in T, timer \in T \cup {NoText}, SetSource(text)
  PROVE  source' \in T /\ timer' \in T \cup {NoText}
  BY DEF SetSource

\* The effect on existing.data (BlueprintEditorPage.tsx:77-82): what it loads
\* has the types of the rows.
LEMMA LoadTyped ==
  ASSUME NEW T, NEW N, DraftTyped(T, N), Universe(T, N), NEW b \in PageIds,
         NEW rows \in [Ids -> Rows(T, N)], Load(b, rows)
  PROVE  name' \in N /\ source' \in T /\ timer' \in T \cup {NoText} /\ ghost' \in Ghosts
<1>1. CASE UNCHANGED <<draft, ghost>>
  BY <1>1 DEF DraftTyped, draft
<1>2. CASE ~UNCHANGED <<draft, ghost>>
  <2> DEFINE row == Existing(b, rows)
  <2>1. /\ Stored(row) /\ name' = row.name /\ SetSource(row.source)
        /\ ghost' = [ghost EXCEPT !.origin = b, !.named = FALSE, !.edited = FALSE]
    BY <1>2 DEF Load
  <2>2. b \in Ids
    BY <2>1 DEF Existing, Stored, NoRow
  <2>3. row \in Rows(T, N)
    BY <2>2 DEF Existing
  <2> HIDE DEF row
  <2>4. source' \in T /\ timer' \in T \cup {NoText}
    BY <2>1, <2>3, SetSourceTyped DEF Rows, DraftTyped
  <2>5. name' \in N
    BY <2>1, <2>3 DEF Rows
  <2>6. ghost' \in Ghosts
    BY <2>1, <2>2 DEF Ghosts, DraftTyped
  <2> QED
    BY <2>4, <2>5, <2>6
<1> QED
  BY <1>1, <1>2

\* A query that is asked for was idle, and is not idle afterwards.
LEMMA AskTyped ==
  ASSUME NEW T, NEW N, NEW f \in [Ids -> Queries(T, N)], NEW b
  PROVE  /\ Ask(f, b) \in [Ids -> Queries(T, N)]
         /\ \A c \in Ids : \/ Ask(f, b)[c] = f[c]
                           \/ c = b /\ f[c].phase = "idle" /\ Ask(f, b)[c].phase = "asked"
         /\ b \in Ids => Ask(f, b)[b].phase # "idle"
<1>1. CASE b \in Ids /\ f[b].phase = "idle"
  <2>1. Ask(f, b) = [f EXCEPT ![b].phase = "asked"]
    BY <1>1 DEF Ask
  <2>2. f[b] \in Queries(T, N)
    BY <1>1
  <2> QED
    BY <1>1, <2>1, <2>2 DEF Queries
<1>2. CASE ~(b \in Ids /\ f[b].phase = "idle")
  BY <1>2 DEF Ask
<1> QED
  BY <1>1, <1>2

\* Invalidation restarts the query of the route only; with data on the page it
\* leaves nothing of an answer on its way.
LEMMA InvalidateTyped ==
  ASSUME NEW T, NEW N, Universe(T, N), NEW f \in [Ids -> Queries(T, N)]
  PROVE  /\ Invalidate(f) \in [Ids -> Queries(T, N)]
         /\ \A c \in Ids : \/ Invalidate(f)[c] = f[c]
                           \/ c = id /\ Invalidate(f)[c].phase = "asked"
         /\ id \in Ids => Invalidate(f)[id].phase # "idle"
         /\ id \in Ids /\ Stored(cache[id]) => Invalidate(f)[id].phase = "asked"
<1>1. CASE id \in Ids /\ Stored(cache[id])
  <2>1. Invalidate(f) = [f EXCEPT ![id] = [phase |-> "asked", row |-> NoRow]]
    BY <1>1 DEF Invalidate
  <2>2. [phase |-> "asked", row |-> NoRow] \in Queries(T, N)
    BY NoRowTyped DEF Queries
  <2> QED
    BY <1>1, <2>1, <2>2
<1>2. CASE ~(id \in Ids /\ Stored(cache[id]))
  BY <1>2, AskTyped DEF Invalidate
<1> QED
  BY <1>1, <1>2

\* The route changes within the mounted page, or the page is mounted anew.
Stays(b) ==
  /\ id = b \/ b = Away \/ id # Away
  /\ Load(b, cache) /\ UNCHANGED checks
Mounted(b) ==
  LET row == Existing(b, cache)
      known == Stored(row)
  IN /\ id # b /\ b # Away
     /\ name' = IF known THEN row.name ELSE NoName
     /\ source' = IF known THEN row.source ELSE Home
     /\ timer' = source'
     /\ ghost' = [ghost EXCEPT !.origin = IF known THEN b ELSE New,
                               !.named = FALSE, !.edited = FALSE, !.late = FALSE]
     /\ validating' = <<>> /\ validation' = NoText /\ picked' = NotPicked

\* The requests of a component that is gone.
Unmounted(out) == {[p EXCEPT !.mounted = FALSE] : p \in out}

\* The two ways a route changes (BlueprintEditorPage.tsx:51-82).
LEMMA GoToCases ==
  ASSUME NEW b, NEW f, NEW out, GoTo(b, f, out)
  PROVE  /\ id' = b /\ fetch' = (IF b = id THEN f ELSE Ask(f, b))
         /\ Stays(b) \/ Mounted(b)
         /\ pending' = out \/ pending' = Unmounted(out)
  BY DEF GoTo, Stays, Mounted, Unmounted

\* They differ from those of the component in nothing else.
SameRequest(p, q) ==
  /\ q.kind = p.kind /\ q.target = p.target /\ q.result = p.result
  /\ q.origin = p.origin /\ q.named = p.named /\ q.name = p.name

\* What a component that is gone has sent is as it was sent.
LEMMA UnmountedTyped ==
  ASSUME NEW T, NEW N, NEW out \in SUBSET Requests(T, N)
  PROVE  /\ Unmounted(out) \subseteq Requests(T, N)
         /\ \A q \in Unmounted(out) : \E p \in out : SameRequest(p, q)
         /\ \A p \in out : \E q \in Unmounted(out) : SameRequest(p, q)
<1>1. ASSUME NEW p \in out
      PROVE  LET q == [p EXCEPT !.mounted = FALSE]
             IN q \in Requests(T, N) /\ SameRequest(p, q)
  <2>1. p \in Requests(T, N)
    OBVIOUS
  <2> QED
    BY <2>1 DEF Requests, SameRequest
<1> QED
  BY <1>1, Zenon DEF Unmounted

\* A change of route keeps the types.
LEMMA GoToTyped ==
  ASSUME NEW T, NEW N, Universe(T, N), DraftTyped(T, N), ChecksTyped(T), RowsTyped(T, N),
         NEW b \in PageIds, NEW f \in [Ids -> Queries(T, N)],
         NEW out \in SUBSET pending, PendingTyped(T, N), GoTo(b, f, out)
  PROVE  /\ DraftTyped(T, N)' /\ ChecksTyped(T)' /\ PendingTyped(T, N)'
         /\ fetch' \in [Ids -> Queries(T, N)]
<1>1. id' = b /\ fetch' = (IF b = id THEN f ELSE Ask(f, b)) /\ (Stays(b) \/ Mounted(b))
  BY GoToCases
<1>6. PendingTyped(T, N)'
  <2>1. out \in SUBSET Requests(T, N)
    BY DEF PendingTyped
  <2>2. CASE pending' = out
    BY <2>2 DEF PendingTyped
  <2>3. CASE pending' = Unmounted(out)
    BY <2>1, <2>3, UnmountedTyped DEF PendingTyped, SameRequest
  <2> QED
    BY <2>2, <2>3, GoToCases
<1>2. fetch' \in [Ids -> Queries(T, N)]
  BY <1>1, AskTyped
<1>3. cache \in [Ids -> Rows(T, N)]
  BY DEF RowsTyped
<1>4. CASE Stays(b)
  <2>1. DraftTyped(T, N)'
    BY <1>1, <1>3, <1>4, LoadTyped DEF Stays, DraftTyped
  <2>2. ChecksTyped(T)'
    BY <1>4 DEF Stays, checks, ChecksTyped
  <2> QED
    BY <1>2, <1>6, <2>1, <2>2
<1>5. CASE Mounted(b)
  <2>1. validating' = <<>> /\ validation' = NoText /\ picked' = NotPicked
    BY <1>5 DEF Mounted
  <2>2. ChecksTyped(T)'
    BY <2>1 DEF ChecksTyped
  <2>3. Stored(Existing(b, cache)) => b \in Ids /\ Existing(b, cache) \in Rows(T, N)
    BY <1>3 DEF Existing, Stored, NoRow
  <2>4. name' \in N /\ source' \in T /\ timer' \in T \cup {NoText}
    BY <1>5, <2>3 DEF Mounted, Rows, Universe
  <2>5. ghost' \in Ghosts
    BY <1>5, <2>3 DEF Mounted, Ghosts, DraftTyped
  <2> QED
    BY <1>1, <1>2, <1>6, <2>2, <2>4, <2>5 DEF DraftTyped
<1> QED
  BY <1>1, <1>4, <1>5, <1>6


\* What the canvas is given is a document (BlueprintEditorPage.tsx:69-75).
LEMMA DocTyped ==
  ASSUME NEW T, NEW N, Universe(T, N), source \in T
  PROVE  IsDoc(Doc)
<1>1. IsDoc(source.devices)
  BY DEF Universe, IsText
<1>2. IsDoc(<<>>)
  <2>1. <<>> \in Seq(Device)
    OBVIOUS
  <2> QED
    BY <2>1, DeviceDocs
<1>3. Doc = <<>> \/ Doc = source.devices
  BY DEF Doc, ParseBlueprintYaml
<1> QED
  BY <1>1, <1>2, <1>3

\* Taking one element out of a sequence.
LEMMA WithoutProperties ==
  ASSUME NEW S, NEW seq \in Seq(S), NEW i \in DOMAIN seq
  PROVE  /\ Without(seq, i) \in Seq(S) /\ Len(Without(seq, i)) = Len(seq) - 1
         /\ \A j \in 1 .. Len(seq) - 1 :
              Without(seq, i)[j] = seq[IF j < i THEN j ELSE j + 1]
<1> DEFINE n == Len(seq)  low == SubSeq(seq, 1, i - 1)  high == SubSeq(seq, i + 1, n)
<1>1. n \in Nat /\ i \in 1 .. n /\ \A j \in 1 .. n : seq[j] \in S
  OBVIOUS
<1>2. low \in Seq(S) /\ Len(low) = i - 1 /\ \A j \in 1 .. i - 1 : low[j] = seq[j]
  BY <1>1, SubSeqProperties
<1>3. high \in Seq(S) /\ Len(high) = n - i /\ \A j \in 1 .. n - i : high[j] = seq[j + i]
  BY <1>1, SubSeqProperties
<1>4. Without(seq, i) = low \o high
  BY DEF Without
<1> HIDE DEF n, low, high
<1>5. /\ low \o high \in Seq(S) /\ Len(low \o high) = n - 1
      /\ \A j \in 1 .. n - 1 :
           (low \o high)[j] = IF j <= i - 1 THEN low[j] ELSE high[j - (i - 1)]
  <2>1. /\ low \o high \in Seq(S) /\ Len(low \o high) = Len(low) + Len(high)
        /\ \A j \in 1 .. Len(low) + Len(high) :
             (low \o high)[j] = IF j <= Len(low) THEN low[j] ELSE high[j - Len(low)]
    BY <1>2, <1>3, ConcatProperties
  <2>2. Len(low) = i - 1 /\ Len(low) + Len(high) = n - 1
    BY <1>1, <1>2, <1>3
  <2> QED
    BY <2>1, <2>2
<1>6. ASSUME NEW j \in 1 .. n - 1
      PROVE  (low \o high)[j] = seq[IF j < i THEN j ELSE j + 1]
  <2>1. CASE j < i
    BY <1>1, <1>2, <1>5, <2>1
  <2>2. CASE ~(j < i)
    <3>1. j - (i - 1) \in 1 .. n - i /\ (j - (i - 1)) + i = j + 1 /\ ~(j <= i - 1)
      BY <1>1, <2>2
    <3> QED
      BY <1>3, <1>5, <2>2, <3>1
  <2> QED
    BY <2>1, <2>2
<1> QED
  BY <1>4, <1>5, <1>6 DEF n

-----------------------------------------------------------------------------
(* Types.  *)

\* An edit puts one text into the draft (BlueprintEditorPage.tsx:283-297).
LEMMA EditTyped ==
  ASSUME NEW T, NEW N, TypedBy(T, N), NEW text \in T, Edit(text)
  PROVE  DraftTyped(T, N)' /\ RowsTyped(T, N)' /\ RequestsTyped(T, N)'
<1>1. source' \in T /\ timer' \in T \cup {NoText}
  BY SetSourceTyped DEF Edit, TypedBy, DraftTyped
<1>2. ghost' \in Ghosts
  BY DEF Edit, TypedBy, DraftTyped, Ghosts
<1>3. UNCHANGED <<id, name, db, cache, fetch, pending, outrun>>
  BY DEF Edit
<1> QED
  BY <1>1, <1>2, <1>3 DEF TypedBy, DraftTyped, RowsTyped, RequestsTyped, PendingTyped

\* Typing and picking a starter (BlueprintEditorPage.tsx:246-280).
LEMMA TypingStep ==
  ASSUME NEW T, NEW N, TypedBy(T, N), TypeSource \/ TypeName \/ PickStarter
  PROVE  TypedBy(T, N)'
<1>1. ASSUME NEW text \in T, Edit(text), UNCHANGED checks
      PROVE  TypedBy(T, N)'
  BY <1>1, EditTyped DEF TypedBy, Universe, checks, ChecksTyped
<1>2. CASE TypeSource \/ PickStarter
  BY <1>1, <1>2 DEF TypeSource, PickStarter, TypedBy, Universe
<1>3. CASE TypeName
  <2>1. /\ name' \in N /\ ghost' = [ghost EXCEPT !.named = TRUE, !.edited = TRUE]
        /\ UNCHANGED <<id, source, timer, checks, db, cache, fetch, pending, outrun>>
    BY <1>3 DEF TypeName, TypedBy, Universe
  <2>2. ghost' \in Ghosts
    BY <2>1 DEF TypedBy, DraftTyped, Ghosts
  <2> QED
    BY <2>1, <2>2
    DEF TypedBy, Universe, DraftTyped, checks, ChecksTyped, RowsTyped, RequestsTyped, PendingTyped
<1> QED
  BY <1>2, <1>3

\* Importing a file (BlueprintEditorPage.tsx:139-157).
LEMMA FileStep ==
  ASSUME NEW T, NEW N, TypedBy(T, N), PickFile \/ FileRead
  PROVE  TypedBy(T, N)'
<1>1. CASE PickFile
  <2>1. PICK text \in Files : picked' = [text |-> text, seen |-> source]
    BY <1>1 DEF PickFile
  <2>2. UNCHANGED <<id, draft, validating, validation, db, cache, fetch, pending, ghost, outrun>>
    BY <1>1 DEF PickFile
  <2>3. picked' \in [text : T, seen : T]
    BY <2>1 DEF TypedBy, Universe, DraftTyped
  <2> QED
    BY <2>2, <2>3
    DEF TypedBy, Universe, DraftTyped, draft, ChecksTyped, RowsTyped, RequestsTyped, PendingTyped
<1>2. CASE FileRead
  <2>1. picked # NotPicked /\ picked' = NotPicked /\ UNCHANGED <<validating, validation>>
    BY <1>2 DEF FileRead
  <2>2. ChecksTyped(T)'
    BY <2>1 DEF TypedBy, ChecksTyped
  <2>3. picked.text \in T
    BY <2>1 DEF TypedBy, ChecksTyped
  <2>4. \/ Edit(picked.text)
        \/ UNCHANGED <<id, draft, db, cache, fetch, pending, ghost, outrun>>
    BY <1>2 DEF FileRead
  <2>5. CASE Edit(picked.text)
    BY <2>2, <2>3, <2>5, EditTyped DEF TypedBy, Universe
  <2>6. CASE UNCHANGED <<id, draft, db, cache, fetch, pending, ghost, outrun>>
    BY <2>2, <2>6 DEF TypedBy, Universe, DraftTyped, draft, RowsTyped, RequestsTyped, PendingTyped
  <2> QED
    BY <2>4, <2>5, <2>6
<1> QED
  BY <1>1, <1>2

\* More texts and names do no harm.
LEMMA MoreTyped ==
  ASSUME NEW T, NEW N, TypedBy(T, N), NEW T2, NEW N2, T \subseteq T2, N \subseteq N2,
         \A t \in T2 : IsText(t)
  PROVE  TypedBy(T2, N2)
<1>1. Universe(T2, N2)
  BY DEF TypedBy, Universe
<1>2. DraftTyped(T2, N2)
  BY DEF TypedBy, DraftTyped
<1>3. ChecksTyped(T2)
  <2>1. [text : T, overtaken : BOOLEAN] \subseteq [text : T2, overtaken : BOOLEAN]
    OBVIOUS
  <2>2. validating \in Seq([text : T2, overtaken : BOOLEAN])
    BY <2>1, SeqMonotonic DEF TypedBy, ChecksTyped
  <2> QED
    BY <2>2 DEF TypedBy, ChecksTyped
<1>4. Rows(T, N) \subseteq Rows(T2, N2)
  BY DEF Rows
<1>5. Queries(T, N) \subseteq Queries(T2, N2)
  BY <1>4 DEF Queries
<1>6. RowsTyped(T2, N2)
  BY <1>4, <1>5 DEF TypedBy, RowsTyped
<1>7. Requests(T, N) \subseteq Requests(T2, N2)
  BY DEF Requests
<1> QED
  BY <1>1, <1>2, <1>3, <1>6, <1>7 DEF TypedBy, RequestsTyped, PendingTyped

\* The canvas brings a text that was not there before
\* (BlueprintEditorPage.tsx:283-297).
LEMMA CanvasStep ==
  ASSUME EditorTyped, OnCanvasChange
  PROVE  EditorTyped'
<1>1. PICK T, N : TypedBy(T, N)
  BY DEF EditorTyped
<1>2. PICK next \in CanvasNext(Doc) : Edit(StringifyBlueprint(next)) /\ UNCHANGED checks
  BY DEF OnCanvasChange
<1> DEFINE text == StringifyBlueprint(next)  T2 == T \cup {text}
<1>3. IsDoc(next)
  BY <1>1, <1>2, DocTyped, CanvasMakesDocs DEF TypedBy, DraftTyped
<1>4. IsText(text)
  BY <1>3 DEF StringifyBlueprint, Text, IsText
<1> HIDE DEF text
<1>5. T \subseteq T2 /\ text \in T2 /\ \A t \in T2 : IsText(t)
  BY <1>1, <1>4 DEF TypedBy, Universe
<1> HIDE DEF T2
<1>6. TypedBy(T2, N)
  BY <1>1, <1>5, MoreTyped
<1>7. Edit(text) /\ UNCHANGED checks
  BY <1>2 DEF text
<1>8. TypedBy(T2, N)'
  BY <1>5, <1>6, <1>7, EditTyped DEF TypedBy, Universe, checks, ChecksTyped
<1> QED
  BY <1>8 DEF EditorTyped

\* The debounce timer and the answers of the validator
\* (BlueprintEditorPage.tsx:84-104).
LEMMA ValidationStep ==
  ASSUME NEW T, NEW N, TypedBy(T, N), Debounced \/ Validated \/ ValidateFails
  PROVE  TypedBy(T, N)'
<1> DEFINE V == [text : T, overtaken : BOOLEAN]
<1>1. validating \in Seq(V) /\ timer \in T \cup {NoText} /\ ghost \in Ghosts
  BY DEF TypedBy, ChecksTyped, DraftTyped
<1>2. UNCHANGED <<id, name, source, picked, db, cache, fetch, pending, outrun>>
  BY DEF Debounced, Validated, ValidateFails, draft
<1>3. /\ validating' \in Seq(V) /\ timer' \in T \cup {NoText} /\ ghost' \in Ghosts
      /\ validation' \in T \cup {NoText}
  <2>1. CASE Debounced
    <3>1. timer \in T /\ timer' = NoText /\ UNCHANGED <<ghost, validation>>
      BY <1>1, <2>1 DEF Debounced
    <3>2. [text |-> timer, overtaken |-> FALSE] \in V
      BY <3>1
    <3>3. validating' = Append(validating, [text |-> timer, overtaken |-> FALSE])
      BY <2>1 DEF Debounced
    <3> HIDE DEF V
    <3>4. validating' \in Seq(V)
      BY <1>1, <3>2, <3>3, AppendProperties
    <3> QED
      BY <1>1, <3>1, <3>4 DEF TypedBy, ChecksTyped
  <2>2. CASE Validated
    <3>1. PICK i \in DOMAIN validating :
            /\ validation' = validating[i].text
            /\ validating' = Without([j \in DOMAIN validating |->
                                IF j < i THEN [validating[j] EXCEPT !.overtaken = TRUE]
                                ELSE validating[j]], i)
            /\ ghost' = [ghost EXCEPT !.late = validating[i].overtaken]
            /\ UNCHANGED timer
      BY <2>2 DEF Validated, draft
    <3> DEFINE marked == [j \in DOMAIN validating |->
                           IF j < i THEN [validating[j] EXCEPT !.overtaken = TRUE]
                           ELSE validating[j]]
    <3>2. Len(validating) \in Nat /\ DOMAIN validating = 1 .. Len(validating)
      BY <1>1
    <3>3. \A j \in DOMAIN validating : validating[j] \in V
      <4> HIDE DEF V
      <4> QED
        BY <1>1
    <3>4. \A j \in DOMAIN validating : marked[j] \in V
      BY <3>3
    <3>5. marked \in Seq(V) /\ DOMAIN marked = DOMAIN validating
      <4> HIDE DEF V
      <4> QED
        BY <3>2, <3>4
    <3>6. validating' \in Seq(V)
      <4> HIDE DEF V, marked
      <4>1. validating' = Without(marked, i)
        BY <3>1 DEF marked
      <4> QED
        BY <3>5, <4>1, WithoutProperties
    <3>7. ghost' \in Ghosts
      BY <1>1, <3>1, <3>3 DEF Ghosts
    <3> QED
      BY <1>1, <3>1, <3>3, <3>6, <3>7
  <2>3. CASE ValidateFails
    <3>1. PICK i \in DOMAIN validating :
            /\ validating' = Without(validating, i)
            /\ ghost' = [ghost EXCEPT !.lost = TRUE]
            /\ UNCHANGED <<timer, validation>>
      BY <2>3 DEF ValidateFails, draft
    <3>2. ghost' \in Ghosts
      BY <1>1, <3>1 DEF Ghosts
    <3> HIDE DEF V
    <3>3. validating' \in Seq(V)
      BY <1>1, <3>1, WithoutProperties
    <3> QED
      BY <1>1, <3>1, <3>2, <3>3 DEF TypedBy, ChecksTyped
  <2> QED
    BY <2>1, <2>2, <2>3
<1> QED
  BY <1>2, <1>3 DEF TypedBy, Universe, DraftTyped, ChecksTyped, RowsTyped, RequestsTyped, PendingTyped

\* Sending a save, clone or delete (BlueprintEditorPage.tsx:106-137).
LEMMA SendStep ==
  ASSUME NEW T, NEW N, TypedBy(T, N), BudgetTyped, Save \/ Clone \/ Delete
  PROVE  TypedBy(T, N)'
<1>1. PICK kind \in {"save", "clone", "delete"} : Send(kind) /\ (kind # "save" => id \in Ids)
  BY DEF Save, Clone, Delete
<1> DEFINE new == [no |-> budget.ops, mounted |-> TRUE, kind |-> kind, target |-> id,
                   name |-> name, source |-> source, origin |-> ghost.origin,
                   named |-> ghost.named, result |-> Sent]
<1>2. id \in Ids \cup {New}
  BY DEF Save, Clone, Delete, TypedBy, DraftTyped, PageIds
<1>3. new \in Requests(T, N) /\ new.kind = kind /\ new.target = id
  BY <1>2 DEF BudgetTyped, Requests, TypedBy, DraftTyped, Ghosts
<1>4. pending' = pending \cup {new}
  BY <1>1 DEF Send
<1>5. UNCHANGED <<id, draft, checks, db, cache, fetch, ghost, outrun>>
  BY <1>1 DEF Send
<1> HIDE DEF new
<1>7. PendingTyped(T, N)'
  BY <1>1, <1>3, <1>4 DEF TypedBy, RequestsTyped, PendingTyped
<1> QED
  BY <1>5, <1>7
  DEF TypedBy, Universe, DraftTyped, draft, checks, ChecksTyped, RowsTyped, RequestsTyped

\* An answer is a result of the kinds there are.
LEMMA AnsweredTyped ==
  ASSUME NEW T, NEW N, TypedBy(T, N), NEW p \in pending,
         NEW result \in Ids \cup {Sent, Refusal, Away}, Answered(p, result)
  PROVE  PendingTyped(T, N)'
<1> DEFINE q == [p EXCEPT !.result = result]
<1>1. p \in Requests(T, N)
  BY DEF TypedBy, RequestsTyped, PendingTyped
<1>2. q \in Requests(T, N) /\ q.kind = p.kind /\ q.target = p.target
  BY <1>1 DEF Requests
<1>3. pending' = (pending \ {p}) \cup {q}
  BY DEF Answered
<1> HIDE DEF q
<1> QED
  BY <1>2, <1>3 DEF TypedBy, RequestsTyped, PendingTyped

\* What the backend makes of a request: the rows may gain a name.
LEMMA ServerTyped ==
  ASSUME EditorTyped, ServerStep
  PROVE  EditorTyped'
<1>1. PICK T, N : TypedBy(T, N)
  BY DEF EditorTyped
<1>2. PICK p \in pending : ServerSaves(p) \/ ServerClones(p) \/ ServerDeletes(p)
  BY DEF ServerStep
<1>3. UNCHANGED <<id, draft, checks, cache, fetch, outrun>>
  BY DEF ServerStep
<1>4. p \in Requests(T, N) /\ db \in [Ids -> Rows(T, N)] /\ ghost \in Ghosts
  BY <1>1 DEF TypedBy, RequestsTyped, PendingTyped, RowsTyped, DraftTyped
<1>12. PICK fresh : fresh = UniqueCloneName(db[p.target].name)
  OBVIOUS
<1>13. PICK N2 : N2 = N \cup {fresh}
  OBVIOUS
<1>5. N \subseteq N2 /\ fresh \in N2
  BY <1>13
<1>6. TypedBy(T, N2)
  BY <1>1, <1>5, MoreTyped DEF TypedBy, Universe
<1>7. p \in Requests(T, N2) /\ db \in [Ids -> Rows(T, N2)]
  BY <1>6 DEF TypedBy, RequestsTyped, PendingTyped, RowsTyped
<1>8. ASSUME NEW row \in Rows(T, N2), Insert(p, row)
      PROVE  db' \in [Ids -> Rows(T, N2)] /\ PendingTyped(T, N2)'
  <2>1. PICK b \in Ids : db' = [db EXCEPT ![b] = row] /\ Answered(p, b)
    BY <1>8 DEF Insert
  <2> QED
    BY <1>6, <1>7, <1>8, <2>1, AnsweredTyped
<1>9. ASSUME Refused(p)
      PROVE  /\ db' \in [Ids -> Rows(T, N2)] /\ PendingTyped(T, N2)'
             /\ ghost' \in Ghosts
  BY <1>4, <1>6, <1>7, <1>9, AnsweredTyped DEF Refused
<1>10. /\ db' \in [Ids -> Rows(T, N2)] /\ PendingTyped(T, N2)'
       /\ ghost' \in Ghosts
  <2>1. CASE ServerSaves(p)
    <3>1. CASE p.target = New /\ UNCHANGED ghost /\
               Insert(p, [name |-> p.name, source |-> p.source, version |-> 1])
      <4>1. [name |-> p.name, source |-> p.source, version |-> 1] \in Rows(T, N2)
        BY <1>7 DEF Rows, Requests
      <4> QED
        BY <1>4, <1>8, <3>1, <4>1
    <3>2. CASE /\ p.target \in Ids
               /\ db' = [db EXCEPT ![p.target] =
                          [name |-> p.name, source |-> p.source, version |-> @.version + 1]]
               /\ ghost' = [ghost EXCEPT
                    !.crossed = @ \/ (~p.named /\ p.origin # p.target /\ p.origin \notin Gone),
                    !.renamed = IF p.name = db[p.target].name THEN @ ELSE @ \cup {p.target}]
               /\ Answered(p, p.target)
      <4> DEFINE row == [name |-> p.name, source |-> p.source, version |-> db[p.target].version + 1]
                 cross == ghost.crossed \/ (~p.named /\ p.origin # p.target /\ p.origin \notin Gone)
                 renamed == IF p.name = db[p.target].name THEN ghost.renamed
                            ELSE ghost.renamed \cup {p.target}
      <4>1. db[p.target].version \in Int
        BY <1>7, <3>2 DEF Rows
      <4>2. row \in Rows(T, N2)
        BY <1>7, <4>1 DEF Rows, Requests
      <4>3. cross \in BOOLEAN /\ renamed \in SUBSET Ids
        BY <1>4, <3>2 DEF Ghosts
      <4>4. db' = [db EXCEPT ![p.target] = row]
        BY <3>2
      <4>5. ghost' = [ghost EXCEPT !.crossed = cross, !.renamed = renamed]
        BY <3>2
      <4> HIDE DEF row, cross, renamed
      <4>6. ghost' \in Ghosts
        BY <1>4, <4>3, <4>5 DEF Ghosts
      <4> QED
        BY <1>6, <1>7, <3>2, <4>2, <4>4, <4>6, AnsweredTyped
    <3> QED
      BY <1>9, <2>1, <3>1, <3>2 DEF ServerSaves
  <2>2. CASE ServerClones(p)
    <3>1. CASE Stored(db[p.target]) /\ UNCHANGED ghost /\
               Insert(p, [db[p.target] EXCEPT !.name = UniqueCloneName(@), !.version = 1])
      <4> DEFINE row == [db[p.target] EXCEPT !.name = UniqueCloneName(@), !.version = 1]
      <4>1. p.kind = "clone"
        BY <2>2 DEF ServerClones
      <4>2. p.target \in Ids
        BY <1>1, <1>7, <3>1, <4>1 DEF TypedBy, RequestsTyped, PendingTyped
      <4>3. row = [db[p.target] EXCEPT !.name = fresh, !.version = 1]
        BY <1>12
      <4>4. db[p.target] \in Rows(T, N2)
        BY <1>7, <4>2
      <4>5. ASSUME NEW old \in Rows(T, N2), NEW n \in N2
            PROVE  [old EXCEPT !.name = n, !.version = 1] \in Rows(T, N2)
        <5>1. [old EXCEPT !.name = n] \in Rows(T, N2)
          BY DEF Rows
        <5>2. ASSUME NEW r \in Rows(T, N2) PROVE [r EXCEPT !.version = 1] \in Rows(T, N2)
          BY DEF Rows
        <5> QED
          BY <5>1, <5>2
      <4>6. row \in Rows(T, N2)
        BY <1>5, <4>3, <4>4, <4>5
      <4> HIDE DEF row
      <4> QED
        BY <1>4, <1>8, <3>1, <4>6 DEF row
    <3> QED
      BY <1>9, <2>2, <3>1 DEF ServerClones
  <2>3. CASE ServerDeletes(p)
    <3>1. CASE db' = [db EXCEPT ![p.target] = Deleted] /\ Answered(p, Away) /\ UNCHANGED ghost
      BY <1>4, <1>6, <1>7, <3>1, NoRowTyped, AnsweredTyped DEF TypedBy
    <3> QED
      BY <1>9, <2>3, <3>1 DEF ServerDeletes
  <2> QED
    BY <1>2, <2>1, <2>2, <2>3
<1>11. TypedBy(T, N2)'
  BY <1>3, <1>6, <1>10
  DEF TypedBy, Universe, DraftTyped, draft, checks, ChecksTyped, RowsTyped, RequestsTyped
<1> QED
  BY <1>11 DEF EditorTyped

\* The answers of the requests, and visits.
LEMMA AnswerStep ==
  ASSUME NEW T, NEW N, TypedBy(T, N), Succeed \/ Fail \/ Visit
  PROVE  TypedBy(T, N)'
<1>1. PICK f : f = Invalidate(fetch)
  OBVIOUS
<1>2. f \in [Ids -> Queries(T, N)] /\ fetch \in [Ids -> Queries(T, N)]
  BY <1>1, InvalidateTyped DEF TypedBy, RowsTyped
<1>3. ASSUME NEW b \in PageIds, NEW g \in [Ids -> Queries(T, N)],
             NEW out \in SUBSET pending, GoTo(b, g, out),
             outrun' \subseteq Ids, UNCHANGED <<db, cache>>
      PROVE  TypedBy(T, N)'
  <2>1. /\ DraftTyped(T, N)' /\ ChecksTyped(T)' /\ fetch' \in [Ids -> Queries(T, N)]
        /\ PendingTyped(T, N)'
    BY <1>3, GoToTyped DEF TypedBy, RequestsTyped
  <2> QED
    BY <1>3, <2>1 DEF TypedBy, Universe, RowsTyped, RequestsTyped
<1>4. CASE Succeed
  <2>1. PICK p \in pending : /\ p.result \notin {Sent, Refusal}
                             /\ GoTo(p.result, Invalidate(fetch), pending \ {p})
                             /\ outrun' = outrun \cup OutrunBy(p)
                             /\ UNCHANGED <<db, cache>>
    BY <1>4 DEF Succeed
  <2>2. p.result \in PageIds
    BY <2>1 DEF TypedBy, RequestsTyped, PendingTyped, Requests, PageIds
  <2>3. GoTo(p.result, f, pending \ {p})
    BY <1>1, <2>1
  <2>4. outrun' \subseteq Ids
    BY <2>1 DEF OutrunBy, TypedBy, RequestsTyped
  <2> QED
    BY <1>2, <1>3, <2>1, <2>2, <2>3, <2>4
<1>5. CASE Fail
  <2>1. PICK p \in pending :
          /\ pending' = pending \ {p}
          /\ ghost' = [ghost EXCEPT !.lost = @ \/ p.result # Refusal]
          /\ UNCHANGED <<id, draft, checks, db, cache, fetch, outrun>>
    BY <1>5 DEF Fail
  <2>2. ghost' \in Ghosts
    BY <2>1 DEF TypedBy, DraftTyped, Ghosts
  <2> QED
    BY <2>1, <2>2
    DEF TypedBy, Universe, DraftTyped, draft, checks, ChecksTyped, RowsTyped, RequestsTyped,
        PendingTyped
<1>6. CASE Visit
  <2>1. PICK b \in {c \in Ids : Stored(db[c])} \cup {New, Away} : GoTo(b, fetch, pending)
    BY <1>6 DEF Visit
  <2>2. b \in PageIds
    BY DEF PageIds
  <2>3. UNCHANGED <<db, cache, outrun>> /\ outrun \subseteq Ids
    BY <1>6 DEF Visit, TypedBy, RequestsTyped
  <2> QED
    BY <1>2, <1>3, <2>1, <2>2, <2>3
<1> QED
  BY <1>4, <1>5, <1>6

\* A read of a row and its arrival (BlueprintEditorPage.tsx:57-61).
LEMMA QueryStep ==
  ASSUME NEW T, NEW N, TypedBy(T, N), QueryRead \/ QueryArrives
  PROVE  TypedBy(T, N)'
<1>1. /\ fetch \in [Ids -> Queries(T, N)] /\ db \in [Ids -> Rows(T, N)]
      /\ cache \in [Ids -> Rows(T, N)] /\ \A b \in Ids : cache[b].version >= 0
  BY DEF TypedBy, RowsTyped
<1>2. CASE QueryRead
  <2>1. PICK b \in Ids : fetch' = [fetch EXCEPT ![b] = [phase |-> "read", row |-> db[b]]]
    BY <1>2 DEF QueryRead
  <2>2. [phase |-> "read", row |-> db[b]] \in Queries(T, N)
    BY <1>1 DEF Queries
  <2>3. fetch' \in [Ids -> Queries(T, N)]
    BY <1>1, <2>1, <2>2
  <2>4. UNCHANGED <<id, draft, checks, db, cache, pending, ghost>> /\ outrun' \subseteq outrun
    BY <1>2 DEF QueryRead
  <2> QED
    BY <2>3, <2>4
    DEF TypedBy, Universe, DraftTyped, draft, checks, ChecksTyped, RowsTyped, RequestsTyped,
        PendingTyped
<1>3. CASE QueryArrives
  <2>1. PICK b \in Ids :
          /\ fetch' = [fetch EXCEPT ![b] = [phase |-> "idle", row |-> NoRow]]
          /\ cache' = IF Stored(fetch[b].row) THEN [cache EXCEPT ![b] = fetch[b].row] ELSE cache
    BY <1>3 DEF QueryArrives
  <2>2. Load(id, cache') /\ UNCHANGED <<id, checks, db, pending, outrun>>
    BY <1>3 DEF QueryArrives
  <2>3. [phase |-> "idle", row |-> NoRow] \in Queries(T, N)
    BY NoRowTyped DEF Queries, TypedBy
  <2>4. fetch' \in [Ids -> Queries(T, N)]
    BY <1>1, <2>1, <2>3
  <2>5. fetch[b].row \in Rows(T, N)
    BY <1>1 DEF Queries
  <2>6. cache' \in [Ids -> Rows(T, N)] /\ \A c \in Ids : cache'[c].version >= 0
    <3>1. CASE Stored(fetch[b].row)
      <4>1. fetch[b].row.version >= 0
        BY <2>5, <3>1 DEF Stored, Rows
      <4> QED
        BY <1>1, <2>1, <2>5, <3>1, <4>1
    <3> QED
      BY <1>1, <2>1, <3>1
  <2>7. DraftTyped(T, N) /\ Universe(T, N) /\ id \in PageIds
    BY DEF TypedBy, DraftTyped
  <2>8. name' \in N /\ source' \in T /\ timer' \in T \cup {NoText} /\ ghost' \in Ghosts
    BY <2>2, <2>6, <2>7, LoadTyped
  <2> QED
    BY <1>1, <2>2, <2>4, <2>6, <2>7, <2>8
    DEF TypedBy, Universe, DraftTyped, checks, ChecksTyped, RowsTyped, RequestsTyped,
        PendingTyped
<1> QED
  BY <1>2, <1>3

\* What is left of the budget is counted in integers.
LEMMA BudgetHolds == Spec => []BudgetTyped
<1>1. Init => BudgetTyped
  BY BoundsAssumption DEF Init, BudgetTyped
<1>2. BudgetTyped /\ [Next]_vars => BudgetTyped'
  <2> SUFFICES ASSUME BudgetTyped, [Next]_vars PROVE BudgetTyped'
    OBVIOUS
  <2>1. ASSUME NEW what \in {"edits", "ops"}, Spend(what) PROVE BudgetTyped'
    BY <2>1 DEF Spend, BudgetTyped
  <2>2. CASE UNCHANGED budget
    BY <2>2 DEF BudgetTyped
  <2>3. CASE \/ TypeSource \/ TypeName \/ PickStarter \/ PickFile \/ OnCanvasChange
             \/ ValidateFails \/ Save \/ Clone \/ Delete \/ Visit
    BY <2>1, <2>3 DEF TypeSource, TypeName, PickStarter, PickFile, OnCanvasChange,
       ValidateFails, Save, Clone, Delete, Send, Visit
  <2>4. CASE Fail
    BY <2>1, <2>2, <2>4 DEF Fail
  <2>5. CASE \/ FileRead \/ Debounced \/ Validated \/ ServerStep \/ Succeed
             \/ QueryRead \/ QueryArrives \/ UNCHANGED vars
    BY <2>2, <2>5 DEF FileRead, Debounced, Validated, ServerStep, Succeed, QueryRead,
       QueryArrives, vars
  <2> QED
    BY <2>3, <2>4, <2>5 DEF Next
<1> QED
  BY <1>1, <1>2, PTL DEF Spec

\* Every step keeps the types.
LEMMA EditorTypedStep ==
  ASSUME EditorTyped, BudgetTyped, [Next]_vars
  PROVE  EditorTyped'
<1>1. PICK T, N : TypedBy(T, N)
  BY DEF EditorTyped
<1>2. ASSUME TypedBy(T, N)' PROVE EditorTyped'
  BY <1>2 DEF EditorTyped
<1>3. CASE TypeSource \/ TypeName \/ PickStarter
  BY <1>1, <1>2, <1>3, TypingStep
<1>4. CASE PickFile \/ FileRead
  BY <1>1, <1>2, <1>4, FileStep
<1>5. CASE Debounced \/ Validated \/ ValidateFails
  BY <1>1, <1>2, <1>5, ValidationStep
<1>6. CASE Save \/ Clone \/ Delete
  BY <1>1, <1>2, <1>6, SendStep
<1>7. CASE Succeed \/ Fail \/ Visit
  BY <1>1, <1>2, <1>7, AnswerStep
<1>8. CASE QueryRead \/ QueryArrives
  BY <1>1, <1>2, <1>8, QueryStep
<1>9. CASE UNCHANGED vars
  BY <1>1, <1>2, <1>9
  DEF vars, TypedBy, Universe, DraftTyped, draft, checks, ChecksTyped, RowsTyped,
      RequestsTyped, PendingTyped
<1> QED
  BY <1>3, <1>4, <1>5, <1>6, <1>7, <1>8, <1>9, CanvasStep, ServerTyped DEF Next

\* At first the texts are those of the constants.
LEMMA EditorTypedInit ==
  ASSUME Init
  PROVE  EditorTyped
<1>1. PICK T : T = {Home, Empty} \cup Typed \cup Files \cup Starters
  OBVIOUS
<1>2. PICK N : N = {NoName, <<"home">>} \cup Names
  OBVIOUS
<1>3. \A t \in T : IsText(t)
  <2>1. Empty \in SourceText
    BY DEF Empty, SourceText
  <2>2. T \subseteq SourceText
    BY <1>1, <2>1, TextsAssumption
  <2>3. ASSUME NEW t \in SourceText PROVE IsText(t)
    BY DeviceDocs DEF IsText, SourceText
  <2> QED
    BY <2>2, <2>3
<1>4. Universe(T, N)
  BY <1>1, <1>2, <1>3 DEF Universe
<1>5. id \in {New, 1} /\ name = NoName /\ source = Home /\ timer = Home
  BY DEF Init
<1>6. ghost = [origin |-> New, named |-> FALSE, edited |-> FALSE, late |-> FALSE,
               lost |-> FALSE, crossed |-> FALSE, renamed |-> {}]
  BY DEF Init
<1>7. DraftTyped(T, N)
  BY <1>1, <1>2, <1>5, <1>6, IdFacts DEF DraftTyped, PageIds, Ghosts
<1>8. ChecksTyped(T)
  BY DEF Init, ChecksTyped
<1>9. NoRow \in Rows(T, N) /\ NoRow.version = 0
  BY <1>4, NoRowTyped
<1>10. [name |-> <<"home">>, source |-> Home, version |-> 1] \in Rows(T, N)
  BY <1>1, <1>2 DEF Rows
<1>11. db \in [Ids -> Rows(T, N)]
  <2>1. db = [b \in Ids |-> IF b = 1 THEN [name |-> <<"home">>, source |-> Home, version |-> 1]
                            ELSE NoRow]
    BY DEF Init
  <2> QED
    BY <1>9, <1>10, <2>1
<1>12. cache = [b \in Ids |-> NoRow]
  BY DEF Init
<1>13. PICK f : f = [b \in Ids |-> [phase |-> "idle", row |-> NoRow]]
  OBVIOUS
<1>14. fetch \in [Ids -> Queries(T, N)]
  <2>1. [phase |-> "idle", row |-> NoRow] \in Queries(T, N)
    BY <1>9 DEF Queries
  <2>2. f \in [Ids -> Queries(T, N)]
    BY <1>13, <2>1
  <2>3. fetch = Ask(f, id)
    BY <1>13 DEF Init
  <2> QED
    BY <2>2, <2>3, AskTyped
<1>15. RowsTyped(T, N)
  BY <1>9, <1>11, <1>12, <1>14 DEF RowsTyped
<1>16. RequestsTyped(T, N)
  BY DEF Init, RequestsTyped, PendingTyped
<1> QED
  BY <1>4, <1>7, <1>8, <1>15, <1>16 DEF EditorTyped, TypedBy

\* The types are an invariant, relative to the texts and names met.
LEMMA EditorTypedHolds == Spec => []EditorTyped
  BY BudgetHolds, EditorTypedInit, EditorTypedStep, PTL DEF Spec

\* They give the type invariant of the model.
LEMMA TypedEditor ==
  ASSUME EditorTyped
  PROVE  EditorTypeOK
<1>1. PICK T, N : TypedBy(T, N)
  BY DEF EditorTyped
<1>2. id \in Ids \cup {New, Away}
  BY <1>1 DEF TypedBy, DraftTyped, PageIds
<1>3. ASSUME NEW t \in Texts
      PROVE  t \in T \cup {NoText}
  <2>1. source \in T /\ timer \in T \cup {NoText} /\ validation \in T \cup {NoText}
    BY <1>1 DEF TypedBy, DraftTyped, ChecksTyped
  <2>2. picked.text \in T \cup {NoText} /\ picked.seen \in T \cup {NoText}
    BY <1>1 DEF TypedBy, ChecksTyped, NotPicked
  <2> QED
    BY <2>1, <2>2 DEF Texts
<1>4. ASSUME NEW t \in T
      PROVE  /\ t.yaml \in {"mapping", "empty", "malformed", "none"}
             /\ \A i \in DOMAIN t.devices : t.devices[i].host \in Host \cup {NoHost}
  BY <1>1, DocParts DEF TypedBy, Universe, IsText
<1>5. /\ NoText.yaml \in {"mapping", "empty", "malformed", "none"}
      /\ \A i \in DOMAIN NoText.devices : NoText.devices[i].host \in Host \cup {NoHost}
  BY DEF NoText
<1>6. ASSUME NEW b \in Ids
      PROVE  cache[b].version >= 0 /\ fetch[b].phase \in {"idle", "asked", "read"}
  BY <1>1 DEF TypedBy, RowsTyped, Queries
<1>7. ASSUME NEW p \in pending
      PROVE  p.result \in Ids \cup {Sent, Refusal, Away}
  BY <1>1 DEF TypedBy, RequestsTyped, PendingTyped, Requests
<1> QED
  BY <1>2, <1>3, <1>4, <1>5, <1>6, <1>7 DEF EditorTypeOK

\* Every text of the editor has a document, a cached row is a row, and the route
\* is a page (BlueprintEditorPage.tsx:51-67).
THEOREM EditorTypeCorrect == Spec => []EditorTypeOK
  BY EditorTypedHolds, TypedEditor, PTL

\* In every reachable state no operation on the canvas makes a document that
\* the backend accepts one that it refuses, but for renames to more than 64
\* characters, family numbers of 2^53 and more, and devices uplinked to
\* themselves (blueprintDoc.ts:133-168).
THEOREM CanvasKeepsDocValid == Spec => []CanvasKeepsDocSound
<1>1. ASSUME EditorTyped PROVE CanvasKeepsDocSound
  <2>1. PICK T, N : TypedBy(T, N)
    BY <1>1 DEF EditorTyped
  <2>2. IsDoc(Doc)
    BY <2>1, DocTyped DEF TypedBy, DraftTyped
  <2> QED
    BY <2>2, CanvasKeepsSound DEF CanvasKeepsDocSound
<1> QED
  BY <1>1, EditorTypedHolds, PTL

\* In every reachable state the edges of the canvas end at drawn nodes, and
\* start at one unless the uplink is a name that every object inherits; and
\* each device has a node of its own, if no name is repeated, the root's, or the
\* placeholder of an unnamed device (BlueprintCanvas.tsx:182-249).
THEOREM CanvasAlwaysDraws == Spec => []CanvasDrawsDoc
<1>1. ASSUME EditorTyped PROVE CanvasDrawsDoc
  <2>1. PICK T, N : TypedBy(T, N)
    BY <1>1 DEF EditorTyped
  <2>2. IsDoc(Doc)
    BY <2>1, DocTyped DEF TypedBy, DraftTyped
  <2>3. {NodeId(Doc[i], CanvasGraph(Doc).place[i]) : i \in {j \in DOMAIN Doc : Doc[j].host = NoHost}}
          = Placeholders(Doc)
    BY DEF CanvasGraph, Graph, Placeholders
  <2>4. /\ \A e \in CanvasGraph(Doc).edges :
             /\ e[1] \in CanvasGraph(Doc).nodes \cup Inherited
             /\ e[2] \in CanvasGraph(Doc).nodes
        /\ UniqueNames /\ Placeholders(Doc) \cap Hosts(Doc) = {} =>
             Cardinality(CanvasGraph(Doc).nodes) = Len(Doc) + 1
    BY <2>2, CanvasDrawsEveryDevice DEF UniqueNames
  <2> QED
    BY <2>3, <2>4, Zenon DEF CanvasDrawsDoc
<1> QED
  BY <1>1, EditorTypedHolds, PTL

\* Every device of the canvas stands in a column of the document, and one
\* column right of its uplink unless it is its own ancestor, whatever the text
\* of the draft is (BlueprintCanvas.tsx:182-213).
THEOREM ColumnsFollowUplinks == Spec => []CanvasColumns
<1>1. ASSUME EditorTyped PROVE CanvasColumns
  <2>1. PICK T, N : TypedBy(T, N)
    BY <1>1 DEF EditorTyped
  <2>2. IsDoc(Doc)
    BY <2>1, DocTyped DEF TypedBy, DraftTyped
  <2> DEFINE column(i) == CanvasGraph(Doc).place[i][1]
             up(h) == ByHost(Doc)[h].uplink
             ownAncestor(h) == \A s \in SUBSET Named(Doc) :
               up(h) \in s /\ (\A g \in s : up(g) \in Named(Doc) => up(g) \in s) => h \in s
  <2>3. \A i \in DOMAIN Doc : column(i) = Place(Doc)[i][1]
    BY DEF CanvasGraph, Graph
  <2>4. \A i \in DOMAIN Doc : column(i) = Depth(Doc, Doc[i].host)
    BY <2>3 DEF Place
  <2>5. \A i \in DOMAIN Doc : column(i) \in 1 .. Len(Doc) + 1
    BY <2>2, <2>3, ColumnsAreBounded
  <2>6. ASSUME UniqueNames, NEW i \in DOMAIN Doc, NEW j \in DOMAIN Doc,
               Doc[i].host # NoHost, Doc[i].uplink = Doc[j].host, Doc[j].host # NoHost,
               ~ownAncestor(Doc[i].host)
        PROVE  column(i) = column(j) + 1
    <3>1. PICK h : h = Doc[i].host
      OBVIOUS
    <3>2. h \in Named(Doc) /\ Doc[j].host \in Named(Doc)
      BY <2>6, <3>1 DEF Named, Hosts
    <3>3. ByHost(Doc)[h] = Doc[i]
      <4>1. \A k \in DOMAIN Doc : Doc[k].host = h => k = i
        BY <2>6, <3>1 DEF UniqueNames
      <4>2. i <= i
        BY <2>2, DocParts
      <4>3. PICK k : k = CHOOSE l \in DOMAIN Doc :
                       Doc[l].host = h /\ \A m \in DOMAIN Doc : Doc[m].host = h => m <= l
        OBVIOUS
      <4>4. k \in DOMAIN Doc /\ Doc[k].host = h
        BY <3>1, <4>1, <4>2, <4>3
      <4> QED
        BY <3>2, <4>1, <4>3, <4>4 DEF ByHost, Found
    <3>4. Parent(Doc, h) = Doc[j].host
      BY <2>6, <3>3 DEF Parent
    <3>5. PICK s \in SUBSET Named(Doc) :
            /\ Parent(Doc, h) \in s /\ h \notin s
            /\ \A g \in s : Parent(Doc, g) \in Named(Doc) => Parent(Doc, g) \in s
      BY <2>6, <3>1 DEF Parent
    <3>6. Depth(Doc, h) = Depth(Doc, Parent(Doc, h)) + 1
      BY <2>2, <3>2, <3>5, OneColumnRight
    <3> QED
      BY <2>4, <2>6, <3>1, <3>4, <3>6
  <2> QED
    BY <2>5, <2>6 DEF CanvasColumns
<1> QED
  BY <1>1, EditorTypedHolds, PTL

-----------------------------------------------------------------------------
(* Validation.  A new text clears the timer or sets it; the youngest request *)
(* that was not overtaken is about the text, and otherwise the shown         *)
(* validation is, unless its answer came late.                               *)
\* Only a beginning of the requests in flight has been overtaken.
OvertakenFirst(seq) ==
  \A i, j \in DOMAIN seq : i < j /\ seq[j].overtaken => seq[i].overtaken
\* The youngest request that was not overtaken, or else the shown validation,
\* is about the text of the draft.
LastAbout(seq, shown, text, late) ==
  IF seq # <<>> /\ ~seq[Len(seq)].overtaken THEN seq[Len(seq)].text = text
  ELSE late \/ shown = text
ValidationInv ==
  /\ timer \in {NoText, source}
  /\ OvertakenFirst(validating)
  /\ timer = NoText /\ source # Empty /\ ~ghost.lost =>
       LastAbout(validating, validation, source, ghost.late)

\* A step that changes the text, or none of this, and sends nothing.
Retexted ==
  /\ source' # NoText
  /\ timer' = IF source' = source THEN timer ELSE IF source' = Empty THEN NoText ELSE source'
  /\ UNCHANGED <<validating, validation>>
  /\ ghost'.late = ghost.late /\ (ghost.lost => ghost'.lost)

\* A step that changes the text at most leaves the timer armed, or nothing
\* changed (BlueprintEditorPage.tsx:89-104).
LEMMA RetextedKeeps ==
  ASSUME ValidationInv, Retexted
  PROVE  ValidationInv'
<1>1. timer' \in {NoText, source'}
  BY DEF ValidationInv, Retexted
<1>2. OvertakenFirst(validating')
  BY DEF ValidationInv, Retexted
<1>3. ASSUME timer' = NoText, source' # Empty, ~ghost'.lost
      PROVE  LastAbout(validating', validation', source', ghost'.late)
  <2>1. source' = source /\ timer' = timer /\ ~ghost.lost
    BY <1>3 DEF Retexted
  <2> QED
    BY <1>3, <2>1 DEF ValidationInv, Retexted
<1> QED
  BY <1>1, <1>2, <1>3 DEF ValidationInv

\* Loading a row is such a step (BlueprintEditorPage.tsx:77-82).
LEMMA LoadRetexts ==
  ASSUME EditorTyped, EditorTyped', NEW b, NEW rows, Load(b, rows),
         UNCHANGED <<validating, validation>>
  PROVE  Retexted
<1>1. PICK T, N : TypedBy(T, N)'
  BY DEF EditorTyped
<1>2. source' # NoText
  BY <1>1, TextIsSome DEF TypedBy, DraftTyped, Universe
<1>3. ghost'.late = ghost.late /\ ghost'.lost = ghost.lost
  BY DEF Load, EditorTyped, TypedBy, DraftTyped, Ghosts
<1>4. timer' = IF source' = source THEN timer ELSE IF source' = Empty THEN NoText ELSE source'
  BY DEF Load, SetSource, draft
<1> QED
  BY <1>2, <1>3, <1>4 DEF Retexted

\* So are edits and what concerns neither text nor validation.
LEMMA EditRetexts ==
  ASSUME EditorTyped, EditorTyped', UNCHANGED <<validating, validation>>,
         \/ \E text : Edit(text)
         \/ UNCHANGED <<source, timer, ghost>>
         \/ TypeName \/ ServerStep \/ Fail
  PROVE  Retexted
<1>1. PICK T, N : TypedBy(T, N)'
  BY DEF EditorTyped
<1>2. source' # NoText
  BY <1>1, TextIsSome DEF TypedBy, DraftTyped, Universe
<1>3. ghost \in Ghosts
  BY DEF EditorTyped, TypedBy, DraftTyped
<1>4. ghost'.late = ghost.late /\ (ghost.lost => ghost'.lost)
  <2>1. CASE \E text : Edit(text)
    BY <1>3, <2>1 DEF Edit, Ghosts
  <2>2. CASE UNCHANGED ghost
    BY <2>2
  <2>3. CASE TypeName
    BY <1>3, <2>3 DEF TypeName, Ghosts
  <2>4. CASE ServerStep
    <3>1. PICK p \in pending : ServerSaves(p) \/ ServerClones(p) \/ ServerDeletes(p)
      BY <2>4 DEF ServerStep
    <3>2. \/ UNCHANGED ghost
          \/ \E c, r : ghost' = [ghost EXCEPT !.crossed = c, !.renamed = r]
      BY <3>1 DEF ServerSaves, ServerClones, ServerDeletes, Refused
    <3> QED
      BY <1>3, <3>2 DEF Ghosts
  <2>5. CASE Fail
    BY <1>3, <2>5 DEF Fail, Ghosts
  <2> QED
    BY <2>1, <2>2, <2>3, <2>4, <2>5
<1>5. timer' = IF source' = source THEN timer ELSE IF source' = Empty THEN NoText ELSE source'
  BY DEF Edit, SetSource, TypeName, ServerStep, Fail, draft
<1> QED
  BY <1>2, <1>4, <1>5 DEF Retexted

\* A new component starts with an armed timer and no request.
LEMMA GoToKeepsValidation ==
  ASSUME EditorTyped, EditorTyped', ValidationInv, NEW b, NEW f, NEW out,
         GoTo(b, f, out)
  PROVE  ValidationInv'
<1>1. CASE Stays(b)
  <2>1. Retexted
    BY <1>1, LoadRetexts DEF Stays, checks
  <2> QED
    BY <2>1, RetextedKeeps
<1>2. CASE Mounted(b)
  <2>1. PICK T, N : TypedBy(T, N)'
    BY DEF EditorTyped
  <2>2. source' # NoText
    BY <2>1, TextIsSome DEF TypedBy, DraftTyped, Universe
  <2>3. validating' = <<>> /\ timer' = source'
    BY <1>2 DEF Mounted
  <2> QED
    BY <2>2, <2>3 DEF ValidationInv, OvertakenFirst
<1> QED
  BY <1>1, <1>2, GoToCases

\* Sending a validation, its answers in any order, and its failures
\* (BlueprintEditorPage.tsx:84-104).
LEMMA AnswersKeepValidation ==
  ASSUME EditorTyped, EditorTyped', ValidationInv, Debounced \/ Validated \/ ValidateFails
  PROVE  ValidationInv'
<1>1. PICK T, N : TypedBy(T, N)
  BY DEF EditorTyped
<1>2. PICK V : V = [text : T, overtaken : BOOLEAN]
  OBVIOUS
<1>3. validating \in Seq(V) /\ ghost \in Ghosts
  BY <1>1, <1>2 DEF TypedBy, ChecksTyped, DraftTyped
<1>4. PICK n \in Nat : n = Len(validating) /\ DOMAIN validating = 1 .. n
  BY <1>3
<1>5. \A j \in 1 .. n : validating[j] \in V
  BY <1>3, <1>4
<1>6. UNCHANGED source
  BY DEF Debounced, Validated, ValidateFails, draft
<1>7. CASE Debounced
  <2>1. timer # NoText /\ timer = source /\ timer' = NoText /\ UNCHANGED ghost
    BY <1>7 DEF Debounced, ValidationInv
  <2>2. validating' = Append(validating, [text |-> source, overtaken |-> FALSE])
    BY <1>7, <2>1 DEF Debounced
  <2>3. [text |-> source, overtaken |-> FALSE] \in V
    BY <1>1, <1>2 DEF TypedBy, DraftTyped
  <2>4. /\ Len(validating') = n + 1 /\ DOMAIN validating' = 1 .. n + 1
        /\ validating'[n + 1] = [text |-> source, overtaken |-> FALSE]
        /\ \A j \in 1 .. n : validating'[j] = validating[j]
        /\ validating' # <<>>
    BY <1>3, <1>4, <2>2, <2>3, AppendProperties
  <2>5. OvertakenFirst(validating')
    BY <1>4, <2>4 DEF ValidationInv, OvertakenFirst
  <2>6. LastAbout(validating', validation', source', ghost'.late)
    BY <1>6, <2>4 DEF LastAbout
  <2> QED
    BY <2>1, <2>5, <2>6 DEF ValidationInv
<1>8. CASE Validated
  <2>1. PICK i \in DOMAIN validating :
          /\ validation' = validating[i].text
          /\ validating' = Without([j \in DOMAIN validating |->
                              IF j < i THEN [validating[j] EXCEPT !.overtaken = TRUE]
                              ELSE validating[j]], i)
          /\ ghost' = [ghost EXCEPT !.late = validating[i].overtaken]
          /\ UNCHANGED timer
    BY <1>8 DEF Validated, draft
  <2>2. PICK marked : marked = [j \in DOMAIN validating |->
                                 IF j < i THEN [validating[j] EXCEPT !.overtaken = TRUE]
                                 ELSE validating[j]]
    OBVIOUS
  <2>3. \A j \in 1 .. n : marked[j] \in V
    BY <1>2, <1>4, <1>5, <2>2
  <2>4. marked \in Seq(V) /\ DOMAIN marked = 1 .. n /\ Len(marked) = n
    BY <1>4, <2>2, <2>3
  <2>5. \A j \in 1 .. n : j < i => marked[j].overtaken
    <3>1. ASSUME NEW v \in V PROVE [v EXCEPT !.overtaken = TRUE].overtaken
      BY <1>2, <3>1
    <3> QED
      BY <1>4, <1>5, <2>2, <3>1
  <2>6. \A j \in 1 .. n : ~(j < i) => marked[j] = validating[j]
    BY <1>4, <2>2
  <2>7. validating' = Without(marked, i) /\ i \in 1 .. n
    BY <1>4, <2>1, <2>2
  <2>8. /\ validating' \in Seq(V) /\ Len(validating') = n - 1
        /\ \A j \in 1 .. n - 1 : validating'[j] = marked[IF j < i THEN j ELSE j + 1]
    BY <2>4, <2>7, WithoutProperties
  <2>9. DOMAIN validating' = 1 .. n - 1
    BY <2>8
  <2>10. \A j \in 1 .. n - 1 :
           /\ j < i => validating'[j].overtaken
           /\ ~(j < i) => j + 1 \in 1 .. n /\ validating'[j] = validating[j + 1]
    <3> TAKE j \in 1 .. n - 1
    <3>1. CASE j < i
      BY <2>5, <2>8, <3>1
    <3>2. CASE ~(j < i)
      <4>1. j + 1 \in 1 .. n /\ ~(j + 1 < i)
        BY <2>7, <3>2
      <4> QED
        BY <2>6, <2>8, <3>2, <4>1
    <3> QED
      BY <3>1, <3>2
  <2>11. OvertakenFirst(validating')
    <3> SUFFICES ASSUME NEW j \in 1 .. n - 1, NEW k \in 1 .. n - 1, j < k,
                        validating'[k].overtaken
                 PROVE  validating'[j].overtaken
      BY <2>9 DEF OvertakenFirst
    <3>1. CASE ~(j < i)
      <4>1. ~(k < i) /\ k + 1 \in 1 .. n /\ j + 1 \in 1 .. n /\ j + 1 < k + 1
        BY <2>7, <3>1
      <4> QED
        BY <1>4, <2>10, <3>1, <4>1 DEF ValidationInv, OvertakenFirst
    <3> QED
      BY <2>10, <3>1
  <2>12. ghost'.late = validating[i].overtaken /\ ghost'.lost = ghost.lost
    BY <1>3, <2>1 DEF Ghosts
  <2>13. ASSUME timer' = NoText, source' # Empty, ~ghost'.lost
         PROVE  LastAbout(validating', validation', source', ghost'.late)
    <3>1. LastAbout(validating, validation, source, ghost.late)
      BY <1>6, <2>1, <2>12, <2>13 DEF ValidationInv
    <3>2. validating # <<>> /\ n \in 1 .. n
      BY <1>4, <2>7
    <3>3. ~validating[n].overtaken => validating[n].text = source
      BY <1>4, <3>1, <3>2 DEF LastAbout
    <3>4. CASE i = n
      <4>1. validating' # <<>> => validating'[Len(validating')].overtaken
        BY <2>8, <2>9, <2>10, <3>4
      <4>2. ghost'.late \/ validation' = source'
        BY <1>6, <2>1, <2>12, <3>3, <3>4
      <4> QED
        BY <4>1, <4>2 DEF LastAbout
    <3>5. CASE i # n
      <4>1. i < n /\ n - 1 \in 1 .. n - 1 /\ ~(n - 1 < i) /\ (n - 1) + 1 = n
        BY <2>7, <3>5
      <4>2. validating'[Len(validating')] = validating[n]
        BY <2>8, <2>10, <4>1
      <4>3. validating' # <<>>
        BY <2>9, <4>1
      <4>4. validating[n].overtaken => ghost'.late
        BY <1>4, <2>7, <2>12, <3>2, <4>1 DEF ValidationInv, OvertakenFirst
      <4> QED
        BY <1>6, <3>3, <4>2, <4>3, <4>4 DEF LastAbout
    <3> QED
      BY <3>4, <3>5
  <2> QED
    BY <1>6, <2>1, <2>11, <2>13 DEF ValidationInv
<1>9. CASE ValidateFails
  <2>1. PICK i \in DOMAIN validating :
          /\ validating' = Without(validating, i)
          /\ ghost' = [ghost EXCEPT !.lost = TRUE]
          /\ UNCHANGED <<timer, validation>>
    BY <1>9 DEF ValidateFails, draft
  <2>2. ghost'.lost
    BY <1>3, <2>1 DEF Ghosts
  <2>3. /\ validating' \in Seq(V) /\ Len(validating') = n - 1
        /\ \A j \in 1 .. n - 1 : validating'[j] = validating[IF j < i THEN j ELSE j + 1]
    BY <1>3, <1>4, <2>1, WithoutProperties
  <2>4. DOMAIN validating' = 1 .. n - 1 /\ i \in 1 .. n
    BY <1>4, <2>3
  <2>5. OvertakenFirst(validating')
    <3> SUFFICES ASSUME NEW j \in 1 .. n - 1, NEW k \in 1 .. n - 1, j < k,
                        validating'[k].overtaken
                 PROVE  validating'[j].overtaken
      BY <2>4 DEF OvertakenFirst
    <3>1. PICK x \in 1 .. n : x = IF j < i THEN j ELSE j + 1
      BY <2>4
    <3>2. PICK y \in 1 .. n : y = IF k < i THEN k ELSE k + 1
      BY <2>4
    <3>3. x < y
      BY <2>4, <3>1, <3>2
    <3>4. validating'[j] = validating[x] /\ validating'[k] = validating[y]
      BY <2>3, <3>1, <3>2
    <3> QED
      BY <1>4, <3>3, <3>4 DEF ValidationInv, OvertakenFirst
  <2> QED
    BY <1>6, <2>1, <2>2, <2>5 DEF ValidationInv
<1> QED
  BY <1>7, <1>8, <1>9

\* Every step keeps what the validation is about.
LEMMA ValidationInvStep ==
  ASSUME EditorTyped, EditorTyped', ValidationInv, [Next]_vars
  PROVE  ValidationInv'
<1>1. ASSUME Retexted PROVE ValidationInv'
  BY <1>1, RetextedKeeps
<1>2. CASE TypeSource \/ PickStarter \/ OnCanvasChange
  BY <1>1, <1>2, EditRetexts DEF TypeSource, PickStarter, OnCanvasChange, checks
<1>3. CASE TypeName
  BY <1>1, <1>3, EditRetexts DEF TypeName, checks
<1>4. CASE PickFile \/ FileRead
  BY <1>1, <1>4, EditRetexts DEF PickFile, FileRead, draft
<1>5. CASE Debounced \/ Validated \/ ValidateFails
  BY <1>5, AnswersKeepValidation
<1>6. CASE Save \/ Clone \/ Delete
  BY <1>1, <1>6, EditRetexts DEF Save, Clone, Delete, Send, draft, checks
<1>7. CASE ServerStep \/ Fail
  BY <1>1, <1>7, EditRetexts DEF ServerStep, Fail, checks
<1>8. CASE Succeed \/ Visit
  BY <1>8, GoToKeepsValidation DEF Succeed, Visit
<1>9. CASE QueryRead
  BY <1>1, <1>9, EditRetexts DEF QueryRead, draft, checks
<1>10. CASE QueryArrives
  <2>1. Load(id, cache') /\ UNCHANGED checks
    BY <1>10 DEF QueryArrives
  <2>2. UNCHANGED <<validating, validation>>
    BY <2>1 DEF checks
  <2> QED
    BY <1>1, <2>1, <2>2, LoadRetexts
<1>11. CASE UNCHANGED vars
  BY <1>1, <1>11, EditRetexts DEF vars, draft, checks
<1> QED
  BY <1>2, <1>3, <1>4, <1>5, <1>6, <1>7, <1>8, <1>9, <1>10, <1>11 DEF Next

\* It is an invariant.
LEMMA ValidationInvHolds == Spec => []ValidationInv
<1>1. Init => ValidationInv
  <2> SUFFICES ASSUME Init PROVE ValidationInv
    OBVIOUS
  <2>1. Home # NoText
    BY TextsAssumption DEF SourceText, NoText
  <2>2. timer = source /\ timer # NoText /\ validating = <<>>
    BY <2>1 DEF Init
  <2>3. OvertakenFirst(<<>>)
    BY DEF OvertakenFirst
  <2> QED
    BY <2>2, <2>3 DEF ValidationInv
<1>2. EditorTyped /\ EditorTyped' /\ ValidationInv /\ [Next]_vars => ValidationInv'
  BY ValidationInvStep
<1> QED
  BY <1>1, <1>2, EditorTypedHolds, PTL DEF Spec

\* The preview and the canvas draw a valid document alike, unless a device is
\* called like the root's node
\* (BlueprintTopology.tsx:93-163, BlueprintCanvas.tsx:182-249).
LEMMA PreviewIsCanvas ==
  ASSUME EditorTyped, Valid(source), Root \notin Hosts(Doc)
  PROVE  PreviewGraph(source.devices) = CanvasGraph(Doc)
<1>1. PICK T, N : TypedBy(T, N)
  BY DEF EditorTyped
<1>2. IsDoc(source.devices)
  BY <1>1 DEF TypedBy, Universe, DraftTyped, IsText
<1>3. source.devices # NoDoc
  <2>1. NoDoc[1].host = <<"null", -2>> /\ 1 \in DOMAIN NoDoc
    BY DEF NoDoc
  <2>2. <<"null", -2>> \notin Host \cup {NoHost}
    <3>1. \A h \in Host \cup {NoHost} : h[2] \in Nat \cup {-1}
      BY HostNumber
    <3>2. <<"null", -2>>[2] = -2 /\ -2 \notin Nat \cup {-1}
      OBVIOUS
    <3> QED
      BY <3>1, <3>2, Zenon
  <2>3. \A i \in DOMAIN source.devices : source.devices[i].host \in Host \cup {NoHost}
    BY <1>2, DocParts
  <2> QED
    BY <2>1, <2>2, <2>3
<1>4. Doc = source.devices
  BY <1>3 DEF Doc, ParseBlueprintYaml, Valid
<1> DEFINE place == Place(Doc)
<1> HIDE DEF place
<1>5. \A i \in DOMAIN Doc : NodeId(Doc[i], place[i]) = PreviewNodeId(Doc[i])
  BY <1>4 DEF Valid, Sound, Hosts, NodeId, PreviewNodeId
<1>6. [i \in DOMAIN Doc |-> NodeId(Doc[i], place[i])]
        = [i \in DOMAIN Doc |-> PreviewNodeId(Doc[i])]
  BY <1>5
<1> QED
  BY <1>4, <1>6 DEF CanvasGraph, PreviewGraph, place

\* Once no timer and no request is out, the shown validation is about the text
\* in the editor and the preview shows what the canvas shows, however many
\* validations were in flight (BlueprintEditorPage.tsx:84-104).
THEOREM ValidationIsAboutTheText == Spec => []ValidationCatchesUp
<1>1. EditorTyped /\ ValidationInv => ValidationCatchesUp
  BY PreviewIsCanvas DEF ValidationInv, ValidationCatchesUp, LastAbout
<1> QED
  BY <1>1, EditorTypedHolds, ValidationInvHolds, PTL
==============================================================================
