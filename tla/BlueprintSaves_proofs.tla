------------------------ MODULE BlueprintSaves_proofs ------------------------
(* Proofs about what the editor saves and shows, for any ids, texts, names   *)
(* and bounds: the draft of one blueprint is never saved over another, and   *)
(* once nothing is in flight the page shows the row as stored.  The first    *)
(* rests on names (NamesInv: a draft, a row in the cache, a row on its way   *)
(* and a request carry the name their id still has), the second on versions  *)
(* (StoredInv: what is shown is stored, or the answer to the save that       *)
(* brings it has not come yet, or that answer came while an older read was   *)
(* on its way).                                                              *)
EXTENDS BlueprintEditor_proofs

\* Whether a row of this id exists or existed: ids are not used again.
Born(b) == db[b] # NoRow
\* A name that was not edited is the one its origin still has.
NameOf(origin, named, n) ==
  ~named => IF origin = New THEN n = NoName
            ELSE Born(origin) /\ (origin \notin Gone => n = db[origin].name)
NamesKnown ==
  /\ \A b \in Ids : Stored(cache[b]) =>
       Born(b) /\ (b \notin Gone => cache[b].name = db[b].name)
  /\ \A b \in Ids : fetch[b].phase # "idle" => Born(b)
  /\ \A b \in Ids : Stored(fetch[b].row) =>
       Born(b) /\ (b \notin Gone => fetch[b].row.name = db[b].name)
NamesSent ==
  \A p \in pending :
    /\ p.target \in Ids => Born(p.target)
    /\ p.result \in Ids => Born(p.result)
    /\ NameOf(p.origin, p.named, p.name)
NamesInv ==
  /\ id \in Ids => Born(id)
  /\ NamesKnown /\ NamesSent
  /\ NameOf(ghost.origin, ghost.named, name)
  /\ NoCrossSave

\* A save of b was stored and its answer is on its way.
Saved(b) == \E p \in pending : p.kind = "save" /\ p.target = b /\ p.result = b
ReadsFresh ==
  ~ghost.lost =>
    \A b \in Ids : Stored(db[b]) /\ fetch[b].phase = "read" =>
      fetch[b].row = db[b] \/ Saved(b) \/ b \in outrun
PageFresh ==
  ~ghost.lost /\ id \in Ids /\ Stored(db[id]) /\ fetch[id].phase = "idle" =>
    cache[id] = db[id] \/ Saved(id) \/ id \in outrun
DraftShown ==
  id \in Ids /\ Stored(cache[id]) /\ ~ghost.edited =>
    name = cache[id].name /\ source = cache[id].source
StoredInv == ReadsFresh /\ PageFresh /\ DraftShown

-----------------------------------------------------------------------------
\* What the typing of the editor gives to the steps below.
LEMMA EditorShapes ==
  ASSUME EditorTyped
  PROVE  /\ ghost \in Ghosts /\ id \in PageIds
         /\ \A b \in Ids : Stored(db[b]) => Born(b)
         /\ \A p \in pending : p.origin \in Ids \cup {New} /\ p.target \in Ids \cup {New}
         /\ New \notin Gone
<1>1. PICK T, N : TypedBy(T, N)
  BY DEF EditorTyped
<1>2. ghost \in Ghosts /\ id \in PageIds
  BY <1>1 DEF TypedBy, DraftTyped
<1>3. \A b \in Ids : Stored(db[b]) => Born(b)
  BY DEF Stored, Born, NoRow
<1>4. \A p \in pending : p.origin \in Ids \cup {New} /\ p.target \in Ids \cup {New}
  BY <1>1 DEF TypedBy, RequestsTyped, PendingTyped, Requests
<1>5. New \notin Gone
  BY <1>2, IdFacts DEF Gone, Ghosts
<1> QED
  BY <1>2, <1>3, <1>4, <1>5

\* A step on the draft and its validation, or the end of a request.
OfDraft ==
  /\ UNCHANGED <<id, db, cache, fetch, outrun>>
  /\ pending' \subseteq pending
  /\ \A p \in pending \ pending' : ghost'.lost \/ p.result = Refusal
  /\ ghost'.renamed = ghost.renamed /\ ghost'.crossed = ghost.crossed
  /\ ghost'.origin = ghost.origin /\ (ghost.lost => ghost'.lost)
  /\ (UNCHANGED name /\ ghost'.named = ghost.named) \/ ghost'.named
  /\ (UNCHANGED <<name, source>> /\ ghost'.edited = ghost.edited) \/ ghost'.edited

\* Edits, imports and validations are such steps, and so is a failed request.
LEMMA DraftSteps ==
  ASSUME EditorTyped,
         \/ TypeSource \/ TypeName \/ PickStarter \/ PickFile \/ FileRead \/ OnCanvasChange
         \/ Debounced \/ Validated \/ ValidateFails \/ Fail \/ UNCHANGED vars
  PROVE  OfDraft
<1>1. ghost \in Ghosts
  BY EditorShapes
<1>2. ASSUME NEW text, Edit(text) PROVE OfDraft
  BY <1>1, <1>2 DEF Edit, OfDraft, Ghosts
<1>3. CASE UNCHANGED <<id, name, source, db, cache, fetch, pending, ghost, outrun>>
  BY <1>3 DEF OfDraft
<1>4. CASE TypeSource \/ PickStarter \/ OnCanvasChange
  BY <1>2, <1>4 DEF TypeSource, PickStarter, OnCanvasChange
<1>5. CASE PickFile \/ FileRead \/ Debounced \/ UNCHANGED vars
  BY <1>2, <1>3, <1>5 DEF PickFile, FileRead, Debounced, vars, draft
<1>6. CASE TypeName
  BY <1>1, <1>6 DEF TypeName, OfDraft, Ghosts
<1>7. CASE Validated
  <2>1. PICK late : ghost' = [ghost EXCEPT !.late = late]
    BY <1>7 DEF Validated
  <2>2. UNCHANGED <<id, name, source, db, cache, fetch, pending, outrun>>
    BY <1>7 DEF Validated, draft
  <2> QED
    BY <1>1, <2>1, <2>2 DEF OfDraft, Ghosts
<1>8. CASE ValidateFails
  <2>1. ghost' = [ghost EXCEPT !.lost = TRUE]
    BY <1>8 DEF ValidateFails
  <2>2. UNCHANGED <<id, name, source, db, cache, fetch, pending, outrun>>
    BY <1>8 DEF ValidateFails, draft
  <2> QED
    BY <1>1, <2>1, <2>2 DEF OfDraft, Ghosts
<1>9. CASE Fail
  <2>1. PICK p \in pending :
          /\ pending' = pending \ {p}
          /\ ghost' = [ghost EXCEPT !.lost = @ \/ p.result # Refusal]
          /\ UNCHANGED <<id, draft, checks, db, cache, fetch, outrun>>
    BY <1>9 DEF Fail
  <2> QED
    BY <1>1, <2>1 DEF OfDraft, Ghosts, draft
<1> QED
  BY <1>4, <1>5, <1>6, <1>7, <1>8, <1>9

\* They take away no name (BlueprintEditorPage.tsx:246-297).
LEMMA DraftKeepsNames ==
  ASSUME EditorTyped, NamesInv, OfDraft
  PROVE  NamesInv'
<1>1. Gone' = Gone /\ \A b : Born(b)' <=> Born(b)
  BY DEF OfDraft, Gone, Born
<1>2. \A origin, named, n : NameOf(origin, named, n)' <=> NameOf(origin, named, n)
  BY <1>1 DEF OfDraft, NameOf
<1>3. NamesKnown'
  BY <1>1 DEF NamesInv, NamesKnown, OfDraft
<1>4. NamesSent'
  BY <1>1, <1>2 DEF NamesInv, NamesSent, OfDraft
<1>5. NameOf(ghost.origin, ghost.named, name)'
  BY <1>1 DEF NamesInv, NameOf, OfDraft
<1>6. NoCrossSave'
  BY DEF NamesInv, NoCrossSave, OfDraft
<1> QED
  BY <1>1, <1>3, <1>4, <1>5, <1>6 DEF NamesInv, OfDraft

\* They leave what is shown as it is, or mark the draft as edited.
LEMMA DraftKeepsStored ==
  ASSUME EditorTyped, StoredInv, OfDraft
  PROVE  StoredInv'
<1>1. ASSUME NEW b \in Ids, Saved(b), ~ghost'.lost
      PROVE  Saved(b)'
  BY <1>1, IdFacts DEF Saved, OfDraft
<1>3. ReadsFresh'
  BY <1>1 DEF StoredInv, ReadsFresh, OfDraft
<1>4. PageFresh'
  BY <1>1 DEF StoredInv, PageFresh, OfDraft
<1>5. DraftShown'
  BY DEF StoredInv, DraftShown, OfDraft
<1> QED
  BY <1>3, <1>4, <1>5 DEF StoredInv

-----------------------------------------------------------------------------
\* A request carries the name of the draft and its page
\* (BlueprintEditorPage.tsx:106-137).
LEMMA SendKeeps ==
  ASSUME EditorTyped, NamesInv, StoredInv, Save \/ Clone \/ Delete
  PROVE  NamesInv' /\ StoredInv'
<1>1. PICK kind : Send(kind)
  BY DEF Save, Clone, Delete
<1>2. PICK p : p = [no |-> budget.ops, mounted |-> TRUE, kind |-> kind, target |-> id,
                    name |-> name, source |-> source, origin |-> ghost.origin,
                    named |-> ghost.named, result |-> Sent]
  OBVIOUS
<1>3. /\ pending' = pending \cup {p}
      /\ UNCHANGED <<id, name, source, db, cache, fetch, ghost, outrun>>
  BY <1>1, <1>2 DEF Send, draft
<1>4. Gone' = Gone /\ \A b : Born(b)' <=> Born(b)
  BY <1>3 DEF Gone, Born
<1>5. \A origin, named, n : NameOf(origin, named, n)' <=> NameOf(origin, named, n)
  BY <1>3, <1>4 DEF NameOf
<1>6. NameOf(p.origin, p.named, p.name) /\ (p.target \in Ids => Born(p.target))
        /\ p.result \notin Ids
  BY <1>2, IdFacts DEF NamesInv
<1>7. NamesInv'
  <2>1. NamesSent'
    BY <1>3, <1>4, <1>5, <1>6 DEF NamesInv, NamesSent
  <2>2. NamesKnown'
    BY <1>3, <1>4 DEF NamesInv, NamesKnown
  <2>3. NameOf(ghost.origin, ghost.named, name)'
    BY <1>3, <1>4 DEF NamesInv, NameOf
  <2> QED
    BY <1>3, <1>4, <2>1, <2>2, <2>3 DEF NamesInv, NoCrossSave
<1>8. ASSUME NEW b \in Ids, Saved(b) PROVE Saved(b)'
  BY <1>3, <1>8 DEF Saved
<1>9. StoredInv'
  <2>1. ReadsFresh'
    BY <1>3, <1>8 DEF StoredInv, ReadsFresh
  <2>2. PageFresh'
    BY <1>3, <1>8 DEF StoredInv, PageFresh
  <2>3. DraftShown'
    BY <1>3 DEF StoredInv, DraftShown
  <2> QED
    BY <2>1, <2>2, <2>3 DEF StoredInv
<1> QED
  BY <1>7, <1>9

-----------------------------------------------------------------------------
\* What the backend does to a row: a stored one is written or deleted, an id
\* without a row gets one.  A row that changes its name is remembered.
RowsKept ==
  \A b \in Ids :
    Born(b) => Born(b)' /\ (b \notin Gone' => b \notin Gone /\ db'[b].name = db[b].name)

\* The request that was answered, and how.
AnsweredAs(p, q) ==
  /\ p \in pending /\ p.result = Sent /\ pending' = (pending \ {p}) \cup {q}
  /\ q.kind = p.kind /\ q.target = p.target /\ q.origin = p.origin
  /\ q.named = p.named /\ q.name = p.name

\* An answer replaces the request it answers.
LEMMA AnsweredOnce ==
  ASSUME EditorTyped, NEW p \in pending, p.result = Sent, NEW result, Answered(p, result)
  PROVE  \E q : AnsweredAs(p, q) /\ q.result = result
<1>1. PICK T, N : TypedBy(T, N)
  BY DEF EditorTyped
<1>2. p \in Requests(T, N)
  BY <1>1 DEF TypedBy, RequestsTyped, PendingTyped
<1>3. PICK q : q = [p EXCEPT !.result = result]
  OBVIOUS
<1>4. q.kind = p.kind /\ q.target = p.target /\ q.origin = p.origin
      /\ q.named = p.named /\ q.name = p.name /\ q.result = result
  BY <1>2, <1>3 DEF Requests
<1>5. AnsweredAs(p, q)
  BY <1>3, <1>4 DEF AnsweredAs, Answered
<1> QED
  BY <1>4, <1>5

\* One write of the backend, as the cases below need it.
Written(p, q) ==
  /\ AnsweredAs(p, q) /\ RowsKept
  /\ q.result \in Ids => Born(q.result)'
  /\ \A b \in Ids : \/ db'[b] = db[b]
                    \/ ~Born(b)
                    \/ ~Stored(db'[b])
                    \/ p.kind = "save" /\ p.target = b /\ q.result = b
  /\ \/ ghost'.crossed = ghost.crossed
     \/ /\ ghost'.crossed = (ghost.crossed \/ (~p.named /\ p.origin # p.target
                                                  /\ p.origin \notin Gone))
        /\ p.name # NoName /\ ~Taken(p.name, p.target)
  /\ ghost'.origin = ghost.origin /\ ghost'.named = ghost.named
  /\ ghost'.edited = ghost.edited /\ ghost'.lost = ghost.lost

\* Every step of the backend writes one row at most (blueprints/views.py).
LEMMA ServerWrites ==
  ASSUME EditorTyped, ServerStep, NamesInv
  PROVE  \E p, q : Written(p, q)
<1>1. PICK T, N : TypedBy(T, N)
  BY DEF EditorTyped
<1>2. PICK p \in pending : /\ p.result = Sent
                           /\ ServerSaves(p) \/ ServerClones(p) \/ ServerDeletes(p)
  BY DEF ServerStep
<1>3. /\ db \in [Ids -> Rows(T, N)] /\ ghost \in Ghosts /\ p \in Requests(T, N)
  BY <1>1 DEF TypedBy, RowsTyped, DraftTyped, RequestsTyped, PendingTyped
<1>4. p.kind # "save" => p.target \in Ids
  BY <1>1 DEF TypedBy, RequestsTyped, PendingTyped
<1>5. p.target \in Ids => Born(p.target)
  BY DEF NamesInv, NamesSent
<1>6. ASSUME Refused(p) PROVE \E q : Written(p, q)
  <2>1. PICK q : AnsweredAs(p, q) /\ q.result = Refusal
    BY <1>2, <1>6, AnsweredOnce DEF Refused
  <2>2. UNCHANGED <<db, ghost>>
    BY <1>6 DEF Refused
  <2>3. RowsKept
    BY <2>2 DEF RowsKept, Born, Gone
  <2> QED
    BY <2>1, <2>2, <2>3, IdFacts DEF Written
<1>7. ASSUME NEW row, Stored(row), Insert(p, row), UNCHANGED ghost
      PROVE  \E q : Written(p, q)
  <2>1. PICK b \in Ids : db[b] = NoRow /\ db' = [db EXCEPT ![b] = row] /\ Answered(p, b)
    BY <1>7 DEF Insert
  <2>2. PICK q : AnsweredAs(p, q) /\ q.result = b
    BY <1>2, <2>1, AnsweredOnce
  <2>3. db'[b] = row /\ \A c \in Ids \ {b} : db'[c] = db[c]
    BY <1>3, <2>1
  <2>4. RowsKept
    BY <1>7, <2>1, <2>3 DEF RowsKept, Born, Gone
  <2>5. Born(b)'
    BY <1>7, <2>3 DEF Born, Stored, NoRow
  <2>6. \A c \in Ids : db'[c] = db[c] \/ ~Born(c)
    BY <2>1, <2>3 DEF Born
  <2> QED
    BY <1>7, <2>2, <2>4, <2>5, <2>6 DEF Written
<1>8. CASE ServerSaves(p)
  <2>1. CASE p.target = New /\ UNCHANGED ghost /\
             Insert(p, [name |-> p.name, source |-> p.source, version |-> 1])
    BY <1>7, <2>1 DEF Stored
  <2>2. CASE /\ p.target \in Ids /\ Storable(p) /\ Stored(db[p.target])
             /\ db' = [db EXCEPT ![p.target] =
                        [name |-> p.name, source |-> p.source, version |-> @.version + 1]]
             /\ ghost' = [ghost EXCEPT
                  !.crossed = @ \/ (~p.named /\ p.origin # p.target /\ p.origin \notin Gone),
                  !.renamed = IF p.name = db[p.target].name THEN @ ELSE @ \cup {p.target}]
             /\ Answered(p, p.target)
    <3>1. PICK q : AnsweredAs(p, q) /\ q.result = p.target
      BY <1>2, <2>2, AnsweredOnce
    <3>2. PICK row : row = [name |-> p.name, source |-> p.source,
                            version |-> db[p.target].version + 1]
      OBVIOUS
    <3>3. Stored(row) /\ row.name = p.name
      BY <1>3, <2>2, <3>2 DEF Stored, Rows
    <3>4. db'[p.target] = row /\ \A c \in Ids \ {p.target} : db'[c] = db[c]
      BY <1>3, <2>2, <3>2
    <3>5. /\ ghost'.crossed = (ghost.crossed \/ (~p.named /\ p.origin # p.target
                                                 /\ p.origin \notin Gone))
          /\ ghost'.renamed = IF p.name = db[p.target].name THEN ghost.renamed
                              ELSE ghost.renamed \cup {p.target}
          /\ ghost'.origin = ghost.origin /\ ghost'.named = ghost.named
          /\ ghost'.edited = ghost.edited /\ ghost'.lost = ghost.lost
      BY <1>3, <2>2 DEF Ghosts
    <3>6. p.name # NoName /\ ~Taken(p.name, p.target)
      BY <2>2 DEF Storable
    <3>7. Born(p.target)'
      BY <3>3, <3>4 DEF Born, Stored, NoRow
    <3>8. ASSUME NEW b \in Ids, Born(b)
          PROVE  Born(b)' /\ (b \notin Gone' => b \notin Gone /\ db'[b].name = db[b].name)
      <4>1. CASE b = p.target
        BY <2>2, <3>3, <3>4, <3>5, <3>7, <4>1 DEF Gone
      <4>2. CASE b # p.target
        BY <3>4, <3>5, <3>8, <4>2 DEF Gone, Born
      <4> QED
        BY <4>1, <4>2
    <3>9. \A b \in Ids : db'[b] = db[b] \/ (p.kind = "save" /\ p.target = b /\ q.result = b)
      BY <1>8, <3>1, <3>4 DEF ServerSaves
    <3> QED
      BY <3>1, <3>5, <3>6, <3>7, <3>8, <3>9 DEF Written, RowsKept
  <2> QED
    BY <1>6, <1>8, <2>1, <2>2 DEF ServerSaves
<1>9. CASE ServerClones(p)
  <2>1. PICK row : row = [db[p.target] EXCEPT !.name = UniqueCloneName(@), !.version = 1]
    OBVIOUS
  <2>2. CASE Insert(p, row) /\ UNCHANGED ghost
    <3>1. p.target \in Ids
      BY <1>4, <1>9 DEF ServerClones
    <3>2. ASSUME NEW old \in Rows(T, N), NEW n
          PROVE  Stored([old EXCEPT !.name = n, !.version = 1])
      BY DEF Rows, Stored
    <3>3. Stored(row)
      BY <1>3, <2>1, <3>1, <3>2
    <3> QED
      BY <1>7, <2>2, <3>3
  <2> QED
    BY <1>6, <1>9, <2>1, <2>2 DEF ServerClones
<1>10. CASE ServerDeletes(p)
  <2>1. CASE /\ Stored(db[p.target]) /\ db' = [db EXCEPT ![p.target] = Deleted]
             /\ Answered(p, Away) /\ UNCHANGED ghost
    <3>1. PICK q : AnsweredAs(p, q) /\ q.result = Away
      BY <1>2, <2>1, AnsweredOnce
    <3>2. p.target \in Ids
      BY <1>4, <1>10 DEF ServerDeletes
    <3>3. db'[p.target] = Deleted /\ \A c \in Ids \ {p.target} : db'[c] = db[c]
      BY <1>3, <2>1, <3>2
    <3>4. Deleted # NoRow /\ ~Stored(Deleted)
      BY <1>1, NoRowTyped DEF Stored, TypedBy
    <3>5. RowsKept
      BY <2>1, <3>2, <3>3, <3>4 DEF RowsKept, Born, Gone
    <3>6. \A c \in Ids : db'[c] = db[c] \/ ~Stored(db'[c])
      BY <3>3, <3>4
    <3> QED
      BY <2>1, <3>1, <3>5, <3>6, IdFacts DEF Written
  <2> QED
    BY <1>6, <1>10, <2>1 DEF ServerDeletes
<1> QED
  BY <1>2, <1>8, <1>9, <1>10

\* A save that would bring the draft of one blueprint into another is refused:
\* its name is taken (blueprints/models.py:12), or it has none.
LEMMA ServerKeepsNames ==
  ASSUME EditorTyped, NamesInv, ServerStep
  PROVE  NamesInv'
<1>1. PICK p, q : Written(p, q)
  BY ServerWrites
<1>2. UNCHANGED <<id, name, cache, fetch>>
  BY DEF ServerStep, draft
<1>3. \A b \in Ids : Born(b) =>
        Born(b)' /\ (b \notin Gone' => b \notin Gone /\ db'[b].name = db[b].name)
  BY <1>1 DEF Written, RowsKept
<1>4. ASSUME NEW origin \in Ids \cup {New}, NEW named, NEW n, NameOf(origin, named, n)
      PROVE  NameOf(origin, named, n)'
  BY <1>3, <1>4 DEF NameOf
<1>5. NamesKnown'
  BY <1>2, <1>3 DEF NamesInv, NamesKnown
<1>6. NamesSent'
  <2> SUFFICES ASSUME NEW r \in pending'
               PROVE  /\ r.target \in Ids => Born(r.target)'
                      /\ r.result \in Ids => Born(r.result)'
                      /\ NameOf(r.origin, r.named, r.name)'
    BY DEF NamesSent
  <2>1. ASSUME NEW o \in pending
        PROVE  /\ o.target \in Ids => Born(o.target)'
               /\ o.result \in Ids => Born(o.result)'
               /\ NameOf(o.origin, o.named, o.name)'
    BY <1>3, <1>4, EditorShapes DEF NamesInv, NamesSent
  <2>2. CASE r = q
    <3>1. p \in pending /\ r.target = p.target /\ r.origin = p.origin /\ r.named = p.named
            /\ r.name = p.name /\ (r.result \in Ids => Born(r.result)')
      BY <1>1, <2>2 DEF Written, AnsweredAs
    <3> QED
      BY <2>1, <3>1
  <2> QED
    BY <1>1, <2>1, <2>2 DEF Written, AnsweredAs
<1>7. NameOf(ghost.origin, ghost.named, name)'
  <2>1. ghost.origin \in Ids \cup {New}
    BY EditorShapes DEF Ghosts
  <2>2. ghost'.origin = ghost.origin /\ ghost'.named = ghost.named
    BY <1>1 DEF Written
  <2> QED
    BY <1>2, <1>4, <2>1, <2>2 DEF NamesInv, NameOf
<1>8. NoCrossSave'
  <2>1. CASE ghost'.crossed = ghost.crossed
    BY <2>1 DEF NamesInv, NoCrossSave
  <2>2. CASE /\ p.name # NoName /\ ~Taken(p.name, p.target)
             /\ ghost'.crossed = (ghost.crossed \/ (~p.named /\ p.origin # p.target
                                                    /\ p.origin \notin Gone))
    <3>1. p \in pending
      BY <1>1 DEF Written, AnsweredAs
    <3>2. NameOf(p.origin, p.named, p.name) /\ p.origin \in Ids \cup {New}
      BY <3>1, EditorShapes DEF NamesInv, NamesSent
    <3>3. ~(~p.named /\ p.origin # p.target /\ p.origin \notin Gone)
      <4> SUFFICES ASSUME ~p.named, p.origin # p.target, p.origin \notin Gone
                   PROVE  FALSE
        OBVIOUS
      <4>1. p.origin \in Ids /\ p.name = db[p.origin].name
        BY <2>2, <3>2 DEF NameOf
      <4>2. Stored(db[p.origin])
        BY <4>1 DEF Gone
      <4> QED
        BY <2>2, <4>1, <4>2 DEF Taken
    <3> QED
      BY <2>2, <3>3 DEF NamesInv, NoCrossSave
  <2> QED
    BY <1>1, <2>1, <2>2 DEF Written
<1> QED
  BY <1>2, <1>3, <1>5, <1>6, <1>7, <1>8 DEF NamesInv

\* A write that the page does not show yet has its answer on the way.
LEMMA ServerKeepsStored ==
  ASSUME EditorTyped, NamesInv, StoredInv, ServerStep
  PROVE  StoredInv'
<1>1. PICK p, q : Written(p, q)
  BY ServerWrites
<1>2. UNCHANGED <<id, name, source, cache, fetch, outrun>> /\ ghost'.lost = ghost.lost
        /\ ghost'.edited = ghost.edited
  BY <1>1 DEF ServerStep, draft, Written
<1>3. ASSUME NEW b \in Ids, Saved(b) PROVE Saved(b)'
  <2>1. PICK r \in pending : r.kind = "save" /\ r.target = b /\ r.result = b
    BY <1>3 DEF Saved
  <2>2. r # p
    BY <1>1, <2>1, IdFacts DEF Written, AnsweredAs
  <2>3. r \in pending'
    BY <1>1, <2>1, <2>2 DEF Written, AnsweredAs
  <2> QED
    BY <2>1, <2>3 DEF Saved
<1>4. ASSUME NEW b \in Ids, Stored(db'[b]), Born(b)
      PROVE  db'[b] = db[b] \/ Saved(b)'
  <2>1. CASE p.kind = "save" /\ p.target = b /\ q.result = b
    BY <1>1, <2>1 DEF Written, AnsweredAs, Saved
  <2> QED
    BY <1>1, <1>4, <2>1 DEF Written
<1>6. ReadsFresh'
  <2> SUFFICES ASSUME ~ghost.lost, NEW b \in Ids, Stored(db'[b]), fetch[b].phase = "read"
               PROVE  fetch[b].row = db'[b] \/ Saved(b)' \/ b \in outrun
    BY <1>2 DEF ReadsFresh
  <2>1. Born(b)
    BY DEF NamesInv, NamesKnown
  <2>2. CASE db'[b] = db[b]
    BY <1>3, <2>2 DEF StoredInv, ReadsFresh
  <2> QED
    BY <1>4, <2>1, <2>2
<1>7. PageFresh'
  <2>1. PICK b : b = id
    OBVIOUS
  <2> SUFFICES ASSUME ~ghost.lost, b \in Ids, Stored(db'[b]), fetch[b].phase = "idle"
               PROVE  cache[b] = db'[b] \/ Saved(b)' \/ b \in outrun
    BY <1>2, <2>1 DEF PageFresh, Saved
  <2>2. Born(b)
    BY <2>1 DEF NamesInv
  <2>3. CASE db'[b] = db[b]
    BY <1>3, <2>1, <2>3 DEF StoredInv, PageFresh
  <2> QED
    BY <1>4, <2>2, <2>3
<1>8. DraftShown'
  BY <1>2 DEF StoredInv, DraftShown
<1> QED
  BY <1>6, <1>7, <1>8 DEF StoredInv

-----------------------------------------------------------------------------
\* Rows that carry the names their ids have.
WellNamed(rows) ==
  \A b \in Ids : Stored(rows[b]) => Born(b) /\ (b \notin Gone => rows[b].name = db[b].name)

\* What has come with a page: the draft has a name of its origin, and shows the
\* row of the page if that is there.
PageShown(b, rows) ==
  /\ ghost'.renamed = ghost.renamed /\ ghost'.crossed = ghost.crossed
  /\ ghost'.lost = ghost.lost
  /\ NameOf(ghost'.origin, ghost'.named, name')
  /\ b \in Ids /\ Stored(rows[b]) /\ ~ghost'.edited =>
       name' = rows[b].name /\ source' = rows[b].source

\* The effect on existing.data shows the row of the page
\* (BlueprintEditorPage.tsx:77-82).
LEMMA LoadShows ==
  ASSUME EditorTyped, NamesInv, DraftShown, NEW b, NEW rows, WellNamed(rows),
         Load(b, rows)
  PROVE  PageShown(b, rows)
<1>1. ghost \in Ghosts
  BY EditorShapes
<1>2. CASE UNCHANGED <<draft, ghost>> /\ ~(Stored(Existing(b, rows))
                                           /\ <<b, Existing(b, rows)>> # <<id, Existing(id, cache)>>)
  <2>1. UNCHANGED <<name, source, ghost>>
    BY <1>2 DEF draft
  <2>2. ASSUME b \in Ids, Stored(rows[b])
        PROVE  b = id /\ rows[b] = cache[id]
    BY <1>2, <2>2 DEF Existing
  <2>3. NameOf(ghost'.origin, ghost'.named, name')
    BY <2>1 DEF NamesInv
  <2> QED
    BY <2>1, <2>2, <2>3 DEF PageShown, DraftShown
<1>3. CASE /\ Stored(Existing(b, rows)) /\ name' = Existing(b, rows).name
           /\ SetSource(Existing(b, rows).source)
           /\ ghost' = [ghost EXCEPT !.origin = b, !.named = FALSE, !.edited = FALSE]
  <2>1. b \in Ids /\ Existing(b, rows) = rows[b] /\ b # New
    BY <1>3, IdFacts DEF Existing, Stored, NoRow
  <2>2. /\ ghost'.origin = b /\ ~ghost'.named /\ ghost'.renamed = ghost.renamed
        /\ ghost'.crossed = ghost.crossed /\ ghost'.lost = ghost.lost
    BY <1>1, <1>3 DEF Ghosts
  <2>3. NameOf(ghost'.origin, ghost'.named, name')
    BY <1>3, <2>1, <2>2 DEF NameOf, WellNamed
  <2> QED
    BY <1>3, <2>1, <2>2, <2>3 DEF PageShown, SetSource
<1> QED
  BY <1>2, <1>3 DEF Load

\* So does a new component (BlueprintEditorPage.tsx:51-67).
LEMMA MountShows ==
  ASSUME EditorTyped, NamesInv, NEW b, Mounted(b)
  PROVE  PageShown(b, cache)
<1>1. ghost \in Ghosts
  BY EditorShapes
<1>2. PICK row : row = Existing(b, cache)
  OBVIOUS
<1>3. /\ name' = IF Stored(row) THEN row.name ELSE NoName
      /\ source' = IF Stored(row) THEN row.source ELSE Home
      /\ ghost' = [ghost EXCEPT !.origin = IF Stored(row) THEN b ELSE New,
                                !.named = FALSE, !.edited = FALSE, !.late = FALSE]
  BY <1>2 DEF Mounted
<1>4. Stored(row) => b \in Ids /\ row = cache[b] /\ b # New
  BY <1>2, IdFacts DEF Existing, Stored, NoRow
<1>5. /\ ghost'.origin = (IF Stored(row) THEN b ELSE New) /\ ~ghost'.named
      /\ ghost'.renamed = ghost.renamed /\ ghost'.crossed = ghost.crossed
      /\ ghost'.lost = ghost.lost
  BY <1>1, <1>3 DEF Ghosts
<1>6. NameOf(ghost'.origin, ghost'.named, name')
  BY <1>3, <1>4, <1>5 DEF NameOf, NamesInv, NamesKnown
<1>7. b \in Ids /\ Stored(cache[b]) => name' = cache[b].name /\ source' = cache[b].source
  BY <1>2, <1>3 DEF Existing
<1> QED
  BY <1>5, <1>6, <1>7 DEF PageShown

\* A page and its query, before any answer.
QueriesKnown(f) ==
  /\ \A b \in Ids : f[b].phase # "idle" => Born(b)
  /\ WellNamed([b \in Ids |-> f[b].row])

\* A change of route leaves the requests that are out as they were sent.
LEMMA GoToKeepsRequests ==
  ASSUME EditorTyped, NEW b, NEW f, NEW out \in SUBSET pending, GoTo(b, f, out)
  PROVE  /\ \A q \in pending' : \E p \in out : SameRequest(p, q)
         /\ \A p \in out : \E q \in pending' : SameRequest(p, q)
<1>1. PICK T, N : TypedBy(T, N)
  BY DEF EditorTyped
<1>2. out \in SUBSET Requests(T, N)
  BY <1>1 DEF TypedBy, RequestsTyped, PendingTyped
<1>3. CASE pending' = out
  BY <1>3 DEF SameRequest
<1>4. CASE pending' = Unmounted(out)
  BY <1>2, <1>4, UnmountedTyped
<1> QED
  BY <1>3, <1>4, GoToCases

\* It asks for a row that exists and shows what is cached.
LEMMA GoToKeepsNames ==
  ASSUME EditorTyped, NamesInv, StoredInv, NEW b, NEW f, QueriesKnown(f),
         \E T, N : f \in [Ids -> Queries(T, N)], NEW out \in SUBSET pending,
         GoTo(b, f, out), b \in Ids => Born(b), UNCHANGED <<db, cache>>
  PROVE  NamesInv' /\ PageShown(b, cache)
<1>1. id' = b /\ fetch' = (IF b = id THEN f ELSE Ask(f, b)) /\ (Stays(b) \/ Mounted(b))
  BY GoToCases
<1>2. WellNamed(cache)
  BY DEF NamesInv, NamesKnown, WellNamed
<1>3. PageShown(b, cache)
  BY <1>1, <1>2, LoadShows, MountShows DEF Stays, StoredInv
<1>4. Gone' = Gone /\ \A c : Born(c)' <=> Born(c)
  BY <1>3 DEF Gone, Born, PageShown
<1>5. \A origin, named, n : NameOf(origin, named, n)' <=> NameOf(origin, named, n)
  BY <1>4 DEF NameOf
<1>6. PICK T, N : f \in [Ids -> Queries(T, N)]
  OBVIOUS
<1>7. \A c \in Ids : \/ fetch'[c] = f[c]
                     \/ c = b /\ fetch'[c].phase = "asked" /\ fetch'[c].row = f[c].row
  <2> SUFFICES ASSUME NEW c \in Ids, fetch'[c] # f[c]
               PROVE  c = b /\ fetch'[c].phase = "asked" /\ fetch'[c].row = f[c].row
    OBVIOUS
  <2>1. fetch' = [f EXCEPT ![b].phase = "asked"]
    BY <1>1 DEF Ask
  <2>2. c = b
    BY <1>6, <2>1
  <2>3. f[c] \in Queries(T, N) /\ fetch'[c] = [f[c] EXCEPT !.phase = "asked"]
    BY <1>6, <2>1, <2>2
  <2> QED
    BY <2>2, <2>3 DEF Queries
<1>8. NamesKnown'
  <2>1. \A c \in Ids : Stored(cache'[c]) =>
          Born(c)' /\ (c \notin Gone' => cache'[c].name = db'[c].name)
    BY <1>2, <1>4 DEF WellNamed
  <2>2. \A c \in Ids : fetch'[c].phase # "idle" => Born(c)'
    BY <1>4, <1>7 DEF QueriesKnown
  <2>3. \A c \in Ids : Stored(fetch'[c].row) => 
           Born(c)' /\ (c \notin Gone' => fetch'[c].row.name = db'[c].name)
    <3>1. \A c \in Ids : fetch'[c].row = f[c].row
      BY <1>7
    <3>2. \A c \in Ids : Stored(f[c].row) => 
           Born(c) /\ (c \notin Gone => f[c].row.name = db[c].name)
      BY DEF QueriesKnown, WellNamed
    <3> QED
      BY <1>4, <3>1, <3>2
  <2> QED
    BY <2>1, <2>2, <2>3 DEF NamesKnown
<1>9. NamesSent'
  <2>1. \A q \in pending' : \E p \in pending : SameRequest(p, q)
    BY GoToKeepsRequests
  <2> QED
    BY <1>4, <1>5, <2>1 DEF NamesInv, NamesSent, SameRequest
<1>10. NameOf(ghost.origin, ghost.named, name)'
  BY <1>3, <1>4 DEF PageShown, NameOf
<1>11. (id \in Ids => Born(id))'
  BY <1>1 DEF Born
<1>12. NoCrossSave'
  BY <1>3 DEF PageShown, NamesInv, NoCrossSave
<1> QED
  BY <1>3, <1>8, <1>9, <1>10, <1>11, <1>12 DEF NamesInv

\* The success handler of a save refetches the blueprint it was sent from
\* (BlueprintEditorPage.tsx:106-137); a read that is not restarted is marked.
LEMMA SucceedKeeps ==
  ASSUME EditorTyped, NamesInv, StoredInv, Succeed
  PROVE  NamesInv' /\ StoredInv'
<1>1. PICK p \in pending : /\ p.result \notin {Sent, Refusal}
                           /\ GoTo(p.result, Invalidate(fetch), pending \ {p})
                           /\ outrun' = outrun \cup OutrunBy(p)
                           /\ UNCHANGED <<db, cache>>
  BY DEF Succeed
<1>2. PICK T, N : TypedBy(T, N)
  BY DEF EditorTyped
<1>3. PICK f : f = Invalidate(fetch)
  OBVIOUS
<1>4. /\ f \in [Ids -> Queries(T, N)]
      /\ \A c \in Ids : f[c] = fetch[c] \/ (c = id /\ f[c].phase = "asked")
      /\ id \in Ids => f[id].phase # "idle"
  BY <1>2, <1>3, InvalidateTyped DEF TypedBy, RowsTyped
<1>5. \A c \in Ids : f[c].row = fetch[c].row \/ ~Stored(f[c].row)
  <2>1. fetch \in [Ids -> Queries(T, N)]
    BY <1>2 DEF TypedBy, RowsTyped
  <2>2. CASE id \in Ids /\ Stored(cache[id])
    <3>1. f = [fetch EXCEPT ![id] = [phase |-> "asked", row |-> NoRow]]
      BY <1>3, <2>2 DEF Invalidate
    <3>2. ~Stored(NoRow)
      BY DEF Stored, NoRow
    <3> QED
      BY <2>1, <2>2, <3>1, <3>2
  <2>3. CASE ~(id \in Ids /\ Stored(cache[id]))
    <3>1. f = Ask(fetch, id)
      BY <1>3, <2>3 DEF Invalidate
    <3> SUFFICES ASSUME NEW c \in Ids, f[c] # fetch[c]
                 PROVE  f[c].row = fetch[c].row
      OBVIOUS
    <3>2. f = [fetch EXCEPT ![id].phase = "asked"] /\ c = id
      BY <2>1, <3>1 DEF Ask
    <3>3. fetch[c] \in Queries(T, N) /\ f[c] = [fetch[c] EXCEPT !.phase = "asked"]
      BY <2>1, <3>2
    <3> QED
      BY <3>3 DEF Queries
  <2> QED
    BY <2>2, <2>3
<1>6. QueriesKnown(f)
  <2>1. \A c \in Ids : f[c].phase # "idle" => Born(c)
    BY <1>4 DEF NamesInv, NamesKnown
  <2>2. \A c \in Ids : Stored(f[c].row) => Born(c) /\ (c \notin Gone => f[c].row.name = db[c].name)
    BY <1>5 DEF NamesInv, NamesKnown
  <2> QED
    BY <2>1, <2>2 DEF QueriesKnown, WellNamed
<1>7. PICK b : b = p.result
  OBVIOUS
<1>8. GoTo(b, f, pending \ {p}) /\ (b \in Ids => Born(b))
  BY <1>1, <1>3, <1>7 DEF NamesInv, NamesSent
<1>9. NamesInv' /\ PageShown(b, cache)
  BY <1>1, <1>4, <1>6, <1>8, GoToKeepsNames
<1>10. id' = b /\ fetch' = (IF b = id THEN f ELSE Ask(f, b))
  BY <1>8, GoToCases
<1>11. /\ \A c \in Ids : fetch'[c] = f[c] \/ fetch'[c].phase = "asked"
       /\ b \in Ids => fetch'[b].phase # "idle"
  BY <1>4, <1>10, AskTyped
<1>12. ghost'.lost = ghost.lost
  BY <1>9 DEF PageShown
<1>14. ReadsFresh'
  <2> SUFFICES ASSUME ~ghost.lost, NEW c \in Ids, Stored(db[c]), fetch'[c].phase = "read",
                      fetch'[c].row # db[c], c \notin outrun'
               PROVE  Saved(c)'
    BY <1>1, <1>12 DEF ReadsFresh
  <2>1. fetch[c].phase = "read" /\ fetch'[c] = fetch[c]
    BY <1>4, <1>11
  <2>2. Saved(c)
    BY <1>1, <2>1 DEF StoredInv, ReadsFresh
  <2>3. PICK q \in pending : q.kind = "save" /\ q.target = c /\ q.result = c
    BY <2>2 DEF Saved
  <2>4. q # p
    BY <1>1, <2>3 DEF OutrunBy
  <2>5. \E r \in pending' : SameRequest(q, r)
    BY <1>8, <2>3, <2>4, GoToKeepsRequests
  <2> QED
    BY <2>3, <2>5 DEF Saved, SameRequest
<1>15. PageFresh'
  BY <1>10, <1>11 DEF PageFresh
<1>16. DraftShown'
  BY <1>1, <1>9, <1>10 DEF PageShown, DraftShown
<1> QED
  BY <1>9, <1>14, <1>15, <1>16 DEF StoredInv

\* So does a visit, with the queries as they are.
LEMMA VisitKeeps ==
  ASSUME EditorTyped, NamesInv, StoredInv, Visit
  PROVE  NamesInv' /\ StoredInv'
<1>1. PICK b \in {c \in Ids : Stored(db[c])} \cup {New, Away} : b # id /\ GoTo(b, fetch, pending)
  BY DEF Visit
<1>2. UNCHANGED <<db, cache, outrun>>
  BY DEF Visit
<1>3. PICK T, N : fetch \in [Ids -> Queries(T, N)]
  BY DEF EditorTyped, TypedBy, RowsTyped
<1>4. QueriesKnown(fetch)
  BY DEF NamesInv, NamesKnown, QueriesKnown, WellNamed
<1>5. b \in Ids => Born(b)
  BY EditorShapes, IdFacts
<1>6. NamesInv' /\ PageShown(b, cache)
  BY <1>1, <1>2, <1>3, <1>4, <1>5, GoToKeepsNames
<1>7. id' = b /\ fetch' = Ask(fetch, b)
  BY <1>1, GoToCases
<1>8. /\ \A c \in Ids : fetch'[c] = fetch[c] \/ fetch'[c].phase = "asked"
      /\ b \in Ids => fetch'[b].phase # "idle"
  BY <1>3, <1>7, AskTyped
<1>9. ASSUME NEW c \in Ids, Saved(c) PROVE Saved(c)'
  <2>1. \A p \in pending : \E q \in pending' : SameRequest(p, q)
    BY <1>1, GoToKeepsRequests
  <2> QED
    BY <1>9, <2>1 DEF Saved, SameRequest
<1>10. ReadsFresh'
  BY <1>2, <1>6, <1>8, <1>9 DEF StoredInv, ReadsFresh, PageShown
<1>11. PageFresh'
  BY <1>7, <1>8 DEF PageFresh
<1>12. DraftShown'
  BY <1>2, <1>6, <1>7 DEF PageShown, DraftShown
<1> QED
  BY <1>6, <1>10, <1>11, <1>12 DEF StoredInv

\* A read takes the row as it is, and its arrival replaces the draft.
LEMMA QueryKeeps ==
  ASSUME EditorTyped, NamesInv, StoredInv, QueryRead \/ QueryArrives
  PROVE  NamesInv' /\ StoredInv'
<1>1. PICK T, N : fetch \in [Ids -> Queries(T, N)] /\ cache \in [Ids -> Rows(T, N)]
  BY DEF EditorTyped, TypedBy, RowsTyped
<1>2. CASE QueryRead
  <2>1. PICK b \in Ids : /\ fetch[b].phase = "asked"
                         /\ fetch' = [fetch EXCEPT ![b] = [phase |-> "read", row |-> db[b]]]
                         /\ outrun' = outrun \ {b}
    BY <1>2 DEF QueryRead
  <2>2. /\ UNCHANGED <<id, name, source, db, cache, pending, ghost>>
        /\ outrun \subseteq outrun' \cup {b}
    BY <1>2, <2>1 DEF QueryRead, draft
  <2>3. /\ fetch'[b].phase = "read" /\ fetch'[b].row = db[b]
        /\ \A c \in Ids \ {b} : fetch'[c] = fetch[c]
    BY <1>1, <2>1
  <2>4. Gone' = Gone /\ \A c : Born(c)' <=> Born(c)
    BY <2>2 DEF Gone, Born
  <2>5. \A origin, named, n : NameOf(origin, named, n)' <=> NameOf(origin, named, n)
    BY <2>2, <2>4 DEF NameOf
  <2>6. NamesKnown'
    <3>1. Born(b)
      BY <2>1 DEF NamesInv, NamesKnown
    <3> QED
      BY <2>2, <2>3, <2>4, <3>1 DEF NamesInv, NamesKnown
  <2>7. NamesInv'
    <3>1. NamesSent'
      BY <2>2, <2>4, <2>5 DEF NamesInv, NamesSent
    <3>2. NameOf(ghost.origin, ghost.named, name)'
      BY <2>2, <2>4 DEF NamesInv, NameOf
    <3> QED
      BY <2>2, <2>4, <2>6, <3>1, <3>2 DEF NamesInv, NoCrossSave
  <2>8. StoredInv'
    <3>1. ReadsFresh'
      BY <2>2, <2>3 DEF StoredInv, ReadsFresh, Saved
    <3>2. PageFresh'
      BY <2>2, <2>3 DEF StoredInv, PageFresh, Saved
    <3> QED
      BY <2>2, <3>1, <3>2 DEF StoredInv, DraftShown
  <2> QED
    BY <2>7, <2>8
<1>3. CASE QueryArrives
  <2>1. PICK b \in Ids :
          /\ fetch[b].phase = "read"
          /\ fetch' = [fetch EXCEPT ![b] = [phase |-> "idle", row |-> NoRow]]
          /\ cache' = IF Stored(fetch[b].row) THEN [cache EXCEPT ![b] = fetch[b].row] ELSE cache
    BY <1>3 DEF QueryArrives
  <2>2. Load(id, cache') /\ UNCHANGED <<id, db, pending, outrun>>
    BY <1>3 DEF QueryArrives
  <2>3. /\ fetch'[b].phase = "idle" /\ ~Stored(fetch'[b].row)
        /\ \A c \in Ids \ {b} : fetch'[c] = fetch[c]
    BY <1>1, <2>1 DEF Stored, NoRow
  <2>4. /\ cache'[b] = IF Stored(fetch[b].row) THEN fetch[b].row ELSE cache[b]
        /\ \A c \in Ids \ {b} : cache'[c] = cache[c]
    BY <1>1, <2>1
  <2>5. WellNamed(cache')
    BY <2>4 DEF WellNamed, NamesInv, NamesKnown
  <2>6. PageShown(id, cache')
    BY <2>2, <2>5, LoadShows DEF StoredInv
  <2>7. Gone' = Gone /\ \A c : Born(c)' <=> Born(c)
    BY <2>2, <2>6 DEF Gone, Born, PageShown
  <2>8. \A origin, named, n : NameOf(origin, named, n)' <=> NameOf(origin, named, n)
    BY <2>2, <2>7 DEF NameOf
  <2>9. NamesKnown'
    BY <2>2, <2>3, <2>5, <2>7 DEF NamesInv, NamesKnown, WellNamed
  <2>10. NamesInv'
    <3>1. NamesSent'
      BY <2>2, <2>7, <2>8 DEF NamesInv, NamesSent
    <3>2. NameOf(ghost.origin, ghost.named, name)'
      BY <2>2, <2>6, <2>7 DEF PageShown, NameOf
    <3> QED
      BY <2>2, <2>6, <2>7, <2>9, <3>1, <3>2 DEF NamesInv, NoCrossSave, PageShown
  <2>12. ghost'.lost = ghost.lost
    BY <2>6 DEF PageShown
  <2>13. ReadsFresh'
    BY <2>2, <2>3, <2>12 DEF StoredInv, ReadsFresh, Saved
  <2>14. PageFresh'
    <3>1. PICK c : c = id
      OBVIOUS
    <3> SUFFICES ASSUME ~ghost.lost, c \in Ids, Stored(db[c]), fetch'[c].phase = "idle"
                 PROVE  cache'[c] = db[c] \/ Saved(c) \/ c \in outrun
      BY <2>2, <2>12, <3>1 DEF PageFresh, Saved
    <3>2. CASE c = b
      BY <2>1, <2>4, <3>2 DEF StoredInv, ReadsFresh
    <3>3. CASE c # b
      BY <2>3, <2>4, <3>1, <3>3 DEF StoredInv, PageFresh
    <3> QED
      BY <3>2, <3>3
  <2>15. DraftShown'
    BY <2>2, <2>6 DEF PageShown, DraftShown
  <2> QED
    BY <2>10, <2>13, <2>14, <2>15 DEF StoredInv
<1> QED
  BY <1>2, <1>3

\* At first one row is stored and asked for if it is on the page.
LEMMA StoredInit ==
  ASSUME Init, EditorTyped
  PROVE  NamesInv /\ StoredInv
<1>1. /\ id \in {New, 1} /\ name = NoName /\ pending = {}
      /\ cache = [b \in Ids |-> NoRow]
      /\ fetch = Ask([b \in Ids |-> [phase |-> "idle", row |-> NoRow]], id)
  BY DEF Init
<1>2. ghost.origin = New /\ ~ghost.crossed
  BY DEF Init
<1>3. Born(1)
  <2>1. db[1] = [name |-> <<"home">>, source |-> Home, version |-> 1]
    BY IdFacts DEF Init
  <2> QED
    BY <2>1 DEF Born, NoRow
<1>4. \A b \in Ids : ~Stored(cache[b])
  BY <1>1 DEF Stored, NoRow
<1>5. \A b \in Ids : /\ fetch[b].phase = IF b = id THEN "asked" ELSE "idle"
                     /\ ~Stored(fetch[b].row)
  <2>1. PICK f : f = [b \in Ids |-> [phase |-> "idle", row |-> NoRow]]
    OBVIOUS
  <2>2. fetch = IF id \in Ids THEN [f EXCEPT ![id].phase = "asked"] ELSE f
    BY <1>1, <2>1 DEF Ask
  <2> QED
    BY <2>1, <2>2 DEF Stored, NoRow
<1>6. NamesInv
  <2>1. id \in Ids => Born(id)
    BY <1>1, <1>3, IdFacts
  <2>2. NamesKnown
    BY <1>4, <1>5, <2>1 DEF NamesKnown
  <2> QED
    BY <1>1, <1>2, <2>1, <2>2 DEF NamesInv, NamesSent, NameOf, NoCrossSave
<1>7. StoredInv
  BY <1>1, <1>4, <1>5 DEF StoredInv, ReadsFresh, PageFresh, DraftShown
<1> QED
  BY <1>6, <1>7

\* Every step keeps both parts.
LEMMA StoredStep ==
  ASSUME EditorTyped, NamesInv, StoredInv, [Next]_vars
  PROVE  NamesInv' /\ StoredInv'
<1>1. CASE \/ TypeSource \/ TypeName \/ PickStarter \/ PickFile \/ FileRead \/ OnCanvasChange
           \/ Debounced \/ Validated \/ ValidateFails \/ Fail \/ UNCHANGED vars
  BY <1>1, DraftSteps, DraftKeepsNames, DraftKeepsStored
<1>2. CASE Save \/ Clone \/ Delete
  BY <1>2, SendKeeps
<1>3. CASE ServerStep
  BY <1>3, ServerKeepsNames, ServerKeepsStored
<1>4. CASE Succeed \/ Visit
  BY <1>4, SucceedKeeps, VisitKeeps
<1>5. CASE QueryRead \/ QueryArrives
  BY <1>5, QueryKeeps
<1> QED
  BY <1>1, <1>2, <1>3, <1>4, <1>5 DEF Next

\* Both are invariants.
LEMMA StoredHolds == Spec => [](NamesInv /\ StoredInv)
<1>1. Init /\ EditorTyped => NamesInv /\ StoredInv
  BY StoredInit
<1>2. EditorTyped /\ (NamesInv /\ StoredInv) /\ [Next]_vars => (NamesInv /\ StoredInv)'
  BY StoredStep
<1> QED
  BY <1>1, <1>2, EditorTypedHolds, PTL DEF Spec

\* A draft whose name was not edited is never saved over another blueprint, as
\* long as the one it was loaded from is neither renamed nor deleted, whatever
\* saves, clones, deletes and changes of blueprint overlap
\* (BlueprintEditorPage.tsx:56-82).
THEOREM SavesStayApart == Spec => []NoCrossSave
<1>1. NamesInv => NoCrossSave
  BY DEF NamesInv
<1> QED
  BY <1>1, StoredHolds, PTL

\* When nothing is in flight the page of a blueprint shows the row as stored, and
\* a draft that was not edited is that row, whatever requests overlapped; but for
\* a read that a save overtook and that the library did not restart
\* (BlueprintEditorPage.tsx:56-137).
THEOREM StoredIsShown == Spec => []EditorShowsStored
<1>1. StoredInv => EditorShowsStored
  BY DEF StoredInv, PageFresh, DraftShown, Saved, EditorShowsStored, Settled
<1> QED
  BY <1>1, StoredHolds, PTL
==============================================================================
