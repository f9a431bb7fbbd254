--------------------------- MODULE Session_proofs ---------------------------
(***************************************************************************)
(* Proofs about Session, for every set of page calls and every bound on    *)
(* pairs, sign-ins, expiries and lost messages: SessionInv is inductive,   *)
(* and the safety properties of the sign-in follow from it.                *)
(***************************************************************************)
EXTENDS Session, TLAPS

USE PairsAssumption

\* No refresh token that the tab knows is newer than the pairs issued.
KnownAreIssued ==
  /\ store.refresh <= issued
  /\ \A r \in Calls : call[r].refresh <= issued
  /\ logout <= issued

\* A pair that no store, request or ended session has met.
Fresh(p) ==
  /\ p \in 1 .. issued /\ p \notin spent /\ p \notin expired
  /\ store.refresh # p /\ logout # p
  /\ \A r \in Calls : call[r].refresh # p

\* Pairs on their way to the tab are fresh, and each is granted once.
GrantsAreFresh ==
  /\ login > 0 => Fresh(login)
  /\ \A r \in Calls : call[r].pc = "renewed" =>
       /\ Fresh(call[r].pair) /\ call[r].pair # login
       /\ \A s \in Calls : s # r /\ call[s].pc = "renewed" => call[s].pair # call[r].pair

\* A call has run when it was answered, and not before.
RanWhenAnswered ==
  \A r \in Calls :
    call[r].ran <= 1 /\ (call[r].pc \notin {"ok", "error"} => call[r].ran = 0)

\* What an unshaken call can rely on.
Undisturbed(r) ==
  /\ store.refresh # None /\ logout = None
  /\ \A s \in Calls : s # r => call[s].pc \notin Refreshing
  /\ call[r].pc = "renewing" => ValidRefresh(call[r].refresh)
  /\ call[r].pc # "refused"
  /\ call[r].tries = 2 => call[r].pc = "travels" /\ ValidAccess(call[r].access)
UnshakenAreUndisturbed ==
  \A r \in Calls : ~Settled(r) /\ ~call[r].shaken => Undisturbed(r)

SessionInv ==
  /\ SessionTypeOK
  /\ KnownAreIssued
  /\ GrantsAreFresh
  /\ RanWhenAnswered
  /\ UnshakenAreUndisturbed
  /\ RefreshUsable

CallRecord ==
  [pc : CallPC, access : {None} \cup Pair, refresh : {None} \cup Pair,
   pair : {None} \cup Pair, tries : 0 .. 2, ran : 0 .. 2, shaken : BOOLEAN]

\* What SessionTypeOK says of the numbers of pairs, for the arithmetic below.
LEMMA TypeFacts ==
  ASSUME SessionTypeOK
  PROVE  /\ issued \in Nat /\ None \notin spent
         /\ store.refresh \in Nat /\ -store.refresh \in -MaxPairs .. MaxPairs
         /\ store.refresh \in -MaxPairs .. MaxPairs
         /\ \A r \in Calls : call[r].refresh \in Nat
  BY DEF SessionTypeOK, None, Pair

\* A tab that opens with a good pair and nothing in flight satisfies SessionInv.
THEOREM InitEstablishesInv == Init => SessionInv
<1> SUFFICES ASSUME Init PROVE SessionInv
  OBVIOUS
<1>1. \A r \in Calls : call[r] = Idle
  BY DEF Init
<1> QED
  BY <1>1 DEF Init, Idle, SessionInv, SessionTypeOK, KnownAreIssued, GrantsAreFresh,
     RanWhenAnswered, UnshakenAreUndisturbed, Settled, RefreshUsable, None, Pair, CallPC

-----------------------------------------------------------------------------
(* Calls that are sent, and calls that are shaken.                         *)

\* A call record whose place, token, try or mark changes is a call record.
LEMMA SendingOK ==
  ASSUME NEW c \in CallRecord, NEW pc \in CallPC, NEW access \in {None} \cup Pair,
         NEW tries \in 0 .. 2, NEW shaken \in BOOLEAN
  PROVE  [c EXCEPT !.pc = pc, !.access = access, !.tries = tries, !.shaken = shaken]
           \in CallRecord
  BY DEF CallRecord

\* What request() sends first: an unshaken call knows of nothing that could
\* disturb it.
LEMMA SentOK ==
  ASSUME SessionTypeOK, store' \in [access : {None} \cup Pair, refresh : {None} \cup Pair,
                                    user : BOOLEAN]
  PROVE  /\ Sent \in CallRecord /\ Sent.pc = "travels"
         /\ Sent.refresh = None /\ Sent.ran = 0 /\ Sent.tries = 1
         /\ ~Sent.shaken => /\ store'.access # None /\ logout = None
                            /\ \A s \in Calls : call[s].pc \notin Refreshing
<1>1. Shaky \in BOOLEAN
  BY DEF Shaky
<1>2. Idle \in CallRecord
  BY DEF Idle, CallRecord, CallPC, None
<1>3. Sent \in CallRecord
  <2>1. "travels" \in CallPC /\ 1 \in 0 .. 2
    BY DEF CallPC
  <2> QED
    BY <1>1, <1>2, <2>1, SendingOK DEF Sent
<1>4. /\ Sent.pc = "travels" /\ Sent.refresh = None /\ Sent.ran = 0 /\ Sent.tries = 1
      /\ Sent.shaken = Shaky
  BY DEF Sent, Idle
<1> QED
  BY <1>3, <1>4 DEF Shaky

\* Shaking leaves a call as it is but for its mark.
LEMMA ShakeOK ==
  ASSUME SessionTypeOK, NEW kept
  PROVE  /\ Shake(kept) \in [Calls -> CallRecord]
         /\ \A s \in Calls :
              /\ Shake(kept)[s].pc = call[s].pc /\ Shake(kept)[s].access = call[s].access
              /\ Shake(kept)[s].refresh = call[s].refresh /\ Shake(kept)[s].pair = call[s].pair
              /\ Shake(kept)[s].tries = call[s].tries /\ Shake(kept)[s].ran = call[s].ran
              /\ s \notin kept /\ ~Settled(s) => Shake(kept)[s].shaken
              /\ s \in kept => Shake(kept)[s].shaken = call[s].shaken
  BY ZenonT(40) DEF SessionTypeOK, Shake, Settled, CallRecord, CallPC

\* A step that changes the page at most.
LEMMA UnchangedKeepsInv ==
  ASSUME SessionInv, page' \in {"login", "app"}, call' = call,
         UNCHANGED <<store, login, logout, issued, expired, spent>>
  PROVE  SessionInv'
<1> USE DEF SessionInv
<1>1. SessionTypeOK' /\ KnownAreIssued' /\ RanWhenAnswered' /\ RefreshUsable'
  BY DEF SessionTypeOK, KnownAreIssued, RanWhenAnswered, RefreshUsable
<1>2. GrantsAreFresh'
  BY DEF GrantsAreFresh, Fresh
<1>3. UnshakenAreUndisturbed'
  BY DEF UnshakenAreUndisturbed, Undisturbed, Settled, ValidRefresh, ValidAccess
<1> QED
  BY <1>1, <1>2, <1>3

\* A new call of an idle place disturbs nobody.
LEMMA SendingKeepsInv ==
  ASSUME SessionInv, page' \in {"login", "app"}, NEW r \in Calls, call[r].pc = "idle",
         call' = [call EXCEPT ![r] = Sent],
         UNCHANGED <<store, login, logout, issued, expired, spent>>
  PROVE  SessionInv'
<1> USE DEF SessionInv
<1>1. /\ Sent \in CallRecord /\ Sent.pc = "travels"
      /\ Sent.refresh = None /\ Sent.ran = 0 /\ Sent.tries = 1
      /\ ~Sent.shaken => /\ store'.access # None /\ logout = None
                         /\ \A s \in Calls : call[s].pc \notin Refreshing
  BY SentOK DEF SessionTypeOK
<1>2. call' \in [Calls -> CallRecord] /\ call'[r] = Sent
      /\ \A s \in Calls \ {r} : call'[s] = call[s]
  BY <1>1 DEF SessionTypeOK, CallRecord
<1> HIDE DEF Sent
<1>3. SessionTypeOK'
  BY <1>2 DEF SessionTypeOK, CallRecord
<1>4. KnownAreIssued' /\ RanWhenAnswered'
  BY <1>1, <1>2 DEF SessionTypeOK, KnownAreIssued, RanWhenAnswered, None
<1>5. GrantsAreFresh'
  <2>1. \A p : Fresh(p) => Fresh(p)'
    BY <1>1, <1>2 DEF Fresh, None
  <2> QED
    BY <1>1, <1>2, <2>1 DEF GrantsAreFresh
<1>6. UnshakenAreUndisturbed'
  BY <1>1, <1>2 DEF UnshakenAreUndisturbed, Undisturbed, Settled, ValidRefresh, ValidAccess,
     SessionTypeOK, Refreshing, None
<1>7. RefreshUsable'
  BY <1>1, <1>2 DEF RefreshUsable
<1> QED
  BY <1>3, <1>4, <1>5, <1>6, <1>7

-----------------------------------------------------------------------------
(* The steps.                                                              *)

\* The guard of the shell's routes (router.tsx 43-53).
LEMMA VisitKeepsInv ==
  ASSUME SessionInv, Visit
  PROVE  SessionInv'
<1>1. CASE call' = call
  BY <1>1, UnchangedKeepsInv DEF Visit
<1>2. CASE call' # call
  <2>1. "shell" \in Calls /\ call["shell"].pc = "idle"
        /\ call' = [call EXCEPT !["shell"] = Sent]
    BY <1>2 DEF Visit, Rendered, Calls
  <2> QED
    BY <2>1, SendingKeepsInv DEF Visit, SessionInv, SessionTypeOK
<1> QED
  BY <1>1, <1>2

\* A query or a mutation of a page (client.ts 80-97).
LEMMA StartKeepsInv ==
  ASSUME SessionInv, NEW r \in PageCalls, Start(r)
  PROVE  SessionInv'
<1>1. r \in Calls /\ store' = store
  BY DEF Calls, Start
<1>2. call' = [call EXCEPT ![r] = Sent] /\ call[r].pc = "idle"
  BY <1>1 DEF Start, Live
<1> QED
  BY <1>1, <1>2, SendingKeepsInv DEF Start, SessionInv, SessionTypeOK

\* The sign-out button, with or without a stored token (AppShell.tsx 26-41).
LEMMA LogoutClickKeepsInv ==
  ASSUME SessionInv, LogoutClick
  PROVE  SessionInv'
<1> USE DEF SessionInv
<1>1. CASE store.refresh = None
  <2>1. /\ store' = Clear(FALSE) /\ page' = "login" /\ call' = call /\ logout' = logout
        /\ UNCHANGED <<login, issued, expired, spent>>
    BY <1>1 DEF LogoutClick, Leave
  <2>2. /\ store' \in [access : {None} \cup Pair, refresh : {None} \cup Pair, user : BOOLEAN]
        /\ store'.access = None /\ store'.refresh = None
    BY <2>1 DEF Clear, None
  <2>3. SessionTypeOK' /\ KnownAreIssued' /\ RanWhenAnswered'
    BY <1>1, <2>1, <2>2 DEF SessionTypeOK, KnownAreIssued, RanWhenAnswered
  <2>4. GrantsAreFresh'
    BY <1>1, <2>1, <2>2 DEF GrantsAreFresh, Fresh
  <2>5. UnshakenAreUndisturbed'
    BY <1>1, <2>1 DEF UnshakenAreUndisturbed, Undisturbed, Settled
  <2>6. RefreshUsable'
    BY <2>1, <2>2, TypeFacts DEF RefreshUsable
  <2> QED
    BY <2>3, <2>4, <2>5, <2>6
<1>2. CASE store.refresh # None
  <2>1. /\ logout = None /\ logout' = store.refresh /\ call' = Shake({})
        /\ UNCHANGED <<store, page, login, issued, expired, spent>>
    BY <1>2 DEF LogoutClick
  <2>2. /\ call' \in [Calls -> CallRecord]
        /\ \A s \in Calls :
             /\ call'[s].pc = call[s].pc /\ call'[s].refresh = call[s].refresh
             /\ call'[s].pair = call[s].pair /\ call'[s].ran = call[s].ran
             /\ Settled(s) \/ call'[s].shaken
    BY <2>1, ShakeOK
  <2>3. SessionTypeOK'
    BY <2>1, <2>2, TypeFacts DEF SessionTypeOK, CallRecord
  <2>4. KnownAreIssued' /\ RanWhenAnswered'
    BY <2>1, <2>2 DEF KnownAreIssued, RanWhenAnswered
  <2>5. GrantsAreFresh'
    <3>1. \A p : Fresh(p) => Fresh(p)'
      BY <2>1, <2>2 DEF Fresh
    <3> QED
      BY <2>1, <2>2, <3>1 DEF GrantsAreFresh
  <2>6. UnshakenAreUndisturbed'
    BY <2>1, <2>2 DEF UnshakenAreUndisturbed, Settled
  <2>7. RefreshUsable'
    BY <2>1, <2>2, TypeFacts DEF RefreshUsable, None
  <2> QED
    BY <2>3, <2>4, <2>5, <2>6, <2>7
<1> QED
  BY <1>1, <1>2

\* The backend blacklists the token; the tab does not know yet.
LEMMA LogoutServedKeepsInv ==
  ASSUME SessionInv, LogoutServed
  PROVE  SessionInv'
<1> USE DEF SessionInv, SessionTypeOK, None, Idle, Pair, CallRecord, CallPC, Answers,
           Refreshing, LogoutServed
<1>1. SessionTypeOK'
  BY DEF KnownAreIssued
<1>2. KnownAreIssued'
  BY DEF KnownAreIssued
<1>3. GrantsAreFresh'
  BY DEF GrantsAreFresh, Fresh, KnownAreIssued
<1>4. RanWhenAnswered'
  BY DEF RanWhenAnswered
<1>5. UnshakenAreUndisturbed'
  BY DEF UnshakenAreUndisturbed, Undisturbed, Settled, GrantsAreFresh, Fresh,
     RefreshUsable, ValidRefresh, ValidAccess, KnownAreIssued
<1>6. RefreshUsable'
  BY DEF RefreshUsable, GrantsAreFresh, Fresh
<1> QED
  BY <1>1, <1>2, <1>3, <1>4, <1>5, <1>6

\* The store is cleared, whatever became of the request (AppShell.tsx 36-40).
LEMMA LogoutEndsKeepsInv ==
  ASSUME SessionInv, LogoutEnds
  PROVE  SessionInv'
<1> USE DEF SessionInv, SessionTypeOK, None, Idle, Pair, CallRecord, CallPC, Answers,
           Refreshing, LogoutEnds, Leave, Clear
<1>1. SessionTypeOK'
  BY DEF KnownAreIssued
<1>2. KnownAreIssued'
  BY DEF KnownAreIssued
<1>3. GrantsAreFresh'
  BY DEF GrantsAreFresh, Fresh, KnownAreIssued
<1>4. RanWhenAnswered'
  BY DEF RanWhenAnswered
<1>5. UnshakenAreUndisturbed'
  BY DEF UnshakenAreUndisturbed, Undisturbed, Settled, GrantsAreFresh, Fresh,
     RefreshUsable, ValidRefresh, ValidAccess, KnownAreIssued
<1>6. RefreshUsable'
  BY DEF RefreshUsable, GrantsAreFresh, Fresh
<1> QED
  BY <1>1, <1>2, <1>3, <1>4, <1>5, <1>6

\* The sign-in form is sent (LoginPage.tsx 19-24).
LEMMA SubmitKeepsInv ==
  ASSUME SessionInv, Submit
  PROVE  SessionInv'
<1> USE DEF SessionInv, SessionTypeOK, None, Idle, Pair, CallRecord, CallPC, Answers,
           Refreshing, Submit
<1>1. SessionTypeOK'
  BY DEF KnownAreIssued
<1>2. KnownAreIssued'
  BY DEF KnownAreIssued
<1>3. GrantsAreFresh'
  BY DEF GrantsAreFresh, Fresh, KnownAreIssued
<1>4. RanWhenAnswered'
  BY DEF RanWhenAnswered
<1>5. UnshakenAreUndisturbed'
  BY DEF UnshakenAreUndisturbed, Undisturbed, Settled, GrantsAreFresh, Fresh,
     RefreshUsable, ValidRefresh, ValidAccess, KnownAreIssued
<1>6. RefreshUsable'
  BY DEF RefreshUsable, GrantsAreFresh, Fresh
<1> QED
  BY <1>1, <1>2, <1>3, <1>4, <1>5, <1>6

\* The backend grants a pair that nobody has met, or refuses.
LEMMA LoginServedKeepsInv ==
  ASSUME SessionInv, LoginServed
  PROVE  SessionInv'
<1> USE DEF SessionInv, SessionTypeOK, None, Idle, Pair, CallRecord, CallPC, Answers,
           Refreshing, LoginServed
<1>1. SessionTypeOK'
  BY DEF KnownAreIssued
<1>2. KnownAreIssued'
  BY DEF KnownAreIssued
<1>3. GrantsAreFresh'
  BY DEF GrantsAreFresh, Fresh, KnownAreIssued
<1>4. RanWhenAnswered'
  BY DEF RanWhenAnswered
<1>5. UnshakenAreUndisturbed'
  BY DEF UnshakenAreUndisturbed, Undisturbed, Settled, GrantsAreFresh, Fresh,
     RefreshUsable, ValidRefresh, ValidAccess, KnownAreIssued
<1>6. RefreshUsable'
  BY DEF RefreshUsable, GrantsAreFresh, Fresh
<1> QED
  BY <1>1, <1>2, <1>3, <1>4, <1>5, <1>6

\* The granted pair is stored and the user asked for (LoginPage.tsx 25-26).
LEMMA LoginStoredKeepsInv ==
  ASSUME SessionInv, LoginStored
  PROVE  SessionInv'
<1> USE DEF SessionInv
<1>1. login \in Pair /\ Fresh(login)
  BY DEF LoginStored, SessionTypeOK, GrantsAreFresh, Pair, None
<1>2. /\ store' \in [access : {None} \cup Pair, refresh : {None} \cup Pair, user : BOOLEAN]
      /\ store'.access = login /\ store'.refresh = login
  BY <1>1 DEF LoginStored, SetTokens, SessionTypeOK
<1>3. /\ Sent \in CallRecord /\ Sent.pc = "travels"
      /\ Sent.refresh = None /\ Sent.ran = 0 /\ Sent.tries = 1
      /\ ~Sent.shaken => logout = None /\ \A s \in Calls : call[s].pc \notin Refreshing
  BY <1>2, SentOK
<1>4. /\ call' \in [Calls -> CallRecord] /\ "form" \in Calls /\ call'["form"] = Sent
      /\ \A s \in Calls \ {"form"} : call'[s] = call[s]
  BY <1>3 DEF SessionTypeOK, CallRecord, LoginStored, Calls
<1>5. SessionTypeOK'
  BY <1>2, <1>4 DEF SessionTypeOK, CallRecord, LoginStored
<1>6. KnownAreIssued' /\ RanWhenAnswered'
  BY <1>1, <1>2, <1>3, <1>4
  DEF SessionTypeOK, KnownAreIssued, RanWhenAnswered, None, LoginStored, Fresh
<1>7. GrantsAreFresh'
  <2>1. \A p : Fresh(p) /\ p # login => Fresh(p)'
    BY <1>2, <1>3, <1>4 DEF Fresh, None, LoginStored
  <2> QED
    BY <1>3, <1>4, <2>1 DEF GrantsAreFresh, LoginStored, None, Fresh
<1>8. UnshakenAreUndisturbed'
  BY <1>1, <1>2, <1>3, <1>4 DEF UnshakenAreUndisturbed, Undisturbed, Settled, ValidRefresh,
     ValidAccess, Refreshing, None, Pair, LoginStored
<1>9. RefreshUsable'
  BY <1>1, <1>2 DEF RefreshUsable, Fresh, LoginStored
<1> QED
  BY <1>5, <1>6, <1>7, <1>8, <1>9

\* The backend runs a call, or refuses to and has not run it.
LEMMA ServeKeepsInv ==
  ASSUME SessionInv, NEW r \in Calls, Serve(r)
  PROVE  SessionInv'
<1> USE DEF SessionInv, SessionTypeOK, None, Idle, Pair, CallRecord, CallPC, Answers,
           Refreshing, Serve, ValidAccess
<1>1. SessionTypeOK'
  BY DEF KnownAreIssued
<1>2. KnownAreIssued'
  BY DEF KnownAreIssued
<1>3. GrantsAreFresh'
  BY DEF GrantsAreFresh, Fresh, KnownAreIssued
<1>4. RanWhenAnswered'
  BY DEF RanWhenAnswered
<1>5. UnshakenAreUndisturbed'
  BY DEF UnshakenAreUndisturbed, Undisturbed, Settled, GrantsAreFresh, Fresh,
     RefreshUsable, ValidRefresh, KnownAreIssued
<1>6. RefreshUsable'
  BY DEF RefreshUsable, GrantsAreFresh, Fresh
<1> QED
  BY <1>1, <1>2, <1>3, <1>4, <1>5, <1>6

\* A lost request or answer ends a call like an error.
LEMMA LoseKeepsInv ==
  ASSUME SessionInv, NEW r \in Calls, Lose(r)
  PROVE  SessionInv'
<1>1. SessionTypeOK'
  <2>1. call \in [Calls -> CallRecord]
    BY DEF SessionInv, SessionTypeOK, CallRecord
  <2>2. "error" \in CallPC
    BY DEF CallPC, Answers, Refreshing
  <2>3. call' \in [Calls -> CallRecord]
    BY <2>1, <2>2, ZenonT(40) DEF Lose, CallRecord
  <2> QED
    BY <2>1, <2>2, <2>3 DEF SessionInv, SessionTypeOK, CallRecord, Lose
<1> USE DEF SessionInv, SessionTypeOK, None, Idle, Pair, CallRecord, CallPC, Answers,
           Refreshing, Lose
<1>2. KnownAreIssued'
  BY DEF KnownAreIssued
<1>3. GrantsAreFresh'
  BY DEF GrantsAreFresh, Fresh, KnownAreIssued
<1>4. RanWhenAnswered'
  BY DEF RanWhenAnswered
<1>5. UnshakenAreUndisturbed'
  BY DEF UnshakenAreUndisturbed, Undisturbed, Settled, GrantsAreFresh, Fresh,
     RefreshUsable, ValidRefresh, ValidAccess, KnownAreIssued
<1>6. RefreshUsable'
  BY DEF RefreshUsable, GrantsAreFresh, Fresh
<1> QED
  BY <1>1, <1>2, <1>3, <1>4, <1>5, <1>6

\* A call that ends: nothing depends on it any more, its refresh token least.
LEMMA EndsKeepsInv ==
  ASSUME SessionInv, NEW r \in Calls, call[r].pc \in Answers, Ends(r),
         UNCHANGED <<login, logout, issued, expired, spent>>
  PROVE  SessionInv'
<1> USE DEF SessionInv
<1>1. Idle \in CallRecord
  BY DEF Idle, CallRecord, CallPC, None
<1>2. /\ call' \in [Calls -> CallRecord] /\ call'[r] = Idle
      /\ \A s \in Calls \ {r} : call'[s] = call[s]
  BY <1>1 DEF SessionTypeOK, CallRecord, Ends
<1>3. /\ store' \in [access : {None} \cup Pair, refresh : {None} \cup Pair, user : BOOLEAN]
      /\ store'.access = store.access /\ store'.refresh = store.refresh
      /\ page' \in {"login", "app"}
  BY DEF Ends, SessionTypeOK
<1>4. SessionTypeOK'
  BY <1>2, <1>3 DEF SessionTypeOK, CallRecord
<1>5. KnownAreIssued' /\ RanWhenAnswered'
  BY <1>2, <1>3 DEF SessionTypeOK, KnownAreIssued, RanWhenAnswered, Idle, None
<1>6. GrantsAreFresh'
  <2>1. \A p : Fresh(p) => Fresh(p)'
    BY <1>2, <1>3 DEF Fresh, Idle, None
  <2> QED
    BY <1>2, <2>1 DEF GrantsAreFresh, Idle
<1>7. UnshakenAreUndisturbed'
  BY <1>2, <1>3 DEF UnshakenAreUndisturbed, Undisturbed, Settled, ValidRefresh, ValidAccess,
     Idle, Refreshing
<1>8. RefreshUsable'
  BY <1>2, <1>3 DEF RefreshUsable, Answers
<1> QED
  BY <1>4, <1>5, <1>6, <1>7, <1>8

\* A call that starts its refresh shakes the others; the token it takes is
\* good unless one of them, or a sign-out, has taken it before.
LEMMA RefreshKeepsInv ==
  ASSUME SessionInv, NEW r \in Calls, call[r].pc = "denied", call[r].tries = 1,
         store.refresh # None, Refresh(r),
         UNCHANGED <<login, logout, issued, expired, spent>>
  PROVE  SessionInv'
<1> USE DEF SessionInv
<1>1. /\ call' \in [Calls -> CallRecord]
      /\ call'[r].pc = "renewing" /\ call'[r].refresh = store.refresh
      /\ call'[r].ran = call[r].ran /\ call'[r].tries = 1
      /\ call'[r].shaken = call[r].shaken
      /\ \A s \in Calls \ {r} :
           /\ call'[s].pc = call[s].pc /\ call'[s].refresh = call[s].refresh
           /\ call'[s].pair = call[s].pair /\ call'[s].ran = call[s].ran
           /\ Settled(s) \/ call'[s].shaken
  <2> DEFINE shaken == Shake({r})
  <2>1. /\ shaken \in [Calls -> CallRecord]
        /\ shaken[r].ran = call[r].ran /\ shaken[r].tries = call[r].tries
        /\ shaken[r].shaken = call[r].shaken
        /\ \A s \in Calls \ {r} :
             /\ shaken[s].pc = call[s].pc /\ shaken[s].refresh = call[s].refresh
             /\ shaken[s].pair = call[s].pair /\ shaken[s].ran = call[s].ran
             /\ Settled(s) \/ shaken[s].shaken
    BY ShakeOK
  <2>2. call' = [shaken EXCEPT ![r].pc = "renewing", ![r].refresh = store.refresh]
    BY DEF Refresh
  <2>3. store.refresh \in {None} \cup Pair /\ "renewing" \in CallPC
    BY DEF SessionTypeOK, CallPC, Refreshing
  <2> HIDE DEF shaken
  <2>4. call' \in [Calls -> CallRecord]
    <3>1. [shaken[r] EXCEPT !.pc = "renewing", !.refresh = store.refresh] \in CallRecord
      BY <2>1, <2>3 DEF CallRecord
    <3> QED
      BY <2>1, <2>2, <3>1
  <2>5. /\ call'[r] = [shaken[r] EXCEPT !.pc = "renewing", !.refresh = store.refresh]
        /\ \A s \in Calls \ {r} : call'[s] = shaken[s]
    BY <2>1, <2>2
  <2>6. /\ call'[r].pc = "renewing" /\ call'[r].refresh = store.refresh
        /\ call'[r].ran = shaken[r].ran /\ call'[r].tries = shaken[r].tries
        /\ call'[r].shaken = shaken[r].shaken
    BY <2>1, <2>5 DEF CallRecord
  <2> QED
    BY <2>1, <2>4, <2>5, <2>6
<1>2. UNCHANGED <<store, page>>
  BY DEF Refresh
<1>3. SessionTypeOK'
  BY <1>1, <1>2 DEF SessionTypeOK, CallRecord
<1>4. KnownAreIssued' /\ RanWhenAnswered'
  BY <1>1, <1>2 DEF KnownAreIssued, RanWhenAnswered
<1>5. GrantsAreFresh'
  <2>1. \A p : Fresh(p) => Fresh(p)'
    BY <1>1, <1>2 DEF Fresh
  <2> QED
    BY <1>1, <1>2, <2>1 DEF GrantsAreFresh
<1>6. UnshakenAreUndisturbed'
  <2> SUFFICES ASSUME ~call[r].shaken PROVE Undisturbed(r)'
    BY <1>1, <1>2 DEF UnshakenAreUndisturbed, Settled
  <2>1. Undisturbed(r)
    BY DEF UnshakenAreUndisturbed, Settled
  <2>2. store.refresh \notin spent
    BY <2>1 DEF Undisturbed, RefreshUsable, Refreshing, None, SessionTypeOK, Pair
  <2>3. ValidRefresh(store.refresh)
    BY <2>2 DEF ValidRefresh, SessionTypeOK, KnownAreIssued, Pair, None
  <2> QED
    BY <1>1, <1>2, <2>1, <2>3 DEF Undisturbed, ValidRefresh
<1>7. RefreshUsable'
  BY <1>1, <1>2 DEF RefreshUsable
<1> QED
  BY <1>3, <1>4, <1>5, <1>6, <1>7

\* An answer other than the first 401 ends the call (client.ts 55-78).
LEMMA ReceiveKeepsInv ==
  ASSUME SessionInv, NEW r \in Calls, Receive(r)
  PROVE  SessionInv'
<1>1. CASE call[r].pc = "denied" /\ call[r].tries = 1 /\ store.refresh # None
  BY <1>1, RefreshKeepsInv DEF Receive
<1>2. CASE ~(call[r].pc = "denied" /\ call[r].tries = 1 /\ store.refresh # None)
  BY <1>2, EndsKeepsInv DEF Receive
<1> QED
  BY <1>1, <1>2

\* The backend rotates a refresh token: only what asked with it is disturbed.
LEMMA RotateKeepsInv ==
  ASSUME SessionInv, NEW r \in Calls, Rotate(r)
  PROVE  SessionInv'
<1> USE DEF SessionInv
<1>1. CASE ~ValidRefresh(call[r].refresh)
  <2> USE DEF SessionTypeOK, CallPC, Refreshing, Rotate
  <2>1. SessionTypeOK'
    BY <1>1
  <2>2. KnownAreIssued' /\ RanWhenAnswered'
    BY <1>1 DEF KnownAreIssued, RanWhenAnswered
  <2>3. GrantsAreFresh'
    BY <1>1 DEF GrantsAreFresh, Fresh
  <2>4. UnshakenAreUndisturbed'
    BY <1>1 DEF UnshakenAreUndisturbed, Undisturbed, Settled, ValidRefresh, ValidAccess
  <2>5. RefreshUsable'
    BY <1>1 DEF RefreshUsable
  <2> QED
    BY <2>1, <2>2, <2>3, <2>4, <2>5
<1>2. CASE ValidRefresh(call[r].refresh)
  <2>1. /\ issued' = issued + 1 /\ issued' \in Pair
        /\ spent' = spent \cup {call[r].refresh}
        /\ call[r].pc = "renewing" /\ call[r].refresh \in 1 .. issued
        /\ UNCHANGED <<store, page, login, logout, expired>>
    BY <1>2 DEF Rotate, ValidRefresh, SessionTypeOK, Pair
  <2>2. /\ call' \in [Calls -> CallRecord]
        /\ call'[r].pc = "renewed" /\ call'[r].pair = issued'
        /\ call'[r].refresh = call[r].refresh /\ call'[r].ran = call[r].ran
        /\ call'[r].shaken = call[r].shaken /\ call'[r].tries = call[r].tries
        /\ \A s \in Calls \ {r} : call'[s] = call[s]
    BY <1>2, <2>1 DEF Rotate, SessionTypeOK, CallRecord, CallPC, Refreshing
  <2>3. SessionTypeOK'
    <3>1. /\ issued' \in 0 .. MaxPairs
          /\ call[r].refresh \in 1 .. issued' /\ 1 .. issued \subseteq 1 .. issued'
      BY <2>1, TypeFacts DEF Pair
    <3>2. expired' \subseteq 1 .. issued' /\ spent' \subseteq 1 .. issued'
      BY <2>1, <3>1 DEF SessionTypeOK
    <3> QED
      BY <2>1, <2>2, <3>1, <3>2 DEF SessionTypeOK, CallRecord
  <2>4. KnownAreIssued' /\ RanWhenAnswered'
    BY <2>1, <2>2, TypeFacts DEF KnownAreIssued, RanWhenAnswered, SessionTypeOK
  <2>5. GrantsAreFresh'
    <3>1. \A p : Fresh(p) => Fresh(p)' /\ p # issued'
      BY <2>1, <2>2, TypeFacts DEF Fresh
    <3>2. \A p : p = issued + 1 => Fresh(p)'
      <4>1. issued + 1 \notin spent' /\ issued + 1 \notin expired'
        BY <2>1, TypeFacts DEF SessionTypeOK
      <4>2. store.refresh # issued + 1 /\ logout # issued + 1
            /\ \A s \in Calls : call[s].refresh # issued + 1
        BY TypeFacts DEF KnownAreIssued, SessionTypeOK
      <4>3. \A s \in Calls : call'[s].refresh = call[s].refresh
        BY <2>2
      <4> QED
        BY <2>1, <4>1, <4>2, <4>3, TypeFacts DEF Fresh
    <3>3. login > 0 => Fresh(login)' /\ login # issued'
      BY <2>1, <3>1 DEF GrantsAreFresh
    <3>4. \A s \in Calls \ {r} : call[s].pc = "renewed" =>
            /\ Fresh(call[s].pair)' /\ call[s].pair # issued' /\ call[s].pair # login
            /\ \A q \in Calls :
                 q # s /\ call[q].pc = "renewed" => call[q].pair # call[s].pair
      BY <2>2, <3>1 DEF GrantsAreFresh
    <3>5. Fresh(call[r].pair)' /\ (login > 0 => call[r].pair' # login)
      BY <2>1, <2>2, <3>2, <3>3
    <3>6. login' = login /\ issued' > 0
      BY <2>1, TypeFacts
    <3> QED
      BY <2>2, <3>3, <3>4, <3>5, <3>6 DEF GrantsAreFresh
  <2>6. UnshakenAreUndisturbed'
    BY <2>1, <2>2, TypeFacts DEF UnshakenAreUndisturbed, Undisturbed, Settled, ValidRefresh,
       ValidAccess, Refreshing
  <2>7. RefreshUsable'
    BY <2>1, <2>2 DEF RefreshUsable
  <2> QED
    BY <2>3, <2>4, <2>5, <2>6, <2>7
<1> QED
  BY <1>1, <1>2

\* A lost refresh is caught like a refusal (client.ts 30-33).
LEMMA LoseRefreshKeepsInv ==
  ASSUME SessionInv, NEW r \in Calls, LoseRefresh(r)
  PROVE  SessionInv'
<1>1. SessionTypeOK'
  <2>1. call \in [Calls -> CallRecord]
    BY DEF SessionInv, SessionTypeOK, CallRecord
  <2>2. "refused" \in CallPC
    BY DEF CallPC, Answers, Refreshing
  <2>3. call' \in [Calls -> CallRecord]
    BY <2>1, <2>2 DEF LoseRefresh, CallRecord
  <2> QED
    BY <2>1, <2>2, <2>3 DEF SessionInv, SessionTypeOK, CallRecord, LoseRefresh
<1> USE DEF SessionInv, SessionTypeOK, None, Idle, Pair, CallRecord, CallPC, Answers,
           Refreshing, LoseRefresh
<1>2. KnownAreIssued'
  BY DEF KnownAreIssued
<1>3. GrantsAreFresh'
  BY DEF GrantsAreFresh, Fresh, KnownAreIssued
<1>4. RanWhenAnswered'
  BY DEF RanWhenAnswered
<1>5. UnshakenAreUndisturbed'
  BY DEF UnshakenAreUndisturbed, Undisturbed, Settled, GrantsAreFresh, Fresh,
     RefreshUsable, ValidRefresh, ValidAccess, KnownAreIssued
<1>6. RefreshUsable'
  BY DEF RefreshUsable, GrantsAreFresh, Fresh
<1> QED
  BY <1>1, <1>2, <1>3, <1>4, <1>5, <1>6

\* The new pair replaces the stored one and the call is sent again (client.ts 27-29, 57-58).
LEMMA RenewedKeepsInv ==
  ASSUME SessionInv, NEW r \in Calls, Renewed(r)
  PROVE  SessionInv'
<1>1. SessionTypeOK'
  <2>1. call \in [Calls -> CallRecord]
    BY DEF SessionInv, SessionTypeOK, CallRecord
  <2>2. "travels" \in CallPC
    BY DEF CallPC, Answers, Refreshing
  <2>3. /\ 2 \in 0 .. 2 /\ None \in {None} \cup Pair
        /\ call[r].pair \in {None} \cup Pair /\ call[r] \in CallRecord
    BY <2>1 DEF CallRecord
  <2>4. call' \in [Calls -> CallRecord]
    BY <2>1, <2>2, <2>3 DEF Renewed, CallRecord
  <2> QED
    BY <2>1, <2>2, <2>4 DEF SessionInv, SessionTypeOK, SetTokens, CallRecord, Renewed
<1> USE DEF SessionInv, SessionTypeOK, None, Idle, Pair, CallRecord, CallPC, Answers,
           Refreshing, Renewed, SetTokens
<1>2. KnownAreIssued'
  BY DEF KnownAreIssued
<1>3. GrantsAreFresh'
  <2>1. /\ call'[r].pc = "travels" /\ call'[r].refresh = None /\ store'.refresh = call[r].pair
        /\ \A s \in Calls : s # r => call'[s] = call[s]
        /\ UNCHANGED <<login, logout, issued, expired, spent>>
    OBVIOUS
  <2>2. /\ login > 0 => Fresh(login) /\ login # call[r].pair
        /\ \A s \in Calls : s # r /\ call[s].pc = "renewed" =>
             Fresh(call[s].pair) /\ call[s].pair # login /\ call[s].pair # call[r].pair
    BY DEF GrantsAreFresh
  <2>3. call[r].pair > 0 /\ call[r].pair # None
    BY DEF GrantsAreFresh, Fresh
  <2>4. \A p : Fresh(p) /\ p # call[r].pair => Fresh(p)'
    BY <2>1, <2>3 DEF Fresh
  <2> QED
    BY <2>1, <2>2, <2>4 DEF GrantsAreFresh
<1>4. RanWhenAnswered'
  BY DEF RanWhenAnswered
<1>5. UnshakenAreUndisturbed'
  BY DEF UnshakenAreUndisturbed, Undisturbed, Settled, GrantsAreFresh, Fresh,
     RefreshUsable, ValidRefresh, ValidAccess, KnownAreIssued
<1>6. RefreshUsable'
  BY DEF RefreshUsable, GrantsAreFresh, Fresh
<1> QED
  BY <1>1, <1>2, <1>3, <1>4, <1>5, <1>6

\* A refused refresh clears the store (client.ts 23-25).
LEMMA RefusedKeepsInv ==
  ASSUME SessionInv, NEW r \in Calls, Refused(r)
  PROVE  SessionInv'
<1> USE DEF SessionInv
<1> DEFINE ended == [call EXCEPT ![r] = Idle]
<1>1. /\ store' \in [access : {None} \cup Pair, refresh : {None} \cup Pair, user : BOOLEAN]
      /\ store'.access = None /\ store'.refresh = None
  BY DEF Refused, Clear, None
<1>2. Idle \in CallRecord
  BY DEF Idle, CallRecord, CallPC, None
<1>3. /\ Sent \in CallRecord /\ Sent.pc = "travels"
      /\ Sent.refresh = None /\ Sent.ran = 0 /\ Sent.shaken
  BY <1>1, SentOK DEF CallRecord
<1>4. ended \in [Calls -> CallRecord] /\ ended[r] = Idle
      /\ \A s \in Calls \ {r} : ended[s] = call[s]
  BY <1>2 DEF SessionTypeOK, CallRecord
<1>5. call' = ended \/ call' = [ended EXCEPT !["shell"] = Sent]
  BY DEF Refused, Rendered
<1> HIDE DEF ended
<1>6. /\ call' \in [Calls -> CallRecord] /\ call'[r] \in {Idle, Sent}
      /\ \A s \in Calls \ {r} : call'[s] \in {call[s], Sent}
  BY <1>3, <1>4, <1>5
<1>7. /\ UNCHANGED <<login, logout, issued, expired, spent>>
      /\ \A s \in Calls :
           /\ call'[s].refresh \in {None, call[s].refresh}
           /\ call'[s].ran \in {0, call[s].ran}
           /\ call'[s].pc \notin {"idle", "travels"} => call'[s] = call[s]
           /\ call'[s].ran # 0 => call'[s] = call[s]
  <2>1. UNCHANGED <<login, logout, issued, expired, spent>>
    BY DEF Refused
  <2>2. Idle.refresh = None /\ Idle.ran = 0 /\ Idle.pc = "idle"
    BY DEF Idle
  <2> QED
    BY <1>3, <1>6, <2>1, <2>2
<1>8. SessionTypeOK'
  BY <1>1, <1>6 DEF SessionTypeOK, CallRecord, Refused
<1>9. KnownAreIssued' /\ RanWhenAnswered'
  BY <1>1, <1>7, TypeFacts DEF KnownAreIssued, RanWhenAnswered, None
<1>10. GrantsAreFresh'
  <2>1. \A p : Fresh(p) => Fresh(p)'
    BY <1>1, <1>7 DEF Fresh, None
  <2> QED
    BY <1>7, <2>1 DEF GrantsAreFresh
<1>11. UnshakenAreUndisturbed'
  <2>1. \A s \in Calls \ {r} : Settled(s) \/ call[s].shaken
    BY DEF UnshakenAreUndisturbed, Undisturbed, Refused, Refreshing
  <2> QED
    BY <1>3, <1>6, <2>1 DEF UnshakenAreUndisturbed, Settled, Idle
<1>12. RefreshUsable'
  BY <1>1, <1>7, TypeFacts DEF RefreshUsable
<1> QED
  BY <1>8, <1>9, <1>10, <1>11, <1>12

\* The stored access token ends.
LEMMA ExpireKeepsInv ==
  ASSUME SessionInv, Expire
  PROVE  SessionInv'
<1>1. SessionTypeOK'
  <2>1. call \in [Calls -> CallRecord]
    BY DEF SessionInv, SessionTypeOK, CallRecord
  <2>2. store.access \in 1 .. issued \/ store.access \in expired \cup {None}
    BY DEF SessionInv, SessionTypeOK, KnownAreIssued, None, Pair
  <2>3. call' \in [Calls -> CallRecord]
    BY <2>1, <2>2 DEF Expire, CallRecord
  <2> QED
    BY <2>1, <2>2, <2>3 DEF SessionInv, SessionTypeOK, CallRecord, Expire
<1> USE DEF SessionInv, SessionTypeOK, None, Idle, Pair, CallRecord, CallPC, Answers,
           Refreshing, Expire
<1>2. KnownAreIssued'
  BY DEF KnownAreIssued
<1>3. GrantsAreFresh'
  BY DEF GrantsAreFresh, Fresh, KnownAreIssued
<1>4. RanWhenAnswered'
  BY DEF RanWhenAnswered
<1>5. UnshakenAreUndisturbed'
  BY DEF UnshakenAreUndisturbed, Undisturbed, Settled, GrantsAreFresh, Fresh,
     RefreshUsable, ValidRefresh, ValidAccess, KnownAreIssued
<1>6. RefreshUsable'
  BY DEF RefreshUsable, GrantsAreFresh, Fresh
<1> QED
  BY <1>1, <1>2, <1>3, <1>4, <1>5, <1>6

\* Every step of the sign-in preserves SessionInv: one case per action.
LEMMA NextKeepsInv == SessionInv /\ [Next]_vars => SessionInv'
<1> SUFFICES ASSUME SessionInv, [Next]_vars PROVE SessionInv'
  OBVIOUS
<1>1. CASE UNCHANGED vars
  <2>1. page' \in {"login", "app"}
    BY <1>1 DEF vars, SessionInv, SessionTypeOK
  <2> QED
    BY <1>1, <2>1, UnchangedKeepsInv DEF vars
<1>2. CASE Visit \/ Expire
  BY <1>2, VisitKeepsInv, ExpireKeepsInv
<1>3. CASE \E r \in PageCalls : Start(r)
  BY <1>3, StartKeepsInv
<1>4. CASE Form
  BY <1>4, SubmitKeepsInv, LoginServedKeepsInv, LoginStoredKeepsInv DEF Form
<1>5. CASE Logout
  BY <1>5, LogoutClickKeepsInv, LogoutServedKeepsInv, LogoutEndsKeepsInv DEF Logout
<1>6. CASE \E r \in Calls : CallStep(r)
  BY <1>6, ServeKeepsInv, ReceiveKeepsInv, RotateKeepsInv, RenewedKeepsInv, RefusedKeepsInv
  DEF CallStep
<1>7. CASE \E r \in Calls : Lost(r)
  BY <1>7, LoseKeepsInv, LoseRefreshKeepsInv DEF Lost
<1> QED
  BY <1>1, <1>2, <1>3, <1>4, <1>5, <1>6, <1>7 DEF Next

-----------------------------------------------------------------------------
(* The results.                                                            *)

\* SessionInv holds in every reachable state of the sign-in.
THEOREM SessionInvHolds == Spec => []SessionInv
  BY InitEstablishesInv, NextKeepsInv, PTL DEF Spec

\* Every variable keeps its type, and access and refresh token are stored and
\* cleared together (auth.ts 24, 26).
THEOREM SessionTypeCorrect == Spec => []SessionTypeOK
<1>1. SessionInv => SessionTypeOK
  BY DEF SessionInv
<1> QED
  BY <1>1, SessionInvHolds, PTL

\* However many calls of a tab that stays loaded refresh at once, sign out or
\* sign in again, the store keeps no spent refresh token beyond the answer that
\* replaces or clears it (client.ts 26-32).
THEOREM StoredRefreshIsUsable == Spec => []RefreshUsable
<1>1. SessionInv => RefreshUsable
  BY DEF SessionInv
<1> QED
  BY <1>1, SessionInvHolds, PTL

\* The retry on 401 executes no call twice (client.ts 54-62).
THEOREM NoCallRunsTwice == Spec => []AtMostOnce
<1>1. SessionInv => AtMostOnce
  BY DEF SessionInv, RanWhenAnswered, AtMostOnce
<1> QED
  BY <1>1, SessionInvHolds, PTL

\* An expired access token alone fails no call, whatever the other calls do
\* afterwards (client.ts 57-62).
THEOREM ExpiryIsSurvived == Spec => []LoneCallSurvives
<1>1. ASSUME SessionInv PROVE LoneCallSurvives
  <2> SUFFICES ASSUME NEW r \in Calls, Failing(r), ~call[r].shaken PROVE FALSE
    BY DEF LoneCallSurvives
  <2>1. ~Settled(r)
    BY DEF Failing, Settled
  <2>2. Undisturbed(r)
    BY <1>1, <2>1 DEF SessionInv, UnshakenAreUndisturbed
  <2> QED
    BY <2>2 DEF Undisturbed, Failing, None
<1> QED
  BY <1>1, SessionInvHolds, PTL
=============================================================================
