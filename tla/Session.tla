------------------------------- MODULE Session -------------------------------
(* The sign-in of one browser tab: the token store (store/auth.ts), every   *)
(* call of the REST client with its refresh on 401 and its single retry     *)
(* (api/client.ts), the sign-in form, the sign-out button and the route     *)
(* guard.  The backend rotates refresh tokens and blacklists spent ones.    *)
(* A pair of tokens is its number; calls run concurrently, each with a      *)
(* travelling request or answer, which may be lost.  The tab stays loaded: a *)
(* reload, which aborts the calls and keeps the store, is not modelled.     *)
EXTENDS Integers

CONSTANTS PageCalls,   \* calls a page of the console may have in flight
          MaxPairs,    \* bound on token pairs the backend issues
          MaxLogins, MaxExpiries, MaxLosses   \* bounds on such events
ASSUME PairsAssumption == MaxPairs \in Nat \ {0}

VARIABLES store,       \* tokens and user of the store, None or a pair's number
          page,        \* "login" or "app"
          call,        \* the calls of request()
          login,       \* the sign-in request: idle, sent or a granted pair
          logout,      \* the sign-out request
          issued, expired, spent,   \* backend: pairs, ended access, used refresh tokens
          budget
vars == <<store, page, call, login, logout, issued, expired, spent, budget>>

None == 0
Calls == PageCalls \cup {"shell", "form"}   \* the shell and the form ask for the user
Pair == 1 .. MaxPairs

\* Where a call is: its request travels; an answer travels; its refresh
\* request or the answer to that travels.
Answers == {"ok", "error", "denied"}
Refreshing == {"renewing", "renewed", "refused"}
CallPC == {"idle", "travels"} \cup Answers \cup Refreshing

\* "ran" counts executions by the backend; "shaken" is history: something
\* besides an expired access token happened to this call.
Idle == [pc |-> "idle", access |-> None, refresh |-> None, pair |-> None,
         tries |-> 0, ran |-> 0, shaken |-> FALSE]

ValidAccess(p) == p \in 1 .. issued /\ p \notin expired
ValidRefresh(p) == p \in 1 .. issued /\ p \notin spent
Live(r) == call[r].pc # "idle"
Settled(r) == call[r].pc \in {"idle", "ok", "error"}

\* The calls, with all but those of kept shaken.
Shake(kept) ==
  [s \in Calls |-> IF s \notin kept /\ ~Settled(s) THEN [call[s] EXCEPT !.shaken = TRUE]
                   ELSE call[s]]

\* Mutant: the refresh token of an answer is dropped.
SetAccess(p) == [store EXCEPT !.access = p, !.refresh = IF @ = None THEN p ELSE @]
SetTokens(p) == [store EXCEPT !.access = p, !.refresh = p]
\* Mutant: signing out forgets the access token only.
ClearAccess(u) == [access |-> None, refresh |-> store.refresh, user |-> u]
Clear(u) == [access |-> None, refresh |-> None, user |-> u]

\* request() reads the access token of the store and sends it.
Shaky ==
  store'.access = None \/ logout # None \/ \E s \in Calls : call[s].pc \in Refreshing
Sent ==
  [Idle EXCEPT !.pc = "travels", !.access = store'.access, !.tries = 1, !.shaken = Shaky]

Init ==
  /\ page = "app" /\ issued = 1
  /\ store = [access |-> 1, refresh |-> 1, user |-> TRUE]
  /\ call = [r \in Calls |-> Idle]
  /\ login = None /\ logout = None
  /\ expired = {} /\ spent = {}
  /\ budget = [logins |-> MaxLogins, expiries |-> MaxExpiries, losses |-> MaxLosses]

Spend(what) == budget[what] > 0 /\ budget' = [budget EXCEPT ![what] = @ - 1]

-----------------------------------------------------------------------------
(* The shell.  *)

\* The shell renders: without a user it asks for one.
Rendered(calls) ==
  IF ~store'.user /\ page' = "app" /\ calls["shell"].pc = "idle"
  THEN [calls EXCEPT !["shell"] = Sent] ELSE calls

\* A click on a link, or a step in the tab's history: the guard of the shell's
\* routes lets only a stored access token through.  The page is not loaded anew.
Visit ==
  /\ page' = IF store.access = None THEN "login" ELSE "app"
  /\ page' # page
  /\ UNCHANGED <<store, login, logout, issued, expired, spent, budget>>
  /\ call' = Rendered(call)

\* A query or a mutation of the page.
Start(r) ==
  /\ page = "app" /\ ~Live(r)
  /\ UNCHANGED <<store, page, login, logout, issued, expired, spent, budget>>
  /\ call' = [call EXCEPT ![r] = Sent]

\* Signing out: blacklist the stored refresh token, then clear and leave.
Leave(calls) ==
  /\ store' = Clear(FALSE)
  /\ page' = "login" /\ call' = calls
LogoutClick ==
  /\ page = "app" /\ logout = None
  /\ IF store.refresh = None THEN Leave(call) /\ UNCHANGED logout
     ELSE logout' = store.refresh /\ call' = Shake({}) /\ UNCHANGED <<store, page>>
  /\ UNCHANGED <<login, issued, expired, spent, budget>>

LogoutServed ==
  /\ logout > 0
  /\ spent' = spent \cup {logout} /\ logout' = -logout
  /\ UNCHANGED <<store, page, call, login, issued, expired, budget>>

\* The answer, or none: the handler swallows a failed request.
LogoutEnds ==
  /\ logout # None
  /\ \/ logout < 0 /\ UNCHANGED budget
     \/ logout > 0 /\ Spend("losses")
  /\ Leave(call) /\ logout' = None
  /\ UNCHANGED <<login, issued, expired, spent>>

-----------------------------------------------------------------------------
(* The sign-in form: obtain tokens, store them, then ask for the user; the  *)
(* button is disabled while that runs.                                      *)
Busy == login # None \/ Live("form")
Submit ==
  /\ page = "login" /\ ~Busy
  /\ login' = -1
  /\ UNCHANGED <<store, page, call, logout, issued, expired, spent, budget>>

\* The backend grants a pair, refuses, or the answer is lost.
LoginServed ==
  /\ login = -1
  /\ \/ issued < MaxPairs /\ Spend("logins") /\ issued' = issued + 1 /\ login' = issued'
     \/ login' = None /\ UNCHANGED <<issued, budget>>
  /\ UNCHANGED <<store, page, call, logout, expired, spent>>

LoginStored ==
  /\ login > 0
  /\ store' = SetTokens(login) /\ login' = None
  /\ UNCHANGED <<page, logout, issued, expired, spent, budget>>
  /\ call' = [call EXCEPT !["form"] = Sent]

-----------------------------------------------------------------------------
(* One call.  *)

\* The backend authenticates before it runs a handler; the handler may fail
\* after it has written.
Serve(r) ==
  /\ call[r].pc = "travels"
  /\ IF ValidAccess(call[r].access)
     THEN \E answer \in {"ok", "error"} :
            call' = [call EXCEPT ![r].pc = answer, ![r].ran = @ + 1, ![r].access = None,
                                 ![r].shaken = FALSE]
     ELSE call' = [call EXCEPT ![r].pc = "denied", ![r].access = None]
  /\ UNCHANGED <<store, page, login, logout, issued, expired, spent, budget>>

\* The network loses the request or its answer: fetch() rejects, which ends the
\* call like an error.
Lose(r) ==
  /\ call[r].pc \in {"travels", "ok", "denied"} /\ Spend("losses")
  /\ call' = [call EXCEPT ![r].pc = "error", ![r].access = None, ![r].shaken = FALSE]
  /\ UNCHANGED <<store, page, login, logout, issued, expired, spent>>

\* An answer other than the first 401 ends the call: a user is stored, and the
\* form goes on to the console.
Ends(r) ==
  /\ IF r \in {"shell", "form"} /\ call[r].pc = "ok"
     THEN /\ store' = [store EXCEPT !.user = TRUE]
          /\ page' = IF r = "form" THEN "app" ELSE page
     ELSE UNCHANGED <<store, page>>
  /\ call' = [call EXCEPT ![r] = Idle]

\* A 401 is answered by a refresh if there is a refresh token.
Refresh(r) ==
  /\ call' = [Shake({r}) EXCEPT ![r].pc = "renewing", ![r].refresh = store.refresh]
  /\ UNCHANGED <<store, page>>

\* Mutant: a server error is retried as well.
ReceiveRetrying(r) ==
  /\ call[r].pc \in Answers
  /\ CASE call[r].pc = "denied" /\ call[r].tries = 1 /\ store.refresh # None -> Refresh(r)
       [] call[r].pc = "error" /\ call[r].tries = 1 ->
            /\ call' = [call EXCEPT ![r].pc = "travels", ![r].access = store.access,
                                    ![r].tries = 2]
            /\ UNCHANGED <<store, page>>
       [] OTHER -> Ends(r)
  /\ UNCHANGED <<login, logout, issued, expired, spent, budget>>
Receive(r) ==
  /\ call[r].pc \in Answers
  /\ IF call[r].pc = "denied" /\ call[r].tries = 1 /\ store.refresh # None
     THEN Refresh(r) ELSE Ends(r)
  /\ UNCHANGED <<login, logout, issued, expired, spent, budget>>

\* The backend rotates a refresh token once.
Rotate(r) ==
  /\ call[r].pc = "renewing"
  /\ IF ValidRefresh(call[r].refresh)
     THEN /\ issued < MaxPairs
          /\ issued' = issued + 1 /\ spent' = spent \cup {call[r].refresh}
          /\ call' = [call EXCEPT ![r].pc = "renewed", ![r].pair = issued']
     ELSE /\ call' = [call EXCEPT ![r].pc = "refused"]
          /\ UNCHANGED <<issued, spent>>
  /\ UNCHANGED <<store, page, login, logout, expired, budget>>

\* A lost refresh, on its way there or back, is caught like a refusal.
LoseRefresh(r) ==
  /\ call[r].pc \in {"renewing", "renewed"} /\ Spend("losses")
  /\ call' = [call EXCEPT ![r].pc = "refused", ![r].shaken = TRUE]
  /\ UNCHANGED <<store, page, login, logout, issued, expired, spent>>

\* Mutant: the retry sends the access token of the first try.
RenewedOldAccess(r) ==
  /\ call[r].pc = "renewed"
  /\ store' = SetTokens(call[r].pair)
  /\ call' = [call EXCEPT ![r].pc = "travels", ![r].tries = 2]
  /\ UNCHANGED <<page, login, logout, issued, expired, spent, budget>>
\* The new pair is stored and the request sent a second time.
Renewed(r) ==
  /\ call[r].pc = "renewed"
  /\ store' = SetTokens(call[r].pair)
  /\ call' = [call EXCEPT ![r].pc = "travels", ![r].access = call[r].pair, ![r].tries = 2,
                          ![r].refresh = None, ![r].pair = None]
  /\ UNCHANGED <<page, login, logout, issued, expired, spent, budget>>

\* Mutant: a failed refresh leaves the store alone.
RefusedQuietly(r) ==
  /\ call[r].pc = "refused"
  /\ call' = [call EXCEPT ![r] = Idle]
  /\ UNCHANGED <<store, page, login, logout, issued, expired, spent, budget>>
\* No refresh, no session: the store is cleared and the call fails.  A shell
\* that showed a user renders again.
Refused(r) ==
  /\ call[r].pc = "refused"
  /\ store' = Clear(FALSE)
  /\ UNCHANGED <<page, login, logout, issued, expired, spent, budget>>
  /\ LET ended == [call EXCEPT ![r] = Idle]
     IN call' = IF store.user THEN Rendered(ended) ELSE ended

\* The stored access token ends after four hours; a call on its second try may
\* meet that.
Expire ==
  /\ Spend("expiries")
  /\ store.access \notin expired \cup {None} /\ expired' = expired \cup {store.access}
  /\ call' = [r \in Calls |-> IF ~Settled(r) /\ (call[r].pc = "renewed" \/ call[r].tries = 2)
                              THEN [call[r] EXCEPT !.shaken = TRUE] ELSE call[r]]
  /\ UNCHANGED <<store, page, login, logout, issued, spent>>

CallStep(r) == Serve(r) \/ Receive(r) \/ Rotate(r) \/ Renewed(r) \/ Refused(r)
Lost(r) == Lose(r) \/ LoseRefresh(r)
Form == Submit \/ LoginServed \/ LoginStored
Logout == LogoutClick \/ LogoutServed \/ LogoutEnds

Next ==
  \/ Visit
  \/ \E r \in PageCalls : Start(r)
  \/ Form
  \/ Logout
  \/ \E r \in Calls : CallStep(r)
  \/ \E r \in Calls : Lost(r)
  \/ Expire

\* The browser delivers what the network carries, and the pages poll.
Spec == Init /\ [][Next]_vars
LiveSpec ==
  /\ Spec
  /\ \A r \in Calls : WF_vars(CallStep(r))
  /\ \A r \in PageCalls : WF_vars(Start(r))
-----------------------------------------------------------------------------
(* Properties *)

\* Types, and: the two tokens are stored and cleared together (auth.ts 24, 26).
SessionTypeOK ==
  /\ store \in [access : {None} \cup Pair, refresh : {None} \cup Pair, user : BOOLEAN]
  /\ page \in {"login", "app"}
  /\ call \in [Calls -> [pc : CallPC, access : {None} \cup Pair, refresh : {None} \cup Pair,
                         pair : {None} \cup Pair, tries : 0 .. 2, ran : 0 .. 2,
                         shaken : BOOLEAN]]
  /\ login \in {-1, None} \cup Pair
  /\ logout \in -MaxPairs .. MaxPairs
  /\ issued \in 0 .. MaxPairs /\ expired \subseteq 1 .. issued /\ spent \subseteq 1 .. issued
  /\ store.access = store.refresh

\* While the tab stays loaded, the store never keeps a refresh token the backend
\* has spent, unless what replaces or clears it is on its way (client.ts 26-32,
\* AppShell.tsx 26-41): a spent token is of no use, and the next 401 would end
\* the session.
RefreshUsable ==
  store.refresh \in spent =>
    \/ \E r \in Calls : call[r].pc \in {"renewed", "refused"} /\ call[r].refresh = store.refresh
    \/ logout = -store.refresh

\* A request is repeated only when the backend refused to run it, so no click
\* is executed twice (client.ts 54-62).
AtMostOnce == \A r \in Calls : call[r].ran <= 1

\* An access token that expires fails no call: without a lost message, another
\* call's refresh, a sign-out or a missing sign-in the retry succeeds
\* (client.ts 57-62).
Failing(r) ==
  \/ call[r].pc = "refused"
  \/ call[r].pc = "denied" /\ (call[r].tries = 2 \/ store.refresh = None)
LoneCallSurvives == \A r \in Calls : Failing(r) => call[r].shaken

\* On a page that polls, an expired access token is replaced or the session
\* ends: the console does not stay on a dead one (client.ts 22-33).
StaleSessionEnds ==
  (page = "app" /\ store.access \in expired) ~> (page # "app" \/ store.access \notin expired)
==============================================================================
