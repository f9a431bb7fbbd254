------------------------------- MODULE Channel -------------------------------
(* The WebSocket of a live page (api/ws.ts) and its consumer on the backend *)
(* (apps/fleets/consumers.py, cluster_consumer.py).  Of a message only the  *)
(* arrival matters: a page refetches when the number of kept messages has   *)
(* grown.  Fleet and cluster messages carry no sequence number, so nothing  *)
(* is replayed; a consumer greets each new socket with one message.         *)
EXTENDS Integers

CONSTANT BufferSize   \* messages kept in memory, older ones are dropped
ASSUME BufferAssumption == BufferSize \in Nat \ {0, 1}

VARIABLES sock,    \* the socket of the mounted page
          inbox,   \* messages sent to this socket, not yet delivered
          got,     \* number of kept messages
          seen     \* the number the page has last reacted to
chan == <<sock, inbox, got, seen>>

\* joined: accepted, in its group, not yet greeted; waiting: the retry timer
\* runs; refused: closed with 4401, no retry.
SockState == {"idle", "connecting", "joined", "open", "waiting", "refused"}

ChannelTypeOK ==
  /\ sock \in SockState /\ inbox \in Nat
  /\ got \in 0 .. BufferSize /\ seen \in 0 .. got

\* A page mounts its hook with an empty buffer, or has none.
Mounts(live) ==
  /\ sock' = IF live THEN "connecting" ELSE "idle"
  /\ inbox' = 0 /\ got' = 0 /\ seen' = 0

\* Mutant: the effect does not depend on the access token.
ReconnectsNever == UNCHANGED chan
\* The effect runs again when the access token changes: the old socket is
\* closed, a new one opened, the messages stay.
Reconnects ==
  /\ sock' = IF sock = "idle" THEN "idle" ELSE "connecting"
  /\ inbox' = 0
  /\ UNCHANGED <<got, seen>>

\* The consumer checks the token, joins the group, then accepts and greets.
\* Mutant: it joins the group after the greeting.
AcceptUnjoined(good) ==
  /\ sock = "connecting"
  /\ IF good THEN sock' = "open" /\ inbox' \in {0, 1} ELSE sock' = "refused" /\ UNCHANGED inbox
  /\ UNCHANGED <<got, seen>>
Accept(good) ==
  /\ sock = "connecting"
  /\ sock' = IF good THEN "joined" ELSE "refused"
  /\ UNCHANGED <<inbox, got, seen>>
Greet ==
  /\ sock = "joined" /\ sock' = "open"
  /\ inbox' = inbox + 1
  /\ UNCHANGED <<got, seen>>

\* An event reaches the sockets in the group.
Published ==
  /\ inbox' = IF sock \in {"joined", "open"} THEN inbox + 1 ELSE inbox
  /\ UNCHANGED <<sock, got, seen>>

\* A socket that closes is reopened two seconds later.
Drop ==
  /\ sock \in {"connecting", "joined", "open"}
  /\ sock' = "waiting" /\ inbox' = 0
  /\ UNCHANGED <<got, seen>>
Retry ==
  /\ sock = "waiting" /\ sock' = "connecting"
  /\ UNCHANGED <<inbox, got, seen>>

\* Mutant: the buffer is not cut before a message is added.
KeptAll(n) == n + 1
Kept(n) == IF n >= BufferSize THEN BufferSize ELSE n + 1

\* A message is kept; the page's effect reacts to a longer buffer.
Noticed == Kept(got) > seen
Deliver ==
  /\ inbox > 0 /\ inbox' = inbox - 1
  /\ got' = Kept(got)
  /\ seen' = IF Noticed THEN got' ELSE seen
  /\ UNCHANGED sock
==============================================================================
