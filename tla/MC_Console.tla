----------------------------- MODULE MC_Console ------------------------------
(* Every page and every table; what may happen is bounded per scenario: a   *)
(* click and a change of page; a click against another actor's write; that  *)
(* write with a lost socket or event and an expired token.                  *)
EXTENDS Console

May(w, c, v, d, e) ==
  [writes |-> w, clicks |-> c, visits |-> v, drops |-> d, expiries |-> e]
Scenarios == {May(0, 1, 1, 0, 0), May(1, 1, 0, 0, 0), May(1, 0, 0, 1, 1)}
\* For the full buffer: writes alone.
Eventful == {May(2, 0, 0, 0, 0)}
==============================================================================
