----------------------------- MODULE AutoAdopt ------------------------------
(***************************************************************************)
(* What the supervisor promises of one device task's auto-adoption: it     *)
(* asks the controller at most MaxTries times, it reports the adoption to  *)
(* Django only after the controller granted it, and it always gets past    *)
(* both to the device's ordinary life.  Asking may be given up at any      *)
(* time (a refusal, a missing row, the tries used up), and the task may    *)
(* be stopped at any time.                                                 *)
(***************************************************************************)
EXTENDS Naturals

CONSTANT MaxTries   \* adopt attempts one task may make

VARIABLES
  stage,   \* "absent", "asking", "telling" or "settled"
  tries,   \* attempts made in this stage
  granted  \* the controller has adopted the device

vars == <<stage, tries, granted>>

Init == stage = "absent" /\ tries = 0 /\ granted = FALSE

Begin ==
  /\ stage = "absent"
  /\ stage' \in {"asking", "settled"}
  /\ UNCHANGED <<tries, granted>>

Try ==
  /\ stage = "asking"
  /\ tries < MaxTries
  /\ tries' = tries + 1
  /\ UNCHANGED <<stage, granted>>

Tell ==
  /\ stage = "asking"
  /\ tries > 0
  /\ granted
  /\ stage' = "telling"
  /\ tries' = 0
  /\ UNCHANGED granted

GiveUp ==
  /\ stage = "asking"
  /\ stage' = "settled"
  /\ tries' = 0
  /\ UNCHANGED granted

Told ==
  /\ stage = "telling"
  /\ stage' = "settled"
  /\ UNCHANGED <<tries, granted>>

Stop ==
  /\ stage' = "absent"
  /\ tries' = 0
  /\ UNCHANGED granted

\* The controller adopts the device; it does not go back on that.
Grant ==
  /\ granted' = TRUE
  /\ UNCHANGED <<stage, tries>>

Next == Begin \/ Try \/ Tell \/ GiveUp \/ Told \/ Stop \/ Grant

\* The task does not linger in either stage.
Progress == WF_vars(Try \/ Tell \/ GiveUp) /\ WF_vars(Told)

Safety == Init /\ [][Next]_vars
Spec   == Safety /\ Progress
=============================================================================
