------------------------- MODULE MC_Supervisor --------------------------
(* Supervisor with one device, two commands in flight, two sleeping spawns  *)
(* of each kind and two task names, so that a second loop could appear.     *)
EXTENDS Supervisor

CONSTANTS d1, t1, t2   \* the device and its task names

\* The device's first task, through the mapping of Supervisor's Stage.
FirstTask == INSTANCE AutoAdopt WITH MaxTries <- MaxAttempts,
                stage <- Stage(d1, t1), tries <- run[d1][t1].attempt,
                granted <- d1 \in accepted

\* It implements AutoAdopt: bounded attempts, no callback before the
\* controller's grant, and never stuck in adoption.
ImplementsAutoAdopt == FirstTask!Spec
=============================================================================
