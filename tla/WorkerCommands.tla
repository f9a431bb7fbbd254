---- MODULE WorkerCommands ----
\* What the Django side and the engine agree on: which devices there are, and
\* what an envelope published on worker:commands:devices asks for.

CONSTANT Device   \* ids of VirtualDevice rows

\* An envelope as the supervisor's command loop reads it.  Only a spawn brings
\* auto_adopt, and a missing one reads as FALSE; delay_ms is left out, since it
\* only decides how long the worker lets a spawn sleep.
Command == [action : {"spawn", "despawn", "force_inform"},
            dev : Device, auto : BOOLEAN]
====
