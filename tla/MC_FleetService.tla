-------------------------- MODULE MC_FleetService ---------------------------
(* FleetService with two requests at a time and every operation, failures   *)
(* included; a history variable remembers whether anything was interrupted. *)
EXTENDS FleetService

VARIABLE interrupted   \* a step stopped half-way or saved a stale fleet row

LiveInit == SvcInit /\ interrupted = FALSE

LiveNext ==
  \/ SmoothNext /\ UNCHANGED interrupted
  \/ (Interruption \/ (Uses("webcrash") /\ WebCrash)) /\ interrupted' = TRUE

LiveSpec == LiveInit /\ [][LiveNext]_<<svcVars, interrupted>> /\ SvcFairness

\* No interleaving of operator requests and the Celery task leaves a fleet in
\* creating, ramping or tearing_down for ever (fleets/services.py, tasks.py),
\* as long as none of them stops half-way and no PATCH saves a stale copy.
TransientStatesEnd ==
  fleet \in {"creating", "ramping", "tearing_down"} ~>
    interrupted \/ fleet \notin {"creating", "ramping", "tearing_down"}

AtWork(pcs) == \E r \in Req : req[r].pc \in pcs
Owned ==
  /\ fleet = "creating" => AtWork({"instantiate"})
  /\ fleet = "ramping" => AtWork({"ramp"}) \/ timer # "none"
  /\ fleet = "tearing_down" => AtWork({"retiring", "retire"})
\* Whoever is to end a transient state is there: the request that creates the
\* fleet, the one that publishes its spawns or the Celery task it has
\* scheduled, a teardown between its two saves (fleets/views.py 17-20,
\* services.py 47-89 and 146-157, tasks.py 22-40).  Any requests may overlap;
\* only what stops half-way, or a stale copy of the row, leaves a state to nobody.
TransientHasOwner == ~interrupted => Owned
=============================================================================
