------------------------------- MODULE MCMonitor -------------------------------
(* Bounds for the monitoring process. *)
EXTENDS Monitor

CONSTANTS
    MaxDisturbances,    \* bound: errors, restarts and clock settings together
    DisturbedUntil      \* bound: the clock, once there was an error or setting

MCTimes == 0..MaxTime

\* The time bounds are about undisturbed behaviours, which have to be long; what
\* an error or a setting of the clock does shows within a few iterations.
Explored ==
    /\ faults + restarts + clockSteps <= MaxDisturbances
    /\ faults + clockSteps > 0 => now <= DisturbedUntil
=============================================================================
