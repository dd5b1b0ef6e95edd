----------------------------- MODULE MCOverwatch -----------------------------
EXTENDS Overwatch, FiniteSets, TLC

CONSTANTS MaxEvents

Sym == Permutations(Servers) \cup Permutations(Pids)

Asking == {s \in Servers : at[s] \in {"probe", "complete", "blocked", "answered"}}

\* The first run is in loop mode; one status call at a time; scans while no
\* call but a reset is in progress.
Explored ==
    /\ started + stops + errors + resets + Cardinality(foreign) <= MaxEvents
    /\ run[1].mode = "loop"
    /\ Cardinality(Asking) <= 1
    /\ scan # NoScan => \A s \in Servers : at[s] \in {"ready", "reset"}
=============================================================================
