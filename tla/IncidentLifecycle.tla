-------------------------- MODULE IncidentLifecycle ---------------------------
(***************************************************************************)
(* What the incident component promises, whatever way it is reached: an    *)
(* incident climbs the ladder OPEN, ACKNOWLEDGED, IN_PROGRESS, RESOLVED,   *)
(* CLOSED one rung at a time, starting at the bottom.                      *)
(***************************************************************************)
EXTENDS Naturals

CONSTANT Ids            \* incident primary keys

VARIABLE reached        \* reached[i]: the rungs incident i has stood on

Rank == [OPEN |-> 1, ACKNOWLEDGED |-> 2, IN_PROGRESS |-> 3,
         RESOLVED |-> 4, CLOSED |-> 5]

Rungs == {"OPEN", "ACKNOWLEDGED", "IN_PROGRESS", "RESOLVED", "CLOSED"}

Below(s) == {t \in Rungs : Rank[t] < Rank[s]}

UpTo(s) == Below(s) \union {s}

(* Incidents that do not exist yet, or were brought to some rung before.   *)
Init == reached \in [Ids -> {{}} \union {UpTo(s) : s \in Rungs}]

(* Incident i moves to the rung just above the ones it stood on.           *)
Climb(i) ==
    \E s \in Rungs :
        /\ reached[i] = Below(s)
        /\ reached' = [reached EXCEPT ![i] = UpTo(s)]

Next == \E i \in Ids : Climb(i)

Spec == Init /\ [][Next]_reached
===============================================================================
