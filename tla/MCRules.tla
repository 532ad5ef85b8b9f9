------------------------------- MODULE MCRules -------------------------------
(* Games of three players, two of them on one client, for TLC.              *)
EXTENDS Rules

CONSTANTS c1, c2, p1, p2, p3

MCOwner == p1 :> c1 @@ p2 :> c2 @@ p3 :> c1
MCOrder == <<p1, p2, p3>>

Plan(rules, removals, deaths, restarts, vanish) ==
  [rules |-> rules, removals |-> removals, deaths |-> deaths, restarts |-> restarts, vanish |-> vanish]

\* Games that are played to the end, restarted and played again, and given up.
MCPlans ==
  {Plan("Default", 3, 0, 1, 0), Plan("Survival", 3, 1, 0, 0), Plan("Survival", 2, 1, 1, 0),
   Plan("Default", 0, 4, 1, 0), Plan("Survival", 1, 2, 1, 1)}
==============================================================================
