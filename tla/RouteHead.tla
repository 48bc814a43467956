------------------------------ MODULE RouteHead ------------------------------
(***************************************************************************)
(* What the route ledger promises to those who use an active model route:  *)
(* each route has a version that grows by one with every decision, and a   *)
(* decision always changes the artifact that is active.  The calibration   *)
(* of one route sees of it only the version (RouteMoves).                  *)
(***************************************************************************)
EXTENDS Integers

CONSTANTS Routes, Artifacts, None

VARIABLES
    version,    \* number of decisions on each route
    active      \* the artifact each route serves

hvars == <<version, active>>

HInit ==
    /\ version = [r \in Routes |-> 0]
    /\ active = [r \in Routes |-> None]

Change(r, a) ==
    /\ a # active[r]
    /\ version' = [version EXCEPT ![r] = @ + 1]
    /\ active' = [active EXCEPT ![r] = a]

HNext == \E r \in Routes, a \in Artifacts : Change(r, a)

HSpec == HInit /\ [][HNext]_hvars
=============================================================================
