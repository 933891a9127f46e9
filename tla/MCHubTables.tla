---------------------------- MODULE MCHubTables ----------------------------
(***************************************************************************)
(* Model checking of module HubTables: two modules with short names of     *)
(* their own, and a long name that is cut to the name of a third.          *)
(***************************************************************************)
EXTENDS HubTables

CONSTANTS d1, d2, d3, long

MCIds == {d1, d2, d3, long}
MCStored == [id \in MCIds |-> IF id = long THEN d3 ELSE id]
=============================================================================
