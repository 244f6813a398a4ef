---------------------------- MODULE MCSyncStatus ----------------------------
(***************************************************************************)
(* Two configured devices, one for each engine, and one that is not        *)
(* configured.  The conflicts: one with two known changes, one whose first *)
(* entry the engine does not know, so that places and counts differ, and   *)
(* one with a single known change.  The device with the new engine has a   *)
(* favoured plugin.                                                        *)
(***************************************************************************)
EXTENDS SyncStatus

CONSTANTS d1, d2, d3

MCDevices == {d1, d2, d3}
MCConfigured == {d1, d3}
MCOldEngine == {d1}
MCFavour == [d \in MCDevices |-> IF d = d3 THEN "evo" ELSE ""]
MCRosters == {<<d1, d2, d3>>}

known(name) == [known |-> TRUE, plugin |-> name]
unknown == [known |-> FALSE, plugin |-> "file"]

MCConflicts ==
    {[map |-> <<known("barry"), known("evo")>>, ignore |-> TRUE, newer |-> FALSE],
     [map |-> <<unknown, known("evo"), known("barry")>>, ignore |-> FALSE, newer |-> FALSE],
     [map |-> <<unknown, known("barry")>>, ignore |-> FALSE, newer |-> FALSE]}
=============================================================================
