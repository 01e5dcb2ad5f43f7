--------------------------- MODULE MCCostCache ---------------------------
(* CostCache for TLC: Cost Explorer is switched on or off for one scope, and *)
(* another scope may be deployed with it on.                                 *)
EXTENDS CostCache

CONSTANTS s1, s2

MCScopes  == {s1, s2}
MCConfigs == [enabled : BOOLEAN, scope : {s1}] \cup [enabled : {TRUE}, scope : {s2}]

===========================================================================
