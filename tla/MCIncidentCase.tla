-------------------------- MODULE MCIncidentCase --------------------------
(* Instances of IncidentCase for TLC: request slots are interchangeable, and *)
(* so are action names.                                                      *)
EXTENDS IncidentCaseInvariant, TLC

Symmetry == Permutations(Requests) \cup Permutations(ActionIds)

===========================================================================
