--------------------------- MODULE MCObservation ---------------------------
(* Two pages of one data source, with the bounds of Observation.tla.           *)
EXTENDS Observation
=============================================================================
