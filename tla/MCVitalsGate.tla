---------------------------- MODULE MCVitalsGate ----------------------------
(* Two rates far apart, whose mean the two estimators may agree on as well. *)
EXTENDS VitalsGate
=============================================================================
