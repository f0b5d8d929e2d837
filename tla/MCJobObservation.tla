-------------------------- MODULE MCJobObservation --------------------------
(***************************************************************************)
(* Model checking of JobObservation: three polls have a first, a middle    *)
(* and a last one, which is all the attempt limit distinguishes.           *)
(***************************************************************************)
EXTENDS JobObservation
=============================================================================
