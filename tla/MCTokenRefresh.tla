---------------------------- MODULE MCTokenRefresh ----------------------------
(***************************************************************************)
(* TokenRefresh on a small instance: tasks as model values.  The tasks of  *)
(* the application are interchangeable, so the runs that check no liveness *)
(* use symmetry.                                                           *)
(***************************************************************************)
EXTENDS TokenRefresh

Symmetry == Permutations(Callers)
=============================================================================
