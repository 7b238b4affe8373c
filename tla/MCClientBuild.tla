----------------------------- MODULE MCClientBuild ------------------------------
(* Half seconds, with a negative lifetime, none, a whole number and a fraction. *)
EXTENDS ClientBuild

MCReported == {-3, 0, 2, 5}

===============================================================================
