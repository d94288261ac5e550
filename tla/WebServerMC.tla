----------------------------- MODULE WebServerMC -----------------------------
(***************************************************************************)
(* Small instances of WebServer. Descriptors are numbers, because accept   *)
(* returns the lowest free one; workers are interchangeable.               *)
(***************************************************************************)
EXTENDS WebServer, TLC

Symmetry == Permutations(Workers)
=============================================================================
