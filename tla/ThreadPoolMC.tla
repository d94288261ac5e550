---------------------------- MODULE ThreadPoolMC -----------------------------
(***************************************************************************)
(* Small instances of ThreadPool. The sets of threads and requests are     *)
(* model values given in the .cfg files; the safety runs use their         *)
(* symmetry, the liveness runs do not.                                     *)
(***************************************************************************)
EXTENDS ThreadPool, TLC

Symmetry ==
    Permutations(Workers) \cup Permutations(Producers) \cup Permutations(Requests)
=============================================================================
