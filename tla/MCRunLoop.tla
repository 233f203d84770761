------------------------------ MODULE MCRunLoop ------------------------------
(***************************************************************************)
(* Small instances of the worker for TLC; the .cfg files choose the sizes and *)
(* what the server does.                                                   *)
(***************************************************************************)
EXTENDS WorkerCycle, TLC

(* The slots of the pool are interchangeable. *)
Symmetry == Permutations(Infos)
==============================================================================
