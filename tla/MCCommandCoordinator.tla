------------------------ MODULE MCCommandCoordinator ------------------------
(***************************************************************************)
(* The command coordinator on a small instance.                            *)
(***************************************************************************)
EXTENDS CommandCoordinator_inductive
=============================================================================
