---------------------------- MODULE MCNmlCommands ----------------------------
(* Instances of NmlCommands for TLC.                                       *)
EXTENDS NmlCommands

=============================================================================
