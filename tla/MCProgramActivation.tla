------------------------- MODULE MCProgramActivation -------------------------
(* Instances of ProgramActivation for TLC.                                 *)
EXTENDS ProgramActivation, TLC

CONSTANTS o1, o2, o3, c1, w1, w2

TwoWorkspaces == o1 :> w1 @@ o2 :> w2
OneOpen == o1 :> w1
ThreeOpens == o1 :> w1 @@ o2 :> w2 @@ o3 :> w1

=============================================================================
