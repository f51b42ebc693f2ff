---------------------------- MODULE MCStatusStream ----------------------------
(***************************************************************************)
(* What the machine service's polling thread publishes, on small           *)
(* instances: the status, the operator messages and the positions.  In     *)
(* each behaviour one of the three runs and the others stay where they     *)
(* start.  Units and values are interchangeable; the run checks no         *)
(* liveness.                                                               *)
(***************************************************************************)
EXTENDS StatusStream, ErrorStream, PositionTrail, TLC

MCSymmetry == Permutations(Units) \cup Permutations(Values)

\* A position repeats, moves forward or moves back.
MovesDef == {0, 1, -1}

VARIABLE turn   \* the one that runs

pollVars == <<turn, statusVars, errorVars, positionVars>>

StreamInit ==
    /\ turn \in {"status", "errors", "positions"}
    /\ StatusInit /\ ErrorInit /\ PositionInit

StreamNext ==
    /\ UNCHANGED turn
    /\ \/ turn = "status" /\ StatusNext /\ UNCHANGED <<errorVars, positionVars>>
       \/ turn = "errors" /\ ErrorNext /\ UNCHANGED <<statusVars, positionVars>>
       \/ turn = "positions" /\ PositionNext /\ UNCHANGED <<statusVars, errorVars>>

StreamSpec == StreamInit /\ [][StreamNext]_pollVars
===============================================================================
