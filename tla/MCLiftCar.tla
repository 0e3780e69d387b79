----------------------------- MODULE MCLiftCar -----------------------------
(***************************************************************************)
(* LiftCar for TLC, with the writes clients may make.                      *)
(***************************************************************************)
EXTENDS LiftCar

Write(f, ch, dir, dest) ==
    [floor |-> f, choice |-> ch, direction |-> dir, destination |-> dest]

\* Both buttons of every floor that has the floor beyond, one button of the end
\* floors, a destination call, and a write for every reason to refuse one.
MCControls ==
    {Write(f, "Direction", "UP", 0) : f \in LowestFloor..(HighestFloor - 1)}
    \cup {Write(f, "Direction", "DOWN", 0) : f \in {HighestFloor}}
    \cup {Write(HighestFloor - 1, "Destination", "NONE", LowestFloor),
          Write(0, "Direction", "UP", 0),
          Write(HighestFloor + 1, "Direction", "DOWN", 0),
          Write(LowestFloor, "Direction", "STOPPED", 0),
          Write(LowestFloor, "Destination", "NONE", LowestFloor),
          Write(LowestFloor, "Destination", "NONE", HighestFloor + 1)}
=============================================================================
