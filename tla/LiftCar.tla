------------------------------ MODULE LiftCar ------------------------------
(***************************************************************************)
(* The elevator car simulation behind Lift 1 "Mauve" and the landing-call  *)
(* list of Elevator Group 1 "Maroon" (main.cpp: struct LiftCar, LiftCarTick,*)
(* LiftCarOpenDoor, SetElevatorGroupLandingCallControl, and the part of the *)
(* COLDSTART branch of the main loop that touches the car).                *)
(*                                                                         *)
(* Two actors share the car: the stack, which calls                        *)
(* SetElevatorGroupLandingCallControl from inside BACnetStack_Tick for     *)
(* every client write, and the main loop, which calls LiftCarTick once per *)
(* pass.  Both run on one thread, so each handler is one atomic step; what *)
(* varies is the order of the steps and how late a pass is.                *)
(*                                                                         *)
(* Time: the code compares steady_clock::now() with phaseDeadline.  Only   *)
(* the difference matters, so the variable remaining is phaseDeadline -    *)
(* now; it is negative when a pass is late.                                *)
(***************************************************************************)
EXTENDS Integers, Sequences

CONSTANTS
    LowestFloor,      \* LIFT_LOWEST_FLOOR
    HighestFloor,     \* LIFT_HIGHEST_FLOOR
    StartFloor,       \* LIFT_START_FLOOR
    TimePerFloor,     \* LIFT_MILLISECONDS_PER_FLOOR, in the model's time unit
    DoorDwell,        \* LIFT_DOOR_DWELL_MILLISECONDS, in the model's time unit
    MaxLandingCalls,  \* MAX_LANDING_CALLS
    Controls,         \* the Landing_Call_Control values clients may write
    MaxLag            \* bound of the model: how far past a deadline a pass may run

Directions == {"NONE", "STOPPED", "UP", "DOWN"}
ControlType == [floor : 0..255, choice : {"Direction", "Destination"},
                direction : Directions, destination : 0..255]

ASSUME FloorAssumption ==
    /\ LowestFloor \in 1..255
    /\ HighestFloor \in 1..255
    /\ StartFloor \in LowestFloor..HighestFloor

ASSUME TimeAssumption ==
    /\ TimePerFloor \in Nat \ {0}
    /\ DoorDwell \in Nat \ {0}
    /\ MaxLag \in Nat

ASSUME CallAssumption ==
    /\ MaxLandingCalls \in Nat \ {0}
    /\ Controls \subseteq ControlType

VARIABLES
    position,         \* g_liftCar.position, a uint8_t
    movingDirection,  \* g_liftCar.movingDirection
    doorStatus,       \* g_liftCar.doorStatus
    phase,            \* g_liftCar.phase
    remaining,        \* g_liftCar.phaseDeadline - now
    calls,            \* g_liftCar.calls[0 .. callCount-1]
    lastControl,      \* g_lastLandingCallControl
    reported          \* what BACnetStack_UpdateValue last told COV subscribers

car == <<position, movingDirection, doorStatus, phase, remaining>>
vars == <<car, calls, lastControl, reported>>

-----------------------------------------------------------------------------
Floors == LowestFloor..HighestFloor

\* struct LandingCall: a floor and the button pressed there.
LandingCall == [floor : Floors, direction : {"UP", "DOWN"}]

\* What a read of Landing_Call_Control answers while hasValue is false.
NoControl == [floor |-> 0, choice |-> "Direction", direction |-> "NONE", destination |-> 0]

\* The car's three COV-reported properties.
Reportable == [position |-> position, movingDirection |-> movingDirection,
               doorStatus |-> doorStatus]

\* Mutant: the loop stops one call short of callCount.
HasCallAtOffByOne(f) == \E i \in 1..(Len(calls) - 1) : calls[i].floor = f

LiftCarHasCallAt(f) == \E i \in 1..Len(calls) : calls[i].floor = f

\* Mutant: the array is compacted from its end.
CallsNotAtReversed(s, f) ==
    LET kept[i \in 0..Len(s)] ==
            IF i = 0 THEN << >>
            ELSE IF s[i].floor # f THEN <<s[i]>> \o kept[i-1]
                                   ELSE kept[i-1]
    IN  kept[Len(s)]

\* The loop of LiftCarOpenDoor that compacts the array: the calls that are not
\* at floor f, in their order.
CallsNotAt(s, f) ==
    LET kept[i \in 0..Len(s)] ==
            IF i = 0 THEN << >>
            ELSE IF s[i].floor # f THEN Append(kept[i-1], s[i])
                                   ELSE kept[i-1]
    IN  kept[Len(s)]

\* The button a write stands for: a direction call says it, a destination call
\* implies it.
CallDirection(ctl) ==
    IF ctl.choice = "Destination"
    THEN IF ctl.destination > ctl.floor THEN "UP" ELSE "DOWN"
    ELSE ctl.direction

CallOf(ctl) == [floor |-> ctl.floor, direction |-> CallDirection(ctl)]

\* The checks a write must pass before it can become a call.
ValidControl(ctl) ==
    /\ ctl.floor \in Floors
    /\ IF ctl.choice = "Destination"
       THEN ctl.destination \in Floors /\ ctl.destination # ctl.floor
       ELSE ctl.direction \in {"UP", "DOWN"}

\* Mutant: a call is compared with the newest one only.
SameAsNewest(c) == calls # << >> /\ calls[Len(calls)] = c

AlreadyCalled(c) == \E i \in 1..Len(calls) : calls[i] = c

-----------------------------------------------------------------------------
\* Mutant: the newest call goes to the front of the list.
NewestCallFirst(ctl) ==
    /\ ValidControl(ctl)
    /\ \/ AlreadyCalled(CallOf(ctl)) /\ UNCHANGED calls
       \/ /\ ~AlreadyCalled(CallOf(ctl))
          /\ Len(calls) < MaxLandingCalls
          /\ calls' = <<CallOf(ctl)>> \o calls
    /\ lastControl' = ctl
    /\ UNCHANGED <<car, reported>>

(***************************************************************************)
(* A client writes Landing_Call_Control.  A refused write (an invalid one, *)
(* or a new call when the list is full) changes nothing, so it is a        *)
(* stuttering step.                                                        *)
(***************************************************************************)
SetElevatorGroupLandingCallControl(ctl) ==
    /\ ValidControl(ctl)
    /\ \/ AlreadyCalled(CallOf(ctl)) /\ UNCHANGED calls
       \/ /\ ~AlreadyCalled(CallOf(ctl))
          /\ Len(calls) < MaxLandingCalls
          /\ calls' = Append(calls, CallOf(ctl))
    /\ lastControl' = ctl
    /\ UNCHANGED <<car, reported>>

\* Mutant: the car opens its door and keeps its direction.
OpenDoorKeepsDirection(f, told) ==
    /\ calls' = CallsNotAt(calls, f)
    /\ doorStatus' = "OPENED"
    /\ phase' = "DoorOpen"
    /\ remaining' = DoorDwell
    /\ reported' = [told EXCEPT !.doorStatus = "OPENED"]
    /\ UNCHANGED movingDirection

\* Mutant: opening the door forgets the calls of the other floors too.
OpenDoorForgetsCalls(f, told) ==
    /\ calls' = << >>
    /\ movingDirection' = "STOPPED"
    /\ doorStatus' = "OPENED"
    /\ phase' = "DoorOpen"
    /\ remaining' = DoorDwell
    /\ reported' = [told EXCEPT !.movingDirection = "STOPPED", !.doorStatus = "OPENED"]

\* The car is at floor f, which has a call: stop, open the door, answer every
\* call at this floor.  told is what subscribers were told before this call.
LiftCarOpenDoor(f, told) ==
    /\ calls' = CallsNotAt(calls, f)
    /\ movingDirection' = "STOPPED"
    /\ doorStatus' = "OPENED"
    /\ phase' = "DoorOpen"
    /\ remaining' = DoorDwell
    /\ reported' = [told EXCEPT !.movingDirection = "STOPPED", !.doorStatus = "OPENED"]

\* LiftCarTick, phase Idle, with a call at the floor the car is already on.
OpenWhereStanding ==
    /\ phase = "Idle"
    /\ LiftCarHasCallAt(position)
    /\ LiftCarOpenDoor(position, reported)
    /\ UNCHANGED <<position, lastControl>>

\* Mutant: the car leaves only when more than one call waits.
LeaveForSecondCall ==
    /\ phase = "Idle"
    /\ Len(calls) > 1
    /\ ~LiftCarHasCallAt(position)
    /\ movingDirection' = IF calls[1].floor > position THEN "UP" ELSE "DOWN"
    /\ phase' = "Moving"
    /\ remaining' = TimePerFloor
    /\ reported' = [reported EXCEPT !.movingDirection = movingDirection']
    /\ UNCHANGED <<position, doorStatus, calls, lastControl>>

\* LiftCarTick, phase Idle, with calls elsewhere only: leave for the oldest one.
LeaveForOldestCall ==
    /\ phase = "Idle"
    /\ calls # << >>
    /\ ~LiftCarHasCallAt(position)
    /\ movingDirection' = IF calls[1].floor > position THEN "UP" ELSE "DOWN"
    /\ phase' = "Moving"
    /\ remaining' = TimePerFloor
    /\ reported' = [reported EXCEPT !.movingDirection = movingDirection']
    /\ UNCHANGED <<position, doorStatus, calls, lastControl>>

\* The next floor, in uint8_t arithmetic.
NextFloor == (IF movingDirection = "UP" THEN position + 1 ELSE position - 1) % 256

\* Mutant: the car stops for the oldest call only.
ReachFloorOfOldestCall ==
    /\ phase = "Moving"
    /\ remaining <= 0
    /\ position' = NextFloor
    /\ \/ /\ calls[1].floor = NextFloor
          /\ LiftCarOpenDoor(NextFloor, [reported EXCEPT !.position = NextFloor])
       \/ /\ calls[1].floor # NextFloor
          /\ remaining' = remaining + TimePerFloor
          /\ reported' = [reported EXCEPT !.position = NextFloor]
          /\ UNCHANGED <<movingDirection, doorStatus, phase, calls>>
    /\ UNCHANGED lastControl

\* LiftCarTick, phase Moving, deadline reached: one floor on.  The car stops
\* there if the floor has a call; otherwise the deadline moves on from the old
\* deadline, so a late pass is caught up with.
ReachNextFloor ==
    /\ phase = "Moving"
    /\ remaining <= 0
    /\ position' = NextFloor
    /\ \/ /\ LiftCarHasCallAt(NextFloor)
          /\ LiftCarOpenDoor(NextFloor, [reported EXCEPT !.position = NextFloor])
       \/ /\ ~LiftCarHasCallAt(NextFloor)
          /\ remaining' = remaining + TimePerFloor
          /\ reported' = [reported EXCEPT !.position = NextFloor]
          /\ UNCHANGED <<movingDirection, doorStatus, phase, calls>>
    /\ UNCHANGED lastControl

\* Mutant: nobody is told that the door closed.
CloseDoorSilently ==
    /\ phase = "DoorOpen"
    /\ remaining <= 0
    /\ doorStatus' = "CLOSED"
    /\ phase' = "Idle"
    /\ UNCHANGED <<position, movingDirection, remaining, calls, lastControl, reported>>

\* LiftCarTick, phase DoorOpen, deadline reached.
CloseDoor ==
    /\ phase = "DoorOpen"
    /\ remaining <= 0
    /\ doorStatus' = "CLOSED"
    /\ phase' = "Idle"
    /\ reported' = [reported EXCEPT !.doorStatus = "CLOSED"]
    /\ UNCHANGED <<position, movingDirection, remaining, calls, lastControl>>

LiftCarTick == OpenWhereStanding \/ LeaveForOldestCall \/ ReachNextFloor \/ CloseDoor

\* The main loop's COLDSTART branch: g_liftCar = LiftCar() and
\* g_lastLandingCallControl = LastLandingCallControl(), with no UpdateValue.
ColdStart ==
    /\ position' = StartFloor
    /\ movingDirection' = "STOPPED"
    /\ doorStatus' = "CLOSED"
    /\ phase' = "Idle"
    /\ remaining' = 0
    /\ calls' = << >>
    /\ lastControl' = NoControl
    /\ UNCHANGED reported

\* The clock advances while a deadline is pending.
Elapse ==
    /\ phase # "Idle"
    /\ remaining > -MaxLag
    /\ remaining' = remaining - 1
    /\ UNCHANGED <<position, movingDirection, doorStatus, phase, calls, lastControl, reported>>

-----------------------------------------------------------------------------
Init ==
    /\ position = StartFloor
    /\ movingDirection = "STOPPED"
    /\ doorStatus = "CLOSED"
    /\ phase = "Idle"
    /\ remaining = 0
    /\ calls = << >>
    /\ lastControl = NoControl
    /\ reported = Reportable

Next ==
    \/ \E ctl \in Controls : SetElevatorGroupLandingCallControl(ctl)
    \/ LiftCarTick
    \/ ColdStart
    \/ Elapse

Spec == Init /\ [][Next]_vars

\* The main loop never stops calling LiftCarTick and the clock never stops;
\* nobody has to press a button or order a restart.
FairSpec == Spec /\ WF_vars(LiftCarTick) /\ WF_vars(Elapse)

-----------------------------------------------------------------------------
(***************************************************************************)
(* Invariants.                                                             *)
(***************************************************************************)

\* Every variable has its type.  position is any uint8_t here: that the car
\* stays between the lowest and the highest floor is InShaft.
TypeOK ==
    /\ position \in 0..255
    /\ movingDirection \in {"STOPPED", "UP", "DOWN"}
    /\ doorStatus \in {"OPENED", "CLOSED"}
    /\ phase \in {"Idle", "Moving", "DoorOpen"}
    /\ remaining \in Int
    /\ calls \in Seq(LandingCall)
    /\ lastControl \in Controls \cup {NoControl}
    /\ reported \in [position : 0..255, movingDirection : {"STOPPED", "UP", "DOWN"},
                     doorStatus : {"OPENED", "CLOSED"}]

\* The car never leaves the shaft: LiftCarTick's Moving branch steps position
\* with no bounds check of its own, so this rests on there being a call ahead.
InShaft == position \in Floors

\* While the car moves it moves towards calls[0], which is still ahead of it:
\* no handler that runs during the journey may remove or overtake that call.
HeadsForOldestCall ==
    phase = "Moving" =>
        /\ calls # << >>
        /\ movingDirection = "UP"   => calls[1].floor > position
        /\ movingDirection = "DOWN" => calls[1].floor < position
        /\ movingDirection # "STOPPED"

\* The door interlock, as a client reads it: the door is open only while the
\* car stands in phase DoorOpen, and a direction is shown only while it moves.
DoorInterlock ==
    /\ doorStatus = "OPENED" <=> phase = "DoorOpen"
    /\ movingDirection # "STOPPED" <=> phase = "Moving"

\* "The same button pressed twice is one call", and the array calls[] is never
\* written past its end.
OneCallPerButton ==
    /\ Len(calls) <= MaxLandingCalls
    /\ \A i, j \in 1..Len(calls) : i # j => calls[i] # calls[j]

(***************************************************************************)
(* Action properties.                                                      *)
(***************************************************************************)
Distance(a, b) == IF a > b THEN a - b ELSE b - a

Before(s, a, b) == \E i, j \in 1..Len(s) : i < j /\ s[i] = a /\ s[j] = b

\* Calls keep their order of arrival for as long as they wait: compacting the
\* array in LiftCarOpenDoor and appending to it never let one overtake another.
ArrivalOrderKept ==
    [][\A i, j \in 1..Len(calls) :
         (i < j /\ (\E m, n \in 1..Len(calls') : calls'[m] = calls[i] /\ calls'[n] = calls[j]))
            => Before(calls', calls[i], calls[j])]_vars

\* The car passes no floor by: behind a closed door it goes on to the next floor,
\* and if anyone is waiting there it opens and leaves nobody of that floor on the
\* list ("stopping on the way at any floor that also has a call").
StopsOnTheWay ==
    [][(position' # position /\ ~ColdStart) =>
         /\ Distance(position, position') = 1
         /\ doorStatus = "CLOSED"
         /\ LiftCarHasCallAt(position') =>
               /\ doorStatus' = "OPENED"
               /\ \A i \in 1..Len(calls') : calls'[i].floor # position']_vars

\* COV subscribers hear of every change of Car_Position, Car_Moving_Direction and
\* Car_Door_Status that LiftCarTick makes, with the value that then holds: once
\* they know the car they go on knowing it, over every step but a COLDSTART.
SubscribersFollowTheCar ==
    [][(reported = Reportable /\ ~ColdStart) => (reported = Reportable)']_vars

(***************************************************************************)
(* Refinement.                                                             *)
(***************************************************************************)
\* The landing calls as the people waiting see them: the calls on the list,
\* whatever their order, and the floor whose door is open.
NoFloor == 0
OnList == {calls[i] : i \in 1..Len(calls)}
OpenFloor == IF doorStatus = "OPENED" THEN position ELSE NoFloor
Landings == INSTANCE LandingCalls WITH
    Calls <- LandingCall, waiting <- OnList, openAt <- OpenFloor

\* The car answers landing calls as LandingCalls promises: LiftCarTick and the
\* list handling of SetElevatorGroupLandingCallControl implement it, so no call
\* is lost, answered at the wrong floor or left behind by an open door.
CallsAnsweredAtTheirLanding == Landings!Spec

(***************************************************************************)
(* Liveness, under FairSpec.                                               *)
(***************************************************************************)
Waiting(c) == \E i \in 1..Len(calls) : calls[i] = c

\* "The calls are served first come, first served, stopping on the way": so a
\* call that is on the list does not stay there for ever.
EveryCallAnswered == \A c \in LandingCall : Waiting(c) ~> ~Waiting(c)

\* Somebody presses a button at the floor where the car stands.
PressWhereCarStands ==
    /\ phase # "Moving"
    /\ Len(calls') > Len(calls)
    /\ calls'[Len(calls')].floor = position

\* If the buttons of the floor where the car stands are one day left alone, every
\* call on the list is answered (or wiped by a COLDSTART).
EveryCallAnsweredIfLeftAlone ==
    (<>[][~PressWhereCarStands]_vars) => EveryCallAnswered
=============================================================================
