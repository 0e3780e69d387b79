---------------------------- MODULE LandingCalls ----------------------------
(***************************************************************************)
(* What Elevator Group 1 promises the people at its landings, without the  *)
(* car's motion: a call that was accepted waits until a door opens at its  *)
(* floor; a door opens only at a floor where somebody waits and then takes *)
(* up everybody who waits there; one door at a time; at most               *)
(* MaxLandingCalls calls wait.  Only a power-on forgets calls.             *)
(***************************************************************************)
EXTENDS Naturals, FiniteSets

CONSTANTS Calls,           \* the calls there can be, each with a floor
          MaxLandingCalls, \* how many of them may wait at once
          NoFloor          \* no door is open

VARIABLES waiting,  \* the calls accepted and not yet answered
          openAt    \* the floor whose door is open, or NoFloor

Init == waiting = {} /\ openAt = NoFloor

\* Somebody presses a button.
Press(c) ==
    /\ c \notin waiting
    /\ Cardinality(waiting) < MaxLandingCalls
    /\ waiting' = waiting \cup {c}
    /\ UNCHANGED openAt

\* The door opens at floor f and answers every call there.
Answer(f) ==
    /\ openAt = NoFloor
    /\ \E c \in waiting : c.floor = f
    /\ waiting' = {c \in waiting : c.floor # f}
    /\ openAt' = f

\* The door closes.
Close ==
    /\ openAt # NoFloor
    /\ openAt' = NoFloor
    /\ UNCHANGED waiting

\* Power-on: nobody waits and every door is closed.
PowerOn == waiting' = {} /\ openAt' = NoFloor

Next ==
    \/ \E c \in Calls : Press(c)
    \/ \E f \in {c.floor : c \in Calls} : Answer(f)
    \/ Close
    \/ PowerOn

Spec == Init /\ [][Next]_<<waiting, openAt>>
=============================================================================
