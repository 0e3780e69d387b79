--------------------------- MODULE MCPropertyReads ---------------------------
(* For TLC: call lists, slots of a priority array of three, and values of the test   *)
(* hook's variable, no number and at and past its bounds.                            *)
EXTENDS PropertyReads

CONSTANTS c1, c2, c3

MCCalls == {c1, c2, c3}
MCCallLists == {<<>>, <<c1>>, <<c2, c1, c3>>}
MCHookValues == {-1, 0, 1, 3600, 3601}
MCSlots == {{}, {2}, {1, 3}}
=============================================================================
