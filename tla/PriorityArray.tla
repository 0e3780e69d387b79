---------------------------- MODULE PriorityArray ----------------------------
(***************************************************************************)
(* What commandable outputs promise of every request made of them: a value *)
(* of the output's own datatype that it can take is kept at the priority   *)
(* the request names, a NULL empties that priority, a power-on empties     *)
(* them all, and nothing else happens, to this output or to another.  A    *)
(* request that names no priority of the array names the lowest.           *)
(***************************************************************************)
EXTENDS Integers

CONSTANTS
    Outputs,            \* the commandable objects
    N,                  \* the number of priorities; 1 is the highest
    Null,               \* nothing commanded
    Datatype,           \* Datatype[o]: what o is commanded with
    Range               \* Range[o]: the values o can take

VARIABLES
    slots,     \* slots[o][p]: what o is commanded to at priority p, or Null
    request    \* the request handled last

Priorities == 1..N
NamedPriority(r) == IF r.priority \in Priorities THEN r.priority ELSE N

AllNull == [o \in Outputs |-> [p \in Priorities |-> Null]]

\* A request o obeys: a value it can take, or a NULL.
Obeyed(r) ==
    /\ r.object \in Outputs
    /\ \/ r.datatype = Datatype[r.object] /\ r.value \in Range[r.object]
       \/ r.datatype = "Null" /\ r.value = Null

Init == slots = AllNull /\ request.datatype = "PowerOn"

\* What one request makes of the slots.
Next ==
    slots' = IF request'.datatype = "PowerOn" THEN AllNull
             ELSE IF Obeyed(request')
             THEN [slots EXCEPT ![request'.object][NamedPriority(request')] = request'.value]
             ELSE slots

Spec == Init /\ [][Next]_<<slots, request>>
=============================================================================
