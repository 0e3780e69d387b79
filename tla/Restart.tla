------------------------------ MODULE Restart ------------------------------
(***************************************************************************)
(* The deferred restart of DM-RD-B (common/CASExampleHelper.cpp:           *)
(* RequestRestart, RestartDue; main.cpp: ReinitializeDevice and the main   *)
(* loop).                                                                  *)
(*                                                                         *)
(* The stack calls ReinitializeDevice from inside BACnetStack_Tick, which  *)
(* only arms the restart: the SimpleACK is encoded then and is on the wire *)
(* after a later Tick.  The main loop asks RestartDue once per pass, after *)
(* Tick, and performs the restart.  Several clients may ask during one     *)
(* delay, and the clock runs on at every point of the pass.                *)
(*                                                                         *)
(* As only differences of the monotonic clock matter, the variable dueIn   *)
(* is g_restartDueAtMs - now.                                              *)
(***************************************************************************)
EXTENDS Integers

CONSTANTS
    Clients,   \* the management stations
    Delays,    \* delayMilliseconds arguments; main.cpp has one, RESTART_DELAY_MS
    MaxPass    \* bound of the model: how long one pass of the main loop may take

Kinds == {"Cold", "Warm"}
NoPromise == [kind |-> "None", dueIn |-> 0]

ASSUME RestartAssumption ==
    /\ Delays \subseteq Nat
    /\ MaxPass \in Nat \ {0}

\* RESTART_DELAY_MS is "comfortably longer than one tick of the main loop".
ASSUME DelayAssumption == \A d \in Delays : MaxPass < d

VARIABLES
    restartPending,  \* g_restartPending
    dueIn,           \* g_restartDueAtMs - now
    restartKind,     \* g_restartKind
    at,              \* where the main loop is in its pass
    passTime,        \* how long this pass has taken
    unsent,          \* clients whose SimpleACK is not on the wire yet
    promises         \* per client what its accepted request was promised (history)

request == <<restartPending, dueIn, restartKind>>
vars == <<request, at, passTime, unsent, promises>>

-----------------------------------------------------------------------------
\* The clients that still wait for their restart.
Promised == {c \in Clients : promises[c] # NoPromise}

\* Mutant: the latest request decides the kind.
RequestDowngrades(kind, delay) ==
    /\ restartPending' = TRUE
    /\ dueIn' = IF restartPending /\ dueIn < delay THEN dueIn ELSE delay
    /\ restartKind' = kind

\* Mutant: every request starts the delay afresh.
RequestPostpones(kind, delay) ==
    /\ restartPending' = TRUE
    /\ dueIn' = delay
    /\ restartKind' = IF restartPending /\ restartKind = "Cold" THEN "Cold" ELSE kind

\* RequestRestart: the first request arms the restart; a later one may only bring
\* it forward or turn a warm restart into a cold one.
RequestRestart(kind, delay) ==
    \/ /\ ~restartPending
       /\ restartPending' = TRUE
       /\ dueIn' = delay
       /\ restartKind' = kind
    \/ /\ restartPending
       /\ dueIn' = IF delay < dueIn THEN delay ELSE dueIn
       /\ restartKind' = IF kind = "Cold" THEN "Cold" ELSE restartKind
       /\ UNCHANGED restartPending

\* Mutant: the callback asks for a restart without a delay.
ReinitializeAtOnce(c, kind, delay) ==
    /\ at = "Tick"
    /\ promises[c] = NoPromise
    /\ RequestRestart(kind, 0)
    /\ unsent' = unsent \cup {c}
    /\ promises' = [promises EXCEPT ![c] = [kind |-> kind, dueIn |-> 0]]
    /\ UNCHANGED <<at, passTime>>

\* ReinitializeDevice with COLDSTART or WARMSTART and the right password.  (Any
\* other request leaves the restart alone: it is refused, or drives a backup or
\* restore session.)
ReinitializeDevice(c, kind, delay) ==
    /\ at = "Tick"
    /\ promises[c] = NoPromise
    /\ RequestRestart(kind, delay)
    /\ unsent' = unsent \cup {c}
    /\ promises' = [promises EXCEPT ![c] = [kind |-> kind, dueIn |-> delay]]
    /\ UNCHANGED <<at, passTime>>

\* BACnetStack_Tick begins; the answers encoded in the Tick before go out.
StartTick ==
    /\ at = "Sleep"
    /\ passTime > 0      \* usleep(1000) at the end of every pass
    /\ at' = "Tick"
    /\ passTime' = 0
    /\ unsent' = {}
    /\ UNCHANGED <<request, promises>>

\* BACnetStack_Tick returns.
EndTick ==
    /\ at = "Tick"
    /\ at' = "Check"
    /\ UNCHANGED <<request, passTime, unsent, promises>>

\* Mutant: due at one instant only.
IsDueExactly == restartPending /\ dueIn = 0

\* The test of RestartDue.
IsDue == restartPending /\ dueIn <= 0

\* RestartDue answers true and the main loop restarts; every client that asked
\* has had its restart.
PerformRestart ==
    /\ at = "Check"
    /\ IsDue
    /\ restartPending' = FALSE
    /\ promises' = [c \in Clients |-> NoPromise]
    /\ at' = "Sleep"
    /\ UNCHANGED <<dueIn, restartKind, passTime, unsent>>

\* RestartDue answers false.
NotYetDue ==
    /\ at = "Check"
    /\ ~IsDue
    /\ at' = "Sleep"
    /\ UNCHANGED <<request, passTime, unsent, promises>>

\* One unit less to go.  A bound of the model: a deadline missed by more than two
\* passes gets no later (the code only asks whether it has passed).
OneLess(t) == IF t >= -2 * MaxPass THEN t - 1 ELSE t

\* The clock advances, at any point of the pass.  The deadline of a restart that is
\* not pending is never looked at, so it is left alone.
Elapse ==
    /\ passTime < MaxPass
    /\ passTime' = passTime + 1
    /\ dueIn' = IF restartPending THEN OneLess(dueIn) ELSE dueIn
    /\ promises' = [c \in Clients |->
                      IF promises[c] = NoPromise THEN NoPromise
                      ELSE [promises[c] EXCEPT !.dueIn = OneLess(@)]]
    /\ UNCHANGED <<restartPending, restartKind, at, unsent>>

-----------------------------------------------------------------------------
Init ==
    /\ restartPending = FALSE
    /\ dueIn = 0
    /\ restartKind = "Warm"
    /\ at = "Tick"
    /\ passTime = 0
    /\ unsent = {}
    /\ promises = [c \in Clients |-> NoPromise]

Next ==
    \/ \E c \in Clients, kind \in Kinds, delay \in Delays : ReinitializeDevice(c, kind, delay)
    \/ StartTick \/ EndTick
    \/ PerformRestart \/ NotYetDue
    \/ Elapse

Spec == Init /\ [][Next]_vars

\* The main loop never stops and time never stops; no client has to ask.
FairSpec ==
    /\ Spec
    /\ WF_vars(StartTick) /\ WF_vars(EndTick)
    /\ WF_vars(PerformRestart) /\ WF_vars(NotYetDue)
    /\ WF_vars(Elapse)

-----------------------------------------------------------------------------
(***************************************************************************)
(* Properties.                                                             *)
(***************************************************************************)
Promise == [kind : Kinds, dueIn : Int]

\* Every variable has its type.
TypeOK ==
    /\ restartPending \in BOOLEAN
    /\ dueIn \in Int
    /\ restartKind \in Kinds
    /\ at \in {"Tick", "Check", "Sleep"}
    /\ passTime \in 0..MaxPass
    /\ unsent \subseteq Clients
    /\ promises \in [Clients -> Promise \cup {NoPromise}]

\* However many clients ask and in whatever order, the pending restart is due at
\* the earliest of the promised times and is cold exactly if one of them asked for
\* a cold one; nobody who was promised a restart is forgotten.
StrongestPromiseWins ==
    /\ restartPending <=> Promised # {}
    /\ restartPending =>
         /\ \A c \in Promised : dueIn <= promises[c].dueIn
         /\ \E c \in Promised : dueIn = promises[c].dueIn
         /\ restartKind = "Cold" <=> \E c \in Promised : promises[c].kind = "Cold"

\* No restart is put off: when a promised time comes, the restart follows before
\* two passes of the main loop are over.
PromisesKeptInTime == \A c \in Promised : promises[c].dueIn > -2 * MaxPass

\* A client whose own delay is over has had its SimpleACK before the device
\* restarts under it.
AcknowledgedBeforeOwnDelayEnds ==
    \A c \in Promised : promises[c].dueIn <= 0 => c \notin unsent

\* The helper's header says of the restart "by which point the ACK has been sent":
\* so no client's SimpleACK is outstanding when the main loop restarts.
AcknowledgedBeforeRestart == [][PerformRestart => unsent = {}]_vars

\* Whoever asked for a restart gets one, however often others ask meanwhile.
RestartHappens == \A c \in Clients : c \in Promised ~> c \notin Promised
=============================================================================
