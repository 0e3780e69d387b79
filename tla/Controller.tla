----------------------------- MODULE Controller -----------------------------
(***************************************************************************)
(* The main loop (main.cpp) and what it does itself between two ticks of   *)
(* the stack: the simulated passenger alarm, a due restart's effect on     *)
(* what subscribers were told, and the keyboard (PollKey, EnableRawInput). *)
(* The car, the restored configuration and the moment a restart falls due  *)
(* have modules of their own; the tick of the stack is external.           *)
(*                                                                         *)
(* g_analogInput1Value is counted in nudges of 1.1 from 21.5, and age is   *)
(* now - lastAlarmToggle, of which everything past the period is alike.    *)
(***************************************************************************)
EXTENDS Integers, Sequences

CONSTANTS
    g_passengerAlarmPeriodSeconds,
    MaxStepBack,   \* how far the host's clock is set back, in all
    MaxNudge,      \* bound on the value of Analog Input 1
    MaxWaiting     \* a key is pressed while at most so many octets wait at the terminal

ASSUME ControllerAssumption ==
    /\ g_passengerAlarmPeriodSeconds \in Nat \ {0}
    /\ MaxStepBack \in Nat /\ MaxNudge \in Nat \ {0} /\ MaxWaiting \in Nat

VARIABLES
    phase,               \* where the loop is; "exited" once main has returned
    g_simulatedAlarms,   \* FALSE with --no-simulated-alarms
    input,               \* g_analogInput1Value
    alarm,               \* g_liftPassengerAlarm
    age, stepBack,       \* the alarm's timer, on the host's clock
    told,                \* the values the stack was last told had changed
    replaced,            \* what a COLDSTART replaced since (history)
    restart,             \* a restart that is armed
    stdin,               \* what standard input is
    configured,          \* g_stdinConfigured
    nonblocking,         \* O_NONBLOCK is set on it
    waiting,             \* the octets it holds
    askedToQuit          \* q was pressed and no other key waited (history)

loop == <<phase, g_simulatedAlarms>>
clock == <<age, stepBack>>
values == <<input, alarm, told, replaced>>
terminal == <<stdin, configured, nonblocking, waiting, askedToQuit>>
vars == <<loop, clock, values, restart, terminal>>

-----------------------------------------------------------------------------
\* BACnetStack_UpdateValue: subscribers and the alarm algorithm look at the value.
UpdateValue(property, v) ==
    /\ told' = [told EXCEPT ![property] = v]
    /\ replaced' = replaced \ {property}

\* BACnetStack_Tick, the restored configuration and the car.
Tick ==
    /\ phase = "tick"
    /\ phase' = "alarm"
    /\ UNCHANGED <<g_simulatedAlarms, clock, values, restart, terminal>>

\* lastAlarmToggle = now.
NoteFlip == age' = 0

\* Mutant: the timer is restarted on every pass.
AlarmTimerAlwaysRestarts ==
    /\ phase = "alarm"
    /\ phase' = "restart"
    /\ age' = 0
    /\ IF g_simulatedAlarms /\ age >= g_passengerAlarmPeriodSeconds
       THEN alarm' = ~alarm /\ UpdateValue("alarm", ~alarm)
       ELSE UNCHANGED <<alarm, told, replaced>>
    /\ UNCHANGED <<g_simulatedAlarms, input, stepBack, restart, terminal>>

\* The simulated Passenger_Alarm flips.
PassengerAlarm ==
    /\ phase = "alarm"
    /\ phase' = "restart"
    /\ IF g_simulatedAlarms /\ age >= g_passengerAlarmPeriodSeconds
       THEN alarm' = ~alarm /\ NoteFlip /\ UpdateValue("alarm", ~alarm)
       ELSE UNCHANGED <<alarm, age, told, replaced>>
    /\ UNCHANGED <<g_simulatedAlarms, input, stepBack, restart, terminal>>

\* A restart that is due: COLDSTART puts the values back, WARMSTART keeps them.
RestartDevice ==
    /\ phase = "restart"
    /\ phase' = "key"
    /\ \/ /\ restart = "cold" /\ restart' = "none"
          /\ input' = 0 /\ alarm' = FALSE
          /\ replaced' = {"input", "alarm"}
       \/ /\ restart = "warm" /\ restart' = "none"
          /\ UNCHANGED <<input, alarm, replaced>>
       \/ UNCHANGED <<restart, input, alarm, replaced>>  \* none armed, or not due yet
    /\ UNCHANGED <<g_simulatedAlarms, clock, told, terminal>>

\* Mutant: a standard input that is no terminal is left as it is.
EnableRawInputOnTerminal ==
    /\ configured' = TRUE
    /\ nonblocking' = (nonblocking \/ stdin = "tty")

\* EnableRawInput, once: O_NONBLOCK, whether or not it is a terminal.
EnableRawInput ==
    /\ configured' = TRUE
    /\ nonblocking' = (nonblocking \/ (~configured /\ stdin # "closed"))

\* read() of up to three octets waits for ever on a pipe that stays open and empty.
ReadReturns == waiting # <<>> \/ nonblocking' \/ stdin = "closed"

\* Mutant: only escape sequences count.
KeyCommandArrows(buf) ==
    IF Len(buf) # 3 THEN "None"
    ELSE CASE buf[3] = "A" -> "ArrowUp" [] buf[3] = "B" -> "ArrowDown" [] OTHER -> "None"

\* The octets of an arrow key are an escape sequence and must come together; of any
\* other read only the first octet counts.
KeyCommand(buf) ==
    CASE buf = <<>> -> "None"
      [] Len(buf) = 3 /\ buf[1] = "ESC" /\ buf[2] = "[" ->
           (CASE buf[3] = "A" -> "ArrowUp" [] buf[3] = "B" -> "ArrowDown" [] OTHER -> "None")
      [] OTHER -> IF buf[1] = "q" THEN "Quit" ELSE "None"

\* Mutant: only an increase is announced.
NudgeUpAnnounced(by) ==
    LET nudged == IF input + by \in -MaxNudge..MaxNudge THEN input + by ELSE input
    IN  /\ input' = nudged
        /\ IF by > 0 THEN UpdateValue("input", nudged) ELSE UNCHANGED <<told, replaced>>

Nudge(by) ==
    LET nudged == IF input + by \in -MaxNudge..MaxNudge THEN input + by ELSE input
    IN  input' = nudged /\ UpdateValue("input", nudged)

\* PollKey and the switch on its answer.  Help, and the keys that only send a Who-Is
\* or add a schedule entry, leave this state alone.
PollKey ==
    /\ phase = "key"
    /\ EnableRawInput
    /\ ReadReturns
    /\ LET n == IF Len(waiting) < 3 THEN Len(waiting) ELSE 3
           command == KeyCommand(SubSeq(waiting, 1, n))
       IN  /\ waiting' = SubSeq(waiting, n + 1, Len(waiting))
           /\ phase' = IF command = "Quit" THEN "exited" ELSE "tick"
           /\ CASE command = "ArrowUp" -> Nudge(1)
                [] command = "ArrowDown" -> Nudge(-1)
                [] OTHER -> UNCHANGED <<input, told, replaced>>
    /\ UNCHANGED <<g_simulatedAlarms, clock, alarm, restart, stdin, askedToQuit>>

-----------------------------------------------------------------------------
(* The surroundings: the host's clock, a client's restart and the operator. *)

HostTick ==
    /\ age < g_passengerAlarmPeriodSeconds
    /\ age' = age + 1
    /\ UNCHANGED <<loop, stepBack, values, restart, terminal>>

\* The host's clock is set back.
HostStepBack ==
    /\ stepBack < MaxStepBack
    /\ stepBack' = stepBack + 1
    /\ age' = age - 1
    /\ UNCHANGED <<loop, values, restart, terminal>>

ArmRestart(kind) ==
    /\ restart = "none"
    /\ restart' = kind
    /\ UNCHANGED <<loop, clock, values, terminal>>

Keys == { <<"ESC", "[", "A">>, <<"ESC", "[", "B">>, <<"q">>, <<"h">> }

Press(key) ==
    /\ stdin # "closed" /\ Len(waiting) <= MaxWaiting
    /\ waiting' = waiting \o key
    /\ askedToQuit' = (askedToQuit \/ (key = <<"q">> /\ waiting = <<>>))
    /\ UNCHANGED <<loop, clock, values, restart, stdin, configured, nonblocking>>

Init ==
    /\ phase = "tick" /\ g_simulatedAlarms \in BOOLEAN
    /\ input = 0 /\ alarm = FALSE
    /\ age = 0 /\ stepBack = 0
    /\ told = [input |-> 0, alarm |-> FALSE] /\ replaced = {}
    /\ restart = "none"
    /\ stdin \in {"tty", "pipe", "closed"}
    /\ configured = FALSE /\ nonblocking = FALSE
    /\ waiting = <<>> /\ askedToQuit = FALSE

Loop == Tick \/ PassengerAlarm \/ RestartDevice \/ PollKey

Exited == phase = "exited" /\ UNCHANGED vars

Next ==
    \/ Loop
    \/ phase # "exited" /\ ( \/ HostTick \/ HostStepBack
                             \/ \E kind \in {"warm", "cold"} : ArmRestart(kind)
                             \/ \E key \in Keys : Press(key) )
    \/ Exited

Spec == Init /\ [][Next]_vars

\* The process runs and the host's clock goes on.
FairSpec == Spec /\ WF_vars(Loop) /\ WF_vars(phase # "exited" /\ HostTick)

-----------------------------------------------------------------------------
(***************************************************************************)
(* Properties.                                                             *)
(***************************************************************************)
\* Every variable has its type.
TypeOK ==
    /\ phase \in {"tick", "alarm", "restart", "key", "exited"}
    /\ input \in -MaxNudge..MaxNudge /\ alarm \in BOOLEAN
    /\ age \in -MaxStepBack..g_passengerAlarmPeriodSeconds /\ stepBack \in 0..MaxStepBack
    /\ told \in [input : -MaxNudge..MaxNudge, alarm : BOOLEAN]
    /\ restart \in {"none", "warm", "cold"}
    /\ waiting \in Seq({"ESC", "[", "A", "B", "q", "h"})

Actual == [input |-> input, alarm |-> alarm]

\* "fires one multi-property notification when this changes" (g_analogInput1Value): a
\* value that differs from what subscribers were told was put there by a COLDSTART,
\* the one change nobody is told of, and is told with its next change.
OnlyColdStartIsUntold ==
    /\ TypeOK
    /\ \A property \in {"input", "alarm"} :
          told[property] # Actual[property] => property \in replaced

\* EnableRawInput: no kind of standard input stops the loop, "the device goes deaf
\* while still looking perfectly alive".
KeepsTicking == []<>(phase \in {"tick", "exited"})

\* The alarm goes on flipping however the host's clock was set back meanwhile, a
\* COLDSTART clears the alarm or the loop runs faster or slower than the clock.
AlarmKeepsFlipping ==
    g_simulatedAlarms => []<>(alarm \/ phase = "exited") /\ []<>(~alarm \/ phase = "exited")

\* "q - quit" (PrintInteractiveCommands): a q pressed while no other key waits ends
\* the program, whatever is typed behind it before the loop looks.  (A q behind another
\* key is read together with it and lost.)
QuitIsObeyed == askedToQuit ~> (phase = "exited")
=============================================================================
