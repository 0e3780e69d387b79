-------------------------- MODULE ControllerProofs --------------------------
(***************************************************************************)
(* What COV subscribers of Analog Input 1 and of the passenger alarm know, *)
(* for every period of the alarm, every range of the input and every clock.*)
(***************************************************************************)
EXTENDS Controller, TLAPS

Octet == {"ESC", "[", "A", "B", "q", "h"}
Range == -MaxNudge..MaxNudge

\* TypeOK bounds the alarm's timer below by how far the clock may be set back in
\* all; it stays there because it never falls behind what was taken back so far.
TimerFollowsClock == age >= -stepBack

IInv == OnlyColdStartIsUntold /\ TimerFollowsClock

\* At power-on subscribers know what there is.
LEMMA InitIInv == Init => IInv
<1>. SUFFICES ASSUME Init PROVE IInv
    OBVIOUS
<1>1. TypeOK
    <2>1. alarm \in BOOLEAN /\ told = [input |-> 0, alarm |-> FALSE]
        BY DEF Init
    <2>2. 0 \in -MaxNudge..MaxNudge /\ 0 \in -MaxStepBack..g_passengerAlarmPeriodSeconds /\ 0 \in 0..MaxStepBack
        BY ControllerAssumption
    <2>3. told \in [input : -MaxNudge..MaxNudge, alarm : BOOLEAN]
        BY <2>1, <2>2
    <2>. QED BY <2>1, <2>2, <2>3 DEF Init, TypeOK
<1>2. \A property \in {"input", "alarm"} : told[property] = Actual[property]
    BY DEF Init, Actual
<1>3. TimerFollowsClock
    BY DEF Init, TimerFollowsClock
<1>. QED BY <1>1, <1>2, <1>3 DEF IInv, OnlyColdStartIsUntold

\* BACnetStack_UpdateValue after a change of one property, with the value it has now:
\* about that property subscribers are up to date, about the other nothing changes.
LEMMA UpdateTells ==
    ASSUME IInv, NEW changed \in {"input", "alarm"}, NEW v, UpdateValue(changed, v),
           Actual' = [Actual EXCEPT ![changed] = v]
    PROVE  \A property \in {"input", "alarm"} :
              told'[property] # Actual'[property] => property \in replaced'
<1>1. told \in [input : Range, alarm : BOOLEAN]
    BY DEF IInv, OnlyColdStartIsUntold, TypeOK, Range
<1>2. told' = [told EXCEPT ![changed] = v] /\ replaced' = replaced \ {changed}
    BY DEF UpdateValue
<1>3. SUFFICES ASSUME NEW property \in {"input", "alarm"}, told'[property] # Actual'[property]
               PROVE  property \in replaced'
    OBVIOUS
<1>4. property # changed
    BY <1>1, <1>2, <1>3 DEF Actual
<1>5. told'[property] = told[property] /\ Actual'[property] = Actual[property]
    BY <1>1, <1>2, <1>4 DEF Actual
<1>. QED BY <1>2, <1>3, <1>4, <1>5 DEF IInv, OnlyColdStartIsUntold

\* What is left of the octets at the terminal after a read is octets.
LEMMA WaitingRest ==
    ASSUME NEW w \in Seq(Octet), NEW n \in 0..Len(w)
    PROVE  SubSeq(w, n + 1, Len(w)) \in Seq(Octet)
  OBVIOUS

\* So is every key that is pressed.
LEMMA KeysAreOctets == Keys \subseteq Seq(Octet)
<1>1. "ESC" \in Octet /\ "[" \in Octet /\ "A" \in Octet /\ "B" \in Octet /\ "q" \in Octet /\ "h" \in Octet
    BY DEF Octet
<1>2. <<"ESC", "[", "A">> \in Seq(Octet) /\ <<"ESC", "[", "B">> \in Seq(Octet)
    BY <1>1
<1>3. <<"q">> \in Seq(Octet) /\ <<"h">> \in Seq(Octet)
    BY <1>1
<1>. QED BY <1>2, <1>3 DEF Keys

\* A key nudges the input within its range and tells of it.
LEMMA NudgeKeeps ==
    ASSUME IInv, NEW by \in {1, -1}, Nudge(by), UNCHANGED alarm
    PROVE  /\ input' \in -MaxNudge..MaxNudge
           /\ told' \in [input : -MaxNudge..MaxNudge, alarm : BOOLEAN]
           /\ \A property \in {"input", "alarm"} :
                 told'[property] # Actual'[property] => property \in replaced'
<1>. DEFINE nudged == IF input + by \in -MaxNudge..MaxNudge THEN input + by ELSE input
<1>1. input' = nudged /\ UpdateValue("input", nudged)
    BY DEF Nudge
<1>2. nudged \in -MaxNudge..MaxNudge
    BY DEF IInv, OnlyColdStartIsUntold, TypeOK
<1>. HIDE DEF nudged
<1>3. told' \in [input : -MaxNudge..MaxNudge, alarm : BOOLEAN]
    BY <1>1, <1>2 DEF IInv, OnlyColdStartIsUntold, TypeOK, UpdateValue
<1>4. Actual' = [Actual EXCEPT !["input"] = nudged]
    BY <1>1 DEF Actual
<1>. QED BY <1>1, <1>2, <1>3, <1>4, UpdateTells

\* Every phase of the loop and everything that happens around it keeps it.
LEMMA NextIInv == IInv /\ [Next]_vars => IInv'
<1>. SUFFICES ASSUME IInv, [Next]_vars PROVE IInv'
    OBVIOUS
<1>. DEFINE Untold == \A property \in {"input", "alarm"} :
                         told[property] # Actual[property] => property \in replaced
<1>0. TypeOK /\ Untold /\ TimerFollowsClock
    BY DEF IInv, OnlyColdStartIsUntold
<1>00. SUFFICES TypeOK' /\ Untold' /\ TimerFollowsClock'
    BY DEF IInv, OnlyColdStartIsUntold
<1>1. CASE Tick
    BY <1>0, <1>1 DEF Tick, clock, values, terminal, TypeOK, Actual, TimerFollowsClock
<1>2. CASE PassengerAlarm
    <2>1. CASE g_simulatedAlarms /\ age >= g_passengerAlarmPeriodSeconds
        <3>1. alarm' = ~alarm /\ age' = 0 /\ UpdateValue("alarm", ~alarm) /\ phase' = "restart"
            BY <1>2, <2>1 DEF PassengerAlarm, NoteFlip
        <3>2. UNCHANGED <<input, stepBack, restart, waiting>>
            BY <1>2 DEF PassengerAlarm, terminal
        <3>3. Actual' = [Actual EXCEPT !["alarm"] = ~alarm]
            BY <3>1, <3>2 DEF Actual
        <3>4. Untold'
            BY <3>1, <3>3, UpdateTells
        <3>5. alarm' \in BOOLEAN /\ told' \in [input : -MaxNudge..MaxNudge, alarm : BOOLEAN]
            BY <1>0, <3>1 DEF TypeOK, UpdateValue
        <3>6. age' \in -MaxStepBack..g_passengerAlarmPeriodSeconds /\ TimerFollowsClock'
            BY <1>0, <3>1, <3>2, ControllerAssumption DEF TypeOK, TimerFollowsClock
        <3>. QED BY <1>0, <3>1, <3>2, <3>4, <3>5, <3>6 DEF TypeOK
    <2>2. CASE ~(g_simulatedAlarms /\ age >= g_passengerAlarmPeriodSeconds)
        BY <1>0, <1>2, <2>2 DEF PassengerAlarm, terminal, TypeOK, Actual, TimerFollowsClock
    <2>. QED BY <2>1, <2>2
<1>3. CASE RestartDevice
    <2>1. UNCHANGED <<age, stepBack, told, waiting>> /\ phase' = "key"
        BY <1>3 DEF RestartDevice, clock, terminal
    <2>2. CASE input' = 0 /\ alarm' = FALSE /\ replaced' = {"input", "alarm"} /\ restart' = "none"
        <3>1. input' \in -MaxNudge..MaxNudge
            BY <2>2, ControllerAssumption
        <3>. QED BY <1>0, <2>1, <2>2, <3>1 DEF TypeOK, TimerFollowsClock
    <2>3. CASE UNCHANGED <<input, alarm, replaced>> /\ restart' \in {restart, "none"}
        BY <1>0, <2>1, <2>3 DEF TypeOK, Actual, TimerFollowsClock
    <2>. QED BY <1>3, <2>2, <2>3 DEF RestartDevice
<1>4. CASE PollKey
    <2>. DEFINE n == IF Len(waiting) < 3 THEN Len(waiting) ELSE 3
                command == KeyCommand(SubSeq(waiting, 1, n))
    <2>1. /\ waiting' = SubSeq(waiting, n + 1, Len(waiting))
          /\ phase' = IF command = "Quit" THEN "exited" ELSE "tick"
          /\ CASE command = "ArrowUp" -> Nudge(1)
               [] command = "ArrowDown" -> Nudge(-1)
               [] OTHER -> UNCHANGED <<input, told, replaced>>
        BY <1>4 DEF PollKey
    <2>2. UNCHANGED <<age, stepBack, alarm, restart>>
        BY <1>4 DEF PollKey, clock
    <2>3. waiting' \in Seq(Octet)
        <3>1. waiting \in Seq(Octet) /\ n \in 0..Len(waiting)
            BY <1>0 DEF TypeOK, Octet
        <3>. QED BY <2>1, <3>1, WaitingRest
    <2>4. phase' \in {"exited", "tick"}
        BY <2>1
    <2>. HIDE DEF command
    <2>5. (\E by \in {1, -1} : Nudge(by)) \/ UNCHANGED <<input, told, replaced>>
        BY <2>1
    <2>6. /\ input' \in -MaxNudge..MaxNudge
          /\ told' \in [input : -MaxNudge..MaxNudge, alarm : BOOLEAN]
          /\ Untold'
        <3>1. CASE \E by \in {1, -1} : Nudge(by)
            BY <2>2, <3>1, NudgeKeeps
        <3>2. CASE UNCHANGED <<input, told, replaced>>
            BY <1>0, <2>2, <3>2 DEF TypeOK, Actual
        <3>. QED BY <2>5, <3>1, <3>2
    <2>. QED BY <1>0, <2>2, <2>3, <2>4, <2>6 DEF TypeOK, TimerFollowsClock, Octet
<1>5. CASE HostTick
    <2>1. UNCHANGED <<phase, stepBack, input, alarm, told, replaced, restart, waiting>> /\ age' = age + 1
        BY <1>5 DEF HostTick, loop, values, terminal
    <2>2. age' \in -MaxStepBack..g_passengerAlarmPeriodSeconds /\ TimerFollowsClock'
        BY <1>0, <1>5, <2>1, ControllerAssumption DEF HostTick, TypeOK, TimerFollowsClock
    <2>. QED BY <1>0, <2>1, <2>2 DEF TypeOK, Actual
<1>6. CASE HostStepBack
    <2>1. /\ UNCHANGED <<phase, input, alarm, told, replaced, restart, waiting>>
          /\ age' = age - 1 /\ stepBack' = stepBack + 1 /\ stepBack < MaxStepBack
        BY <1>6 DEF HostStepBack, loop, values, terminal
    <2>2. /\ age' \in -MaxStepBack..g_passengerAlarmPeriodSeconds /\ stepBack' \in 0..MaxStepBack
          /\ TimerFollowsClock'
        BY <1>0, <2>1, ControllerAssumption DEF TypeOK, TimerFollowsClock
    <2>. QED BY <1>0, <2>1, <2>2 DEF TypeOK, Actual
<1>7. CASE \E kind \in {"warm", "cold"} : ArmRestart(kind)
    BY <1>0, <1>7 DEF ArmRestart, loop, clock, values, terminal, TypeOK, Actual, TimerFollowsClock
<1>8. CASE \E key \in Keys : Press(key)
    <2>1. PICK key \in Keys : Press(key)
        BY <1>8
    <2>2. waiting' = waiting \o key /\ key \in Seq(Octet) /\ waiting \in Seq(Octet)
        BY <1>0, <2>1, KeysAreOctets DEF Press, TypeOK, Octet
    <2>3. waiting' \in Seq(Octet)
        BY <2>2
    <2>4. UNCHANGED <<phase, age, stepBack, input, alarm, told, replaced, restart>>
        BY <2>1 DEF Press, loop, clock, values
    <2>. QED BY <1>0, <2>3, <2>4 DEF TypeOK, Actual, TimerFollowsClock, Octet
<1>9. CASE UNCHANGED vars
    BY <1>0, <1>9 DEF vars, loop, clock, values, terminal, TypeOK, Actual, TimerFollowsClock
<1>. QED BY <1>1, <1>2, <1>3, <1>4, <1>5, <1>6, <1>7, <1>8, <1>9 DEF Next, Loop, Exited

\* Whatever is pressed and restarted, and however the clock is set: what differs from
\* what subscribers were told was put there by a COLDSTART.
THEOREM SubscribersAreTold == Spec => []OnlyColdStartIsUntold
<1>1. IInv => OnlyColdStartIsUntold
    BY DEF IInv
<1>. QED BY <1>1, InitIInv, NextIInv, PTL DEF Spec
=============================================================================
