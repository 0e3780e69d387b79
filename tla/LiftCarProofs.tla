--------------------------- MODULE LiftCarProofs ---------------------------
(***************************************************************************)
(* What holds of LiftCar for every shaft, every list length, every timing  *)
(* and every set of writes: its type invariant and the four invariants     *)
(* that make the car safe, which are proved together because they need     *)
(* each other; from them, what a step may never do; and that the car       *)
(* implements LandingCalls.                                                *)
(***************************************************************************)
EXTENDS LiftCar, WellFoundedInduction, FiniteSetTheorems, TLAPS

-----------------------------------------------------------------------------
(***************************************************************************)
(* The list of calls: what LiftCarOpenDoor's compacting loop keeps.        *)
(***************************************************************************)

\* Induction over the naturals, stated for a set.
LEMMA NatSetInduction ==
    ASSUME NEW S, 0 \in S, \A n \in Nat : n \in S => n + 1 \in S
    PROVE  Nat \subseteq S
<1>1. SUFFICES ASSUME Nat \ S # {} PROVE FALSE
    OBVIOUS
<1>. DEFINE T == Nat \ S
<1>2. PICK m \in T : \A y \in T : ~(<<y, m>> \in OpToRel(<, Nat))
    <2>1. T \subseteq Nat /\ T # {}
        BY <1>1
    <2>2. IsWellFoundedOn(OpToRel(<, Nat), Nat)
        BY NatLessThanWellFounded
    <2>. HIDE DEF T
    <2>. QED BY <2>1, <2>2, WFMin
<1>3. m \in Nat /\ m # 0 /\ m \notin S
    OBVIOUS
<1>4. m - 1 \in Nat /\ m - 1 < m /\ (m - 1) + 1 = m
    BY <1>3
<1>5. m - 1 \notin S
    BY <1>3, <1>4
<1>6. <<m - 1, m>> \in OpToRel(<, Nat)
    BY <1>3, <1>4 DEF OpToRel
<1>. QED BY <1>2, <1>4, <1>5, <1>6

\* One turn of the loop, the turns before it being g.
KeptStep(g, s, f, i) ==
    IF i = 0 THEN << >>
    ELSE IF s[i].floor # f THEN Append(g[i-1], s[i])
                           ELSE g[i-1]

\* The loop has a result after every number of turns.
LEMMA KeptExists ==
    ASSUME NEW s \in Seq(LandingCall), NEW f
    PROVE  \E g : g = [i \in 0..Len(s) |-> KeptStep(g, s, f, i)]
<1>. DEFINE S == {n \in Nat : \E g : g = [i \in 0..n |-> KeptStep(g, s, f, i)]}
<1>1. 0 \in S
    <2>. DEFINE g == [i \in 0..0 |-> << >>]
    <2>1. g = [i \in 0..0 |-> KeptStep(g, s, f, i)]
        BY DEF KeptStep
    <2>. HIDE DEF g
    <2>. QED BY <2>1
<1>2. ASSUME NEW n \in Nat, n \in S
      PROVE  n + 1 \in S
    <2>1. PICK g : g = [i \in 0..n |-> KeptStep(g, s, f, i)]
        BY <1>2
    <2>. DEFINE h == [i \in 0..(n+1) |-> IF i = n + 1 THEN KeptStep(g, s, f, i) ELSE g[i]]
    <2>2. \A i \in 0..(n+1) : KeptStep(h, s, f, i) = KeptStep(g, s, f, i)
        <3>1. \A i \in 0..n : h[i] = g[i]
            OBVIOUS
        <3>2. \A i \in 1..(n+1) : i - 1 \in 0..n
            OBVIOUS
        <3>. HIDE DEF h
        <3>. QED BY <3>1, <3>2 DEF KeptStep
    <2>3. \A i \in 0..(n+1) : h[i] = KeptStep(g, s, f, i)
        BY <2>1
    <2>4. h = [i \in 0..(n+1) |-> h[i]]
        OBVIOUS
    <2>. HIDE DEF h
    <2>5. h = [i \in 0..(n+1) |-> KeptStep(h, s, f, i)]
        BY <2>2, <2>3, <2>4
    <2>. QED BY <2>5
<1>. HIDE DEF S
<1>3. Nat \subseteq S
    BY <1>1, <1>2, NatSetInduction
<1>4. Len(s) \in S
    BY <1>3
<1>. QED BY <1>4 DEF S

\* CallsNotAt is what the loop has kept after its last turn.
LEMMA KeptDef ==
    ASSUME NEW s \in Seq(LandingCall), NEW f
    PROVE  \E g : /\ g = [i \in 0..Len(s) |-> KeptStep(g, s, f, i)]
                  /\ CallsNotAt(s, f) = g[Len(s)]
<1>. DEFINE kept == CHOOSE g : g = [i \in 0..Len(s) |-> KeptStep(g, s, f, i)]
<1>1. kept = [i \in 0..Len(s) |-> KeptStep(kept, s, f, i)]
    BY KeptExists
<1>2. CallsNotAt(s, f) = kept[Len(s)]
    BY DEF CallsNotAt, KeptStep
<1>. QED BY <1>1, <1>2

\* No two positions of a list hold the same element.
Distinct(s) == \A i, j \in 1..Len(s) : i # j => s[i] # s[j]

\* Compacting the array (LiftCarOpenDoor) leaves calls of the list only, none of
\* them at floor f, never more than there were, and none of them twice.
LEMMA CallsNotAtFacts ==
    ASSUME NEW s \in Seq(LandingCall), NEW f
    PROVE  /\ CallsNotAt(s, f) \in Seq(LandingCall)
           /\ Len(CallsNotAt(s, f)) <= Len(s)
           /\ \A m \in 1..Len(CallsNotAt(s, f)) :
                 \E j \in 1..Len(s) : s[j] = CallsNotAt(s, f)[m] /\ s[j].floor # f
           /\ Distinct(s) => Distinct(CallsNotAt(s, f))
<1>1. PICK g : /\ g = [i \in 0..Len(s) |-> KeptStep(g, s, f, i)]
               /\ CallsNotAt(s, f) = g[Len(s)]
    BY KeptDef
<1>. DEFINE Good(n) ==
        /\ g[n] \in Seq(LandingCall)
        /\ Len(g[n]) <= n
        /\ \A m \in 1..Len(g[n]) : \E j \in 1..n : s[j] = g[n][m] /\ s[j].floor # f
        /\ Distinct(s) => Distinct(g[n])
     S == {n \in Nat : n <= Len(s) => Good(n)}
<1>2. 0 \in S
    <2>1. g[0] = << >>
        BY <1>1 DEF KeptStep
    <2>2. Good(0)
        <3>1. g[0] \in Seq(LandingCall) /\ Len(g[0]) = 0 /\ 1..Len(g[0]) = {}
            BY <2>1
        <3>. QED BY <3>1 DEF Distinct
    <2>. HIDE DEF Good
    <2>. QED BY <2>2
<1>3. ASSUME NEW n \in Nat, n \in S
      PROVE  n + 1 \in S
    <2>1. SUFFICES ASSUME n + 1 <= Len(s) PROVE Good(n + 1)
        OBVIOUS
    <2>2. Good(n)
        BY <1>3, <2>1
    <2>3. n + 1 \in 1..Len(s) /\ s[n+1] \in LandingCall
        BY <2>1
    <2>4. g[n+1] = IF s[n+1].floor # f THEN Append(g[n], s[n+1]) ELSE g[n]
        <3>1. n + 1 \in 0..Len(s) /\ n + 1 # 0 /\ (n + 1) - 1 = n
            BY <2>1
        <3>2. g[n+1] = KeptStep(g, s, f, n+1)
            BY <1>1, <3>1
        <3>. QED BY <3>1, <3>2 DEF KeptStep
    <2>5. CASE s[n+1].floor = f
        BY <2>2, <2>4, <2>5
    <2>6. CASE s[n+1].floor # f
        <3>1. g[n+1] = Append(g[n], s[n+1])
            BY <2>4, <2>6
        <3>2. /\ g[n+1] \in Seq(LandingCall)
              /\ Len(g[n+1]) = Len(g[n]) + 1
              /\ \A m \in 1..Len(g[n]) : g[n+1][m] = g[n][m]
              /\ g[n+1][Len(g[n]) + 1] = s[n+1]
            BY <2>2, <2>3, <3>1
        <3>3. \A m \in 1..Len(g[n+1]) : \E j \in 1..(n+1) : s[j] = g[n+1][m] /\ s[j].floor # f
            <4>1. SUFFICES ASSUME NEW m \in 1..Len(g[n+1])
                           PROVE  \E j \in 1..(n+1) : s[j] = g[n+1][m] /\ s[j].floor # f
                OBVIOUS
            <4>2. CASE m \in 1..Len(g[n])
                <5>1. PICK j \in 1..n : s[j] = g[n][m] /\ s[j].floor # f
                    BY <2>2, <4>2
                <5>2. j \in 1..(n+1) /\ g[n+1][m] = g[n][m]
                    BY <3>2, <4>2
                <5>. QED BY <5>1, <5>2
            <4>3. CASE m = Len(g[n]) + 1
                <5>1. n + 1 \in 1..(n+1) /\ s[n+1] = g[n+1][m]
                    BY <3>2, <4>3
                <5>. QED BY <2>6, <5>1
            <4>4. Len(g[n]) \in Nat
                BY <2>2
            <4>. QED BY <3>2, <4>2, <4>3, <4>4
        <3>4. Distinct(s) => Distinct(g[n+1])
            <4>1. SUFFICES ASSUME Distinct(s), NEW a \in 1..Len(g[n+1]), NEW b \in 1..Len(g[n+1]), a < b
                           PROVE  g[n+1][a] # g[n+1][b]
                BY <3>2 DEF Distinct
            <4>2. a \in 1..Len(g[n]) /\ (b \in 1..Len(g[n]) \/ b = Len(g[n]) + 1)
                <5>1. Len(g[n]) \in Nat /\ Len(g[n+1]) = Len(g[n]) + 1
                    BY <2>2, <3>2
                <5>. QED BY <4>1, <5>1
            <4>3. CASE b \in 1..Len(g[n])
                BY <2>2, <3>2, <4>1, <4>2, <4>3 DEF Distinct
            <4>4. CASE b = Len(g[n]) + 1
                <5>1. PICK j \in 1..n : s[j] = g[n][a]
                    BY <2>2, <4>2
                <5>2. s[j] # s[n+1]
                    BY <2>3, <4>1 DEF Distinct
                <5>. QED BY <3>2, <4>2, <4>4, <5>1, <5>2
            <4>. QED BY <4>2, <4>3, <4>4
        <3>. QED BY <2>2, <3>2, <3>3, <3>4
    <2>. QED BY <2>5, <2>6
<1>. HIDE DEF S
<1>4. Len(s) \in S
    BY <1>2, <1>3, NatSetInduction
<1>5. Good(Len(s))
    BY <1>4 DEF S
<1>. QED BY <1>1, <1>5

\* It keeps every other call, and their order.
LEMMA CallsNotAtKeeps ==
    ASSUME NEW s \in Seq(LandingCall), NEW f
    PROVE  /\ \A j \in 1..Len(s) : s[j].floor # f =>
                 \E m \in 1..Len(CallsNotAt(s, f)) : CallsNotAt(s, f)[m] = s[j]
           /\ \A a, b \in 1..Len(CallsNotAt(s, f)) : a < b =>
                 \E i, j \in 1..Len(s) : i < j /\ s[i] = CallsNotAt(s, f)[a] /\ s[j] = CallsNotAt(s, f)[b]
<1>1. PICK g : /\ g = [i \in 0..Len(s) |-> KeptStep(g, s, f, i)]
               /\ CallsNotAt(s, f) = g[Len(s)]
    BY KeptDef
<1>. DEFINE Good(n) ==
        /\ g[n] \in Seq(LandingCall)
        /\ \A m \in 1..Len(g[n]) : \E j \in 1..n : s[j] = g[n][m]
        /\ \A j \in 1..n : s[j].floor # f => \E m \in 1..Len(g[n]) : g[n][m] = s[j]
        /\ \A a, b \in 1..Len(g[n]) : a < b =>
              \E i, j \in 1..n : i < j /\ s[i] = g[n][a] /\ s[j] = g[n][b]
     S == {n \in Nat : n <= Len(s) => Good(n)}
<1>2. 0 \in S
    <2>1. g[0] = << >>
        BY <1>1 DEF KeptStep
    <2>2. Good(0)
        <3>1. g[0] \in Seq(LandingCall) /\ 1..Len(g[0]) = {} /\ 1..0 = {}
            BY <2>1
        <3>. QED BY <3>1
    <2>. HIDE DEF Good
    <2>. QED BY <2>2
<1>3. ASSUME NEW n \in Nat, n \in S
      PROVE  n + 1 \in S
    <2>1. SUFFICES ASSUME n + 1 <= Len(s) PROVE Good(n + 1)
        <3>. HIDE DEF Good
        <3>. QED OBVIOUS
    <2>2. Good(n)
        BY <1>3, <2>1
    <2>3. n + 1 \in 1..Len(s) /\ s[n+1] \in LandingCall /\ 1..(n+1) = 1..n \cup {n+1} /\ Len(g[n]) \in Nat
        BY <2>1, <2>2
    <2>4. g[n+1] = IF s[n+1].floor # f THEN Append(g[n], s[n+1]) ELSE g[n]
        <3>1. n + 1 \in 0..Len(s) /\ n + 1 # 0 /\ (n + 1) - 1 = n
            BY <2>1
        <3>2. g[n+1] = KeptStep(g, s, f, n+1)
            BY <1>1, <3>1
        <3>. QED BY <3>1, <3>2 DEF KeptStep
    <2>5. CASE s[n+1].floor = f
        <3>1. g[n+1] = g[n]
            BY <2>4, <2>5
        <3>. QED BY <2>2, <2>3, <2>5, <3>1
    <2>6. CASE s[n+1].floor # f
        <3>1. g[n+1] = Append(g[n], s[n+1])
            BY <2>4, <2>6
        <3>2. /\ g[n+1] \in Seq(LandingCall)
              /\ Len(g[n+1]) = Len(g[n]) + 1
              /\ 1..Len(g[n+1]) = 1..Len(g[n]) \cup {Len(g[n]) + 1}
              /\ \A m \in 1..Len(g[n]) : g[n+1][m] = g[n][m]
              /\ g[n+1][Len(g[n]) + 1] = s[n+1]
            BY <2>2, <2>3, <3>1
        <3>3. ASSUME NEW m \in 1..Len(g[n+1])
              PROVE  \E j \in 1..(n+1) : s[j] = g[n+1][m]
            <4>1. CASE m \in 1..Len(g[n])
                <5>1. PICK j \in 1..n : s[j] = g[n][m]
                    BY <2>2, <4>1
                <5>. QED BY <2>3, <3>2, <4>1, <5>1
            <4>2. CASE m = Len(g[n]) + 1
                BY <2>3, <3>2, <4>2
            <4>. QED BY <3>2, <4>1, <4>2
        <3>4. \A j \in 1..(n+1) : s[j].floor # f => \E m \in 1..Len(g[n+1]) : g[n+1][m] = s[j]
            BY <2>2, <2>3, <3>2
        <3>5. ASSUME NEW a \in 1..Len(g[n+1]), NEW b \in 1..Len(g[n+1]), a < b
              PROVE  \E i, j \in 1..(n+1) : i < j /\ s[i] = g[n+1][a] /\ s[j] = g[n+1][b]
            <4>1. a \in 1..Len(g[n]) /\ (b \in 1..Len(g[n]) \/ b = Len(g[n]) + 1)
                BY <2>3, <3>2, <3>5
            <4>2. CASE b \in 1..Len(g[n])
                <5>1. PICK i \in 1..n, j \in 1..n : i < j /\ s[i] = g[n][a] /\ s[j] = g[n][b]
                    BY <2>2, <3>5, <4>1, <4>2
                <5>. QED BY <2>3, <3>2, <4>1, <4>2, <5>1
            <4>3. CASE b = Len(g[n]) + 1
                <5>1. PICK i \in 1..n : s[i] = g[n][a]
                    BY <2>2, <4>1
                <5>2. i < n + 1 /\ i \in 1..(n+1) /\ n + 1 \in 1..(n+1)
                    OBVIOUS
                <5>. QED BY <3>2, <4>1, <4>3, <5>1, <5>2
            <4>. QED BY <4>1, <4>2, <4>3
        <3>. QED BY <3>2, <3>3, <3>4, <3>5
    <2>. QED BY <2>5, <2>6
<1>. HIDE DEF S
<1>4. Len(s) \in S
    BY <1>2, <1>3, NatSetInduction
<1>5. Good(Len(s))
    BY <1>4 DEF S
<1>. DEFINE r == g[Len(s)]
<1>6. \A j \in 1..Len(s) : s[j].floor # f => \E m \in 1..Len(r) : r[m] = s[j]
    BY <1>5
<1>7. \A a, b \in 1..Len(r) : a < b => \E i, j \in 1..Len(s) : i < j /\ s[i] = r[a] /\ s[j] = r[b]
    BY <1>5
<1>8. CallsNotAt(s, f) = r
    BY <1>1
<1>. HIDE DEF r, Good
<1>. QED BY <1>6, <1>7, <1>8

-----------------------------------------------------------------------------
(***************************************************************************)
(* The inductive invariant.                                                *)
(***************************************************************************)
IInv ==
    /\ TypeOK
    /\ InShaft
    /\ HeadsForOldestCall
    /\ DoorInterlock
    /\ OneCallPerButton

\* The type of what COV subscribers are told.
Report == [position : 0..255, movingDirection : {"STOPPED", "UP", "DOWN"},
           doorStatus : {"OPENED", "CLOSED"}]

\* A car at power-on satisfies it.
LEMMA InitIInv == Init => IInv
<1>. SUFFICES ASSUME Init PROVE IInv
    OBVIOUS
<1>. USE DEF Init
<1>1. TypeOK
    BY FloorAssumption DEF TypeOK, Floors, Reportable
<1>2. InShaft
    BY FloorAssumption DEF InShaft, Floors
<1>3. HeadsForOldestCall /\ DoorInterlock
    BY DEF HeadsForOldestCall, DoorInterlock
<1>4. OneCallPerButton
    BY CallAssumption DEF OneCallPerButton
<1>. QED BY <1>1, <1>2, <1>3, <1>4 DEF IInv

\* A write that passes the checks of SetElevatorGroupLandingCallControl is a call.
LEMMA ValidCall ==
    ASSUME NEW ctl \in Controls, ValidControl(ctl)
    PROVE  CallOf(ctl) \in LandingCall
BY CallAssumption DEF ControlType, ValidControl, CallOf, CallDirection, LandingCall

\* SetElevatorGroupLandingCallControl appends behind the oldest call.
LEMMA WriteIInv ==
    ASSUME IInv, NEW ctl \in Controls, SetElevatorGroupLandingCallControl(ctl)
    PROVE  IInv'
<1>. USE DEF IInv, SetElevatorGroupLandingCallControl, car
<1>1. CASE UNCHANGED calls
    BY <1>1 DEF TypeOK, InShaft, HeadsForOldestCall, DoorInterlock, OneCallPerButton, LandingCall, Floors
<1>2. CASE /\ ~AlreadyCalled(CallOf(ctl))
           /\ Len(calls) < MaxLandingCalls
           /\ calls' = Append(calls, CallOf(ctl))
    <2>1. CallOf(ctl) \in LandingCall
        BY ValidCall
    <2>2. /\ calls \in Seq(LandingCall)
          /\ calls' \in Seq(LandingCall)
          /\ Len(calls') = Len(calls) + 1
          /\ \A i \in 1..Len(calls) : calls'[i] = calls[i]
          /\ calls'[Len(calls) + 1] = CallOf(ctl)
        BY <1>2, <2>1 DEF TypeOK
    <2>3. TypeOK'
        BY <2>2 DEF TypeOK
    <2>4. InShaft' /\ DoorInterlock'
        BY DEF InShaft, DoorInterlock, Floors
    <2>5. HeadsForOldestCall'
        <3>1. calls # << >> => calls' # << >> /\ calls'[1] = calls[1]
            BY <2>2
        <3>. QED BY <3>1 DEF HeadsForOldestCall
    <2>6. OneCallPerButton'
        <3>1. Len(calls') <= MaxLandingCalls
            BY <1>2, <2>2, CallAssumption
        <3>2. ASSUME NEW i \in 1..Len(calls'), NEW j \in 1..Len(calls'), i < j
              PROVE  calls'[i] # calls'[j]
            <4>1. i \in 1..Len(calls) /\ (j \in 1..Len(calls) \/ j = Len(calls) + 1)
                BY <2>2, <3>2
            <4>2. CASE j \in 1..Len(calls)
                BY <2>2, <3>2, <4>1, <4>2 DEF OneCallPerButton
            <4>3. CASE j = Len(calls) + 1
                <5>1. calls[i] # CallOf(ctl)
                    BY <1>2, <4>1 DEF AlreadyCalled
                <5>. QED BY <2>2, <4>1, <4>3, <5>1
            <4>. QED BY <4>1, <4>2, <4>3
        <3>. QED BY <2>2, <3>1, <3>2 DEF OneCallPerButton
    <2>. QED BY <2>3, <2>4, <2>5, <2>6
<1>. QED BY <1>1, <1>2

\* LiftCarOpenDoor, on whatever floor of the shaft the car opens.
LEMMA OpenDoorIInv ==
    ASSUME IInv, NEW told, LiftCarOpenDoor(position', told), position' \in Floors,
           told \in Report,
           UNCHANGED lastControl
    PROVE  IInv'
<1>. USE DEF LiftCarOpenDoor
<1>1. calls \in Seq(LandingCall)
    BY DEF IInv, TypeOK
<1>2. /\ calls' \in Seq(LandingCall)
      /\ Len(calls') <= Len(calls)
      /\ Distinct(calls) => Distinct(calls')
    BY <1>1, CallsNotAtFacts
<1>3. TypeOK'
    <2>1. remaining' \in Int
        BY TimeAssumption
    <2>2. position' \in 0..255
        BY FloorAssumption DEF Floors
    <2>3. reported' \in Report
        BY DEF Report
    <2>. QED BY <1>2, <2>1, <2>2, <2>3 DEF IInv, TypeOK, Report
<1>4. InShaft' /\ HeadsForOldestCall' /\ DoorInterlock'
    BY DEF InShaft, HeadsForOldestCall, DoorInterlock, Floors
<1>5. OneCallPerButton'
    BY <1>1, <1>2, CallAssumption DEF IInv, OneCallPerButton, Distinct
<1>. QED BY <1>3, <1>4, <1>5 DEF IInv

\* LiftCarTick's Moving branch has no bounds check: the next floor is in the shaft
\* because the oldest call is, and is still ahead of the car.
LEMMA NextFloorInShaft ==
    ASSUME IInv, phase = "Moving"
    PROVE  NextFloor \in Floors
<1>1. calls[1].floor \in Floors
    <2>1. calls \in Seq(LandingCall) /\ calls # << >>
        BY DEF IInv, TypeOK, HeadsForOldestCall
    <2>2. calls[1] \in LandingCall
        BY <2>1
    <2>. QED BY <2>2 DEF LandingCall
<1>2. position \in Floors
    BY DEF IInv, InShaft
<1>3. CASE movingDirection = "UP"
    <2>1. position + 1 \in Floors
        BY <1>1, <1>2, <1>3, FloorAssumption DEF IInv, HeadsForOldestCall, Floors
    <2>. QED BY <1>3, <2>1, FloorAssumption DEF NextFloor, Floors
<1>4. CASE movingDirection = "DOWN"
    <2>1. position - 1 \in Floors
        BY <1>1, <1>2, <1>4, FloorAssumption DEF IInv, HeadsForOldestCall, Floors
    <2>. QED BY <1>4, <2>1, FloorAssumption DEF NextFloor, Floors
<1>. QED BY <1>3, <1>4 DEF IInv, TypeOK, HeadsForOldestCall

\* Every branch of LiftCarTick.
LEMMA TickIInv == ASSUME IInv, LiftCarTick PROVE IInv'
<1>1. CASE OpenWhereStanding
    <2>1. LiftCarOpenDoor(position', reported) /\ position' \in Floors
        BY <1>1 DEF OpenWhereStanding, IInv, InShaft
    <2>2. UNCHANGED lastControl
        BY <1>1 DEF OpenWhereStanding
    <2>3. reported \in Report
        BY DEF IInv, TypeOK, Report
    <2>. QED BY <2>1, <2>2, <2>3, OpenDoorIInv
<1>2. CASE LeaveForOldestCall
    <2>. USE <1>2 DEF LeaveForOldestCall
    <2>1. calls \in Seq(LandingCall) /\ calls # << >> /\ calls[1] \in LandingCall
        BY DEF IInv, TypeOK
    <2>2. calls[1].floor # position
        BY <2>1 DEF LiftCarHasCallAt
    <2>3. calls[1].floor \in Int /\ position \in Int
        <3>1. calls[1].floor \in Floors /\ position \in Floors
            BY <2>1 DEF LandingCall, IInv, InShaft
        <3>. QED BY <3>1, FloorAssumption DEF Floors
    <2>4. TypeOK'
        <3>1. movingDirection' \in {"STOPPED", "UP", "DOWN"} /\ remaining' \in Int
            BY TimeAssumption
        <3>2. reported' \in Report
            BY <3>1 DEF IInv, TypeOK, Report
        <3>. QED BY <3>1, <3>2 DEF IInv, TypeOK, Report
    <2>5. InShaft' /\ OneCallPerButton'
        BY DEF IInv, InShaft, OneCallPerButton, Floors
    <2>6. HeadsForOldestCall'
        BY <2>1, <2>2, <2>3 DEF HeadsForOldestCall
    <2>7. DoorInterlock'
        BY DEF IInv, DoorInterlock
    <2>. QED BY <2>4, <2>5, <2>6, <2>7 DEF IInv
<1>3. CASE ReachNextFloor
    <2>1. position' = NextFloor /\ NextFloor \in Floors /\ UNCHANGED lastControl
        BY <1>3, NextFloorInShaft DEF ReachNextFloor
    <2>. DEFINE told == [reported EXCEPT !.position = NextFloor]
    <2>2. told \in Report
        <3>1. NextFloor \in 0..255
            BY <2>1, FloorAssumption DEF Floors
        <3>2. reported \in Report
            BY DEF IInv, TypeOK, Report
        <3>. HIDE DEF NextFloor
        <3>. QED BY <3>1, <3>2 DEF Report
    <2>3. CASE LiftCarOpenDoor(NextFloor, told)
        BY <2>1, <2>2, <2>3, OpenDoorIInv
    <2>4. CASE /\ ~LiftCarHasCallAt(NextFloor)
               /\ remaining' = remaining + TimePerFloor
               /\ reported' = told
               /\ UNCHANGED <<movingDirection, doorStatus, phase, calls>>
        <3>1. TypeOK'
            <4>1. position' \in 0..255
                BY <2>1, FloorAssumption DEF Floors
            <4>2. remaining' \in Int
                BY <2>4, TimeAssumption DEF IInv, TypeOK
            <4>3. reported' \in Report
                BY <2>2, <2>4
            <4>. HIDE DEF told
            <4>. QED BY <2>1, <2>4, <4>1, <4>2, <4>3 DEF IInv, TypeOK, Report
        <3>2. InShaft' /\ OneCallPerButton' /\ DoorInterlock'
            BY <2>1, <2>4 DEF IInv, InShaft, OneCallPerButton, DoorInterlock, Floors
        <3>3. HeadsForOldestCall'
            <4>1. calls \in Seq(LandingCall) /\ calls # << >> /\ calls[1] \in LandingCall
                BY <1>3 DEF ReachNextFloor, IInv, TypeOK, HeadsForOldestCall
            <4>2. calls[1].floor # NextFloor
                BY <2>4, <4>1 DEF LiftCarHasCallAt
            <4>3. /\ position \in Floors /\ calls[1].floor \in Floors
                  /\ NextFloor \in Floors
                BY <2>1, <4>1 DEF IInv, InShaft, LandingCall
            <4>4. CASE movingDirection = "UP"
                <5>1. calls[1].floor > position
                    BY <1>3, <4>4 DEF ReachNextFloor, IInv, HeadsForOldestCall
                <5>2. NextFloor = position + 1
                    BY <4>3, <4>4, FloorAssumption, <5>1 DEF NextFloor, Floors
                <5>. QED BY <2>1, <2>4, <4>1, <4>2, <4>3, <4>4, <5>1, <5>2, FloorAssumption
                         DEF HeadsForOldestCall, Floors
            <4>5. CASE movingDirection = "DOWN"
                <5>1. calls[1].floor < position
                    BY <1>3, <4>5 DEF ReachNextFloor, IInv, HeadsForOldestCall
                <5>2. NextFloor = position - 1
                    BY <4>3, <4>5, FloorAssumption, <5>1 DEF NextFloor, Floors
                <5>. QED BY <2>1, <2>4, <4>1, <4>2, <4>3, <4>5, <5>1, <5>2, FloorAssumption
                         DEF HeadsForOldestCall, Floors
            <4>6. movingDirection \in {"UP", "DOWN"}
                BY <1>3 DEF ReachNextFloor, IInv, TypeOK, HeadsForOldestCall
            <4>. QED BY <4>4, <4>5, <4>6
        <3>. QED BY <3>1, <3>2, <3>3 DEF IInv
    <2>. QED BY <1>3, <2>3, <2>4 DEF ReachNextFloor
<1>4. CASE CloseDoor
    <2>. USE <1>4 DEF CloseDoor
    <2>1. TypeOK'
        BY DEF IInv, TypeOK
    <2>2. InShaft' /\ HeadsForOldestCall' /\ DoorInterlock' /\ OneCallPerButton'
        BY DEF IInv, InShaft, HeadsForOldestCall, DoorInterlock, OneCallPerButton, Floors
    <2>. QED BY <2>1, <2>2 DEF IInv
<1>. QED BY <1>1, <1>2, <1>3, <1>4 DEF LiftCarTick

\* Every step, the passing of time and a COLDSTART included.
LEMMA NextIInv == IInv /\ [Next]_vars => IInv'
<1>. SUFFICES ASSUME IInv, [Next]_vars PROVE IInv'
    OBVIOUS
<1>1. ASSUME NEW ctl \in Controls, SetElevatorGroupLandingCallControl(ctl) PROVE IInv'
    BY <1>1, WriteIInv
<1>2. CASE LiftCarTick
    BY <1>2, TickIInv
<1>3. CASE ColdStart
    <2>. USE <1>3 DEF ColdStart
    <2>1. TypeOK'
        BY FloorAssumption DEF IInv, TypeOK, Floors
    <2>2. InShaft'
        BY FloorAssumption DEF InShaft, Floors
    <2>3. HeadsForOldestCall' /\ DoorInterlock'
        BY DEF HeadsForOldestCall, DoorInterlock
    <2>4. OneCallPerButton'
        BY CallAssumption DEF OneCallPerButton
    <2>. QED BY <2>1, <2>2, <2>3, <2>4 DEF IInv
<1>4. CASE Elapse
    <2>. USE <1>4 DEF Elapse
    <2>1. TypeOK'
        BY DEF IInv, TypeOK
    <2>2. InShaft' /\ HeadsForOldestCall' /\ DoorInterlock' /\ OneCallPerButton'
        BY DEF IInv, InShaft, HeadsForOldestCall, DoorInterlock, OneCallPerButton, Floors
    <2>. QED BY <2>1, <2>2 DEF IInv
<1>5. CASE UNCHANGED vars
    BY <1>5 DEF vars, car, IInv, TypeOK, InShaft, HeadsForOldestCall, DoorInterlock,
                OneCallPerButton, LandingCall, Floors
<1>. QED BY <1>1, <1>2, <1>3, <1>4, <1>5 DEF Next

\* So it holds throughout.
LEMMA SpecIInv == Spec => []IInv
BY InitIInv, NextIInv, PTL DEF Spec

-----------------------------------------------------------------------------
(***************************************************************************)
(* The theorems.                                                           *)
(***************************************************************************)

\* The variables of the car simulation keep their types, whatever is written.
THEOREM TypeCorrect == Spec => []TypeOK
<1>1. IInv => TypeOK
    BY DEF IInv
<1>. QED BY <1>1, SpecIInv, PTL

\* The car never leaves the shaft, although LiftCarTick steps it without a check.
THEOREM CarStaysInShaft == Spec => []InShaft
<1>1. IInv => InShaft
    BY DEF IInv
<1>. QED BY <1>1, SpecIInv, PTL

\* A moving car has its oldest call ahead of it.
THEOREM CarHeadsForOldestCall == Spec => []HeadsForOldestCall
<1>1. IInv => HeadsForOldestCall
    BY DEF IInv
<1>. QED BY <1>1, SpecIInv, PTL

\* The door is open only in phase DoorOpen, a direction is shown only in phase
\* Moving.
THEOREM CarDoorInterlock == Spec => []DoorInterlock
<1>1. IInv => DoorInterlock
    BY DEF IInv
<1>. QED BY <1>1, SpecIInv, PTL

\* The list of landing calls has no duplicates and never overruns its array.
THEOREM ListHasOneCallPerButton == Spec => []OneCallPerButton
<1>1. IInv => OneCallPerButton
    BY DEF IInv
<1>. QED BY <1>1, SpecIInv, PTL

-----------------------------------------------------------------------------
(***************************************************************************)
(* What a step may never do.                                               *)
(***************************************************************************)
\* A step of the car's simulation that opens the door, and what it does to the list.
LEMMA DoorOpens ==
    ASSUME IInv, NEW told, LiftCarOpenDoor(position', told)
    PROVE  /\ calls \in Seq(LandingCall) /\ calls' \in Seq(LandingCall)
           /\ \A m \in 1..Len(calls') :
                 \E j \in 1..Len(calls) : calls[j] = calls'[m] /\ calls[j].floor # position'
           /\ \A j \in 1..Len(calls) : calls[j].floor # position' => \E m \in 1..Len(calls') : calls'[m] = calls[j]
           /\ \A a, b \in 1..Len(calls') : a < b =>
                 \E i, j \in 1..Len(calls) : i < j /\ calls[i] = calls'[a] /\ calls[j] = calls'[b]
<1>1. calls \in Seq(LandingCall) /\ calls' = CallsNotAt(calls, position')
    BY DEF IInv, TypeOK, LiftCarOpenDoor
<1>2. calls' \in Seq(LandingCall)
    BY <1>1, CallsNotAtFacts
<1>. DEFINE r == CallsNotAt(calls, position')
<1>3. \A m \in 1..Len(r) : \E j \in 1..Len(calls) : calls[j] = r[m] /\ calls[j].floor # position'
    <2>1. calls \in Seq(LandingCall)
        BY <1>1
    <2>. QED BY <2>1, CallsNotAtFacts
<1>4. /\ \A j \in 1..Len(calls) : calls[j].floor # position' => \E m \in 1..Len(r) : r[m] = calls[j]
      /\ \A a, b \in 1..Len(r) : a < b =>
            \E i, j \in 1..Len(calls) : i < j /\ calls[i] = r[a] /\ calls[j] = r[b]
    <2>1. calls \in Seq(LandingCall)
        BY <1>1
    <2>. QED BY <2>1, CallsNotAtKeeps
<1>5. calls' = r
    BY <1>1
<1>. HIDE DEF r
<1>6. /\ \A j \in 1..Len(calls) : calls[j].floor # position' => \E m \in 1..Len(calls') : calls'[m] = calls[j]
      /\ \A a, b \in 1..Len(calls') : a < b =>
            \E i, j \in 1..Len(calls) : i < j /\ calls[i] = calls'[a] /\ calls[j] = calls'[b]
    BY ONLY <1>4, <1>5
<1>7. \A m \in 1..Len(calls') :
         \E j \in 1..Len(calls) : calls[j] = calls'[m] /\ calls[j].floor # position'
    BY ONLY <1>3, <1>5
<1>. QED BY <1>1, <1>2, <1>6, <1>7

\* What a step does to the list: the door opens and answers a floor, the list is
\* emptied by a COLDSTART, a call is appended, or nothing.
LEMMA ListSteps ==
    ASSUME IInv, [Next]_vars
    PROVE  \/ \E told : LiftCarOpenDoor(position', told)
           \/ ColdStart
           \/ \E ctl \in Controls : calls' = Append(calls, CallOf(ctl)) /\ ValidControl(ctl)
           \/ UNCHANGED calls
<1>1. CASE OpenWhereStanding
    <2>1. LiftCarOpenDoor(position', reported)
        BY <1>1 DEF OpenWhereStanding
    <2>. QED BY <2>1
<1>2. CASE ReachNextFloor
    <2>1. position' = NextFloor
        BY <1>2 DEF ReachNextFloor
    <2>2. LiftCarOpenDoor(NextFloor, [reported EXCEPT !.position = NextFloor]) \/ UNCHANGED calls
        BY <1>2 DEF ReachNextFloor
    <2>. QED BY <2>1, <2>2
<1>3. CASE \E ctl \in Controls : SetElevatorGroupLandingCallControl(ctl)
    BY <1>3 DEF SetElevatorGroupLandingCallControl
<1>4. CASE LeaveForOldestCall \/ CloseDoor \/ Elapse \/ UNCHANGED vars
    BY <1>4 DEF LeaveForOldestCall, CloseDoor, Elapse, vars
<1>. QED BY <1>1, <1>2, <1>3, <1>4 DEF Next, LiftCarTick

\* No call overtakes another while both wait.
THEOREM CallsKeepTheirOrder == Spec => ArrivalOrderKept
<1>. DEFINE Kept == \A i, j \in 1..Len(calls) :
             (i < j /\ (\E m, n \in 1..Len(calls') : calls'[m] = calls[i] /\ calls'[n] = calls[j]))
                => Before(calls', calls[i], calls[j])
<1>1. ASSUME IInv, [Next]_vars PROVE Kept
    <2>0. calls \in Seq(LandingCall) /\ Distinct(calls) /\ Len(calls) \in Nat
        BY <1>1 DEF IInv, TypeOK, OneCallPerButton, Distinct
    <2>. SUFFICES ASSUME NEW i \in 1..Len(calls), NEW j \in 1..Len(calls), i < j,
                         NEW m \in 1..Len(calls'), NEW n \in 1..Len(calls'),
                         calls'[m] = calls[i], calls'[n] = calls[j]
                  PROVE  Before(calls', calls[i], calls[j])
        OBVIOUS
    <2>1. CASE \E told : LiftCarOpenDoor(position', told)
        <3>0. calls' \in Seq(LandingCall)
            BY <1>1, <2>1, DoorOpens
        <3>1. m # n
            BY <2>0 DEF Distinct
        <3>2. ~(n < m)
            <4>. SUFFICES ASSUME n < m PROVE FALSE
                OBVIOUS
            <4>1. PICK k \in 1..Len(calls), l \in 1..Len(calls) : k < l /\ calls[k] = calls'[n] /\ calls[l] = calls'[m]
                BY <1>1, <2>1, DoorOpens
            <4>2. k = j /\ l = i
                BY <2>0, <4>1 DEF Distinct
            <4>. QED BY <2>0, <4>1, <4>2
        <3>3. m < n
            BY <3>0, <3>1, <3>2
        <3>. QED BY <3>3 DEF Before
    <2>2. CASE ColdStart
        BY <2>2 DEF ColdStart
    <2>3. CASE \E ctl \in Controls : calls' = Append(calls, CallOf(ctl)) /\ ValidControl(ctl)
        <3>1. PICK ctl \in Controls : calls' = Append(calls, CallOf(ctl)) /\ CallOf(ctl) \in LandingCall
            BY <2>3, ValidCall
        <3>2. Len(calls') = Len(calls) + 1 /\ calls'[i] = calls[i] /\ calls'[j] = calls[j]
            BY <2>0, <3>1
        <3>3. i \in 1..Len(calls') /\ j \in 1..Len(calls')
            BY <2>0, <3>2
        <3>. QED BY <3>2, <3>3 DEF Before
    <2>4. CASE UNCHANGED calls
        BY <2>4 DEF Before
    <2>. QED BY <1>1, <2>1, <2>2, <2>3, <2>4, ListSteps
<1>2. IInv /\ [Next]_vars => [Kept]_vars
    BY <1>1
<1>. HIDE DEF Kept
<1>3. Spec => [][Kept]_vars
    BY <1>2, SpecIInv, PTL DEF Spec
<1>. QED BY <1>3 DEF ArrivalOrderKept, Kept

\* Only LiftCarTick's Moving branch and a COLDSTART move the car.
LEMMA CarMoves ==
    ASSUME IInv, [Next]_vars, position' # position, ~ColdStart
    PROVE  ReachNextFloor
BY DEF Next, LiftCarTick, SetElevatorGroupLandingCallControl, OpenWhereStanding, LeaveForOldestCall,
       CloseDoor, Elapse, car, vars

\* The car goes floor by floor behind a closed door and passes nobody by.
THEOREM CarPassesNobodyBy == Spec => StopsOnTheWay
<1>. DEFINE Stops == (position' # position /\ ~ColdStart) =>
         /\ Distance(position, position') = 1
         /\ doorStatus = "CLOSED"
         /\ LiftCarHasCallAt(position') =>
               /\ doorStatus' = "OPENED"
               /\ \A i \in 1..Len(calls') : calls'[i].floor # position'
<1>1. ASSUME IInv, [Next]_vars, position' # position, ~ColdStart
      PROVE  /\ Distance(position, position') = 1
             /\ doorStatus = "CLOSED"
             /\ LiftCarHasCallAt(position') =>
                   /\ doorStatus' = "OPENED"
                   /\ \A i \in 1..Len(calls') : calls'[i].floor # position'
    <2>1. ReachNextFloor
        BY <1>1, CarMoves
    <2>2. phase = "Moving" /\ position' = NextFloor
        BY <2>1 DEF ReachNextFloor
    <2>3. doorStatus = "CLOSED"
        BY <1>1, <2>2 DEF IInv, TypeOK, DoorInterlock
    <2>4. Distance(position, position') = 1
        <3>1. position \in Floors /\ NextFloor \in Floors
            BY <1>1, <2>2, NextFloorInShaft DEF IInv, InShaft
        <3>2. NextFloor = position + 1 \/ NextFloor = position - 1
            BY <3>1, FloorAssumption DEF NextFloor, Floors
        <3>. HIDE DEF NextFloor
        <3>. QED BY <2>2, <3>1, <3>2, FloorAssumption DEF Distance, Floors
    <2>5. ASSUME LiftCarHasCallAt(position')
          PROVE  /\ doorStatus' = "OPENED"
                 /\ \A i \in 1..Len(calls') : calls'[i].floor # position'
        <3>1. LiftCarHasCallAt(NextFloor)
            BY <2>2, <2>5 DEF LiftCarHasCallAt
        <3>2. PICK told : LiftCarOpenDoor(position', told)
            BY <2>1, <2>2, <3>1 DEF ReachNextFloor
        <3>3. \A m \in 1..Len(calls') :
                 \E j \in 1..Len(calls) : calls[j] = calls'[m] /\ calls[j].floor # position'
            BY <1>1, <3>2, DoorOpens
        <3>. QED BY <3>2, <3>3 DEF LiftCarOpenDoor
    <2>. QED BY <2>3, <2>4, <2>5
<1>2. IInv /\ [Next]_vars => [Stops]_vars
    BY <1>1
<1>. HIDE DEF Stops
<1>3. Spec => [][Stops]_vars
    BY <1>2, SpecIInv, PTL DEF Spec
<1>. QED BY <1>3 DEF StopsOnTheWay, Stops

\* Subscribers who know the car go on knowing it, over every step but a COLDSTART.
THEOREM SubscribersKeepUp == Spec => SubscribersFollowTheCar
<1>. DEFINE Follow == (reported = Reportable /\ ~ColdStart) => (reported = Reportable)'
<1>1. ASSUME [Next]_vars, reported = Reportable, ~ColdStart
      PROVE  reported' = Reportable'
    <2>. USE <1>1 DEF Reportable
    <2>1. CASE \E ctl \in Controls : SetElevatorGroupLandingCallControl(ctl)
        BY <2>1 DEF SetElevatorGroupLandingCallControl, car
    <2>2. CASE OpenWhereStanding
        BY <2>2 DEF OpenWhereStanding, LiftCarOpenDoor
    <2>3. CASE LeaveForOldestCall
        BY <2>3 DEF LeaveForOldestCall
    <2>4. CASE ReachNextFloor
        BY <2>4 DEF ReachNextFloor, LiftCarOpenDoor
    <2>5. CASE CloseDoor
        BY <2>5 DEF CloseDoor
    <2>6. CASE Elapse \/ UNCHANGED vars
        BY <2>6 DEF Elapse, vars, car
    <2>. QED BY <2>1, <2>2, <2>3, <2>4, <2>5, <2>6 DEF Next, LiftCarTick
<1>2. [Next]_vars => [Follow]_vars
    BY <1>1
<1>. HIDE DEF Follow
<1>3. Spec => [][Follow]_vars
    BY <1>2, PTL DEF Spec
<1>. QED BY <1>3 DEF SubscribersFollowTheCar, Follow

-----------------------------------------------------------------------------
(***************************************************************************)
(* The refinement: the car does what LandingCalls promises.                *)
(***************************************************************************)
\* LandingCalls counts with the same Cardinality.
LEMMA SameCardinality == ASSUME NEW S PROVE Landings!Cardinality(S) = Cardinality(S)
BY Zenon DEF Landings!Cardinality, Cardinality

\* A list has no more different calls than entries.
LEMMA ListIsBounded ==
    ASSUME NEW s \in Seq(LandingCall)
    PROVE  /\ IsFiniteSet({s[i] : i \in 1..Len(s)})
           /\ Cardinality({s[i] : i \in 1..Len(s)}) <= Len(s)
<1>. DEFINE T == {s[i] : i \in 1..Len(s)}
<1>1. 1 \in Int /\ Len(s) \in Nat
    OBVIOUS
<1>2. IsFiniteSet(1..Len(s)) /\ Cardinality(1..Len(s)) = Len(s)
    BY <1>1, FS_Interval
<1>3. s \in Surjection(1..Len(s), T)
    <2>1. s \in [1..Len(s) -> T]
        OBVIOUS
    <2>2. \A y \in T : \E i \in 1..Len(s) : s[i] = y
        OBVIOUS
    <2>. QED BY <2>1, <2>2 DEF Surjection
<1>. HIDE DEF T
<1>4. IsFiniteSet(T) /\ Cardinality(T) <= Cardinality(1..Len(s))
    BY <1>2, <1>3, FS_Surjection
<1>. QED BY <1>2, <1>4 DEF T

\* Opening the door takes the calls of that floor, and only those, off the list.
LEMMA DoorAnswers ==
    ASSUME IInv, NEW told, LiftCarOpenDoor(position', told)
    PROVE  OnList' = {c \in OnList : c.floor # position'}
<1>1. \A m \in 1..Len(calls') :
         \E j \in 1..Len(calls) : calls[j] = calls'[m] /\ calls[j].floor # position'
    BY DoorOpens
<1>2. \A j \in 1..Len(calls) : calls[j].floor # position' => \E m \in 1..Len(calls') : calls'[m] = calls[j]
    BY DoorOpens
<1>. QED BY <1>1, <1>2 DEF OnList

\* A step that opens the door where a call waits answers that landing.
LEMMA OpeningAnswers ==
    ASSUME IInv, NEW told, LiftCarOpenDoor(position', told),
           phase # "DoorOpen", LiftCarHasCallAt(position')
    PROVE  \E f \in {c.floor : c \in LandingCall} : Landings!Answer(f)
<1>1. OpenFloor = NoFloor /\ OpenFloor' = position'
    BY DEF IInv, TypeOK, DoorInterlock, OpenFloor, LiftCarOpenDoor
<1>2. OnList' = {c \in OnList : c.floor # position'}
    BY DoorAnswers
<1>3. PICK k \in 1..Len(calls) : calls[k].floor = position'
    BY DEF LiftCarHasCallAt
<1>4. calls[k] \in LandingCall /\ calls[k] \in OnList
    BY DEF IInv, TypeOK, OnList
<1>5. position' \in {c.floor : c \in LandingCall}
    BY <1>3, <1>4
<1>. QED BY <1>1, <1>2, <1>3, <1>4, <1>5 DEF Landings!Answer, OnList, OpenFloor

\* Every step of the car is a step of LandingCalls or leaves the landings alone.
LEMMA StepsOfTheLandings ==
    ASSUME IInv, IInv', [Next]_vars
    PROVE  Landings!Next \/ (OnList' = OnList /\ OpenFloor' = OpenFloor)
<1>1. ASSUME NEW ctl \in Controls, SetElevatorGroupLandingCallControl(ctl)
      PROVE  Landings!Next \/ (OnList' = OnList /\ OpenFloor' = OpenFloor)
    <2>1. OpenFloor' = OpenFloor
        BY <1>1 DEF SetElevatorGroupLandingCallControl, car, OpenFloor, NoFloor
    <2>2. CASE UNCHANGED calls
        BY <2>1, <2>2 DEF OnList
    <2>3. CASE ~AlreadyCalled(CallOf(ctl)) /\ Len(calls) < MaxLandingCalls /\ calls' = Append(calls, CallOf(ctl))
        <3>1. CallOf(ctl) \in LandingCall /\ calls \in Seq(LandingCall) /\ Len(calls) \in Nat
            BY <1>1, ValidCall DEF SetElevatorGroupLandingCallControl, IInv, TypeOK
        <3>2. CallOf(ctl) \notin OnList
            BY <2>3 DEF AlreadyCalled, OnList
        <3>3. /\ Len(calls') = Len(calls) + 1
              /\ calls'[Len(calls) + 1] = CallOf(ctl)
              /\ \A i \in 1..Len(calls) : calls'[i] = calls[i]
            BY <2>3, <3>1
        <3>4. OnList' = OnList \cup {CallOf(ctl)}
            BY <3>1, <3>3 DEF OnList
        <3>5. Cardinality(OnList) < MaxLandingCalls
            <4>1. IsFiniteSet(OnList) /\ Cardinality(OnList) <= Len(calls)
                BY <3>1, ListIsBounded DEF OnList
            <4>2. Cardinality(OnList) \in Nat
                BY <4>1, FS_CardinalityType
            <4>. QED BY <2>3, <3>1, <4>1, <4>2, CallAssumption
        <3>6. Landings!Press(CallOf(ctl))
            BY <2>1, <3>2, <3>4, <3>5, SameCardinality DEF Landings!Press, OnList, OpenFloor
        <3>. QED BY <3>1, <3>6 DEF Landings!Next
    <2>. QED BY <1>1, <2>2, <2>3 DEF SetElevatorGroupLandingCallControl
<1>2. CASE OpenWhereStanding
    <2>1. LiftCarOpenDoor(position', reported) /\ phase # "DoorOpen" /\ LiftCarHasCallAt(position')
        BY <1>2 DEF OpenWhereStanding, LiftCarHasCallAt
    <2>. QED BY <2>1, OpeningAnswers DEF Landings!Next
<1>3. CASE ReachNextFloor
    <2>1. position' = NextFloor /\ phase = "Moving"
        BY <1>3 DEF ReachNextFloor
    <2>2. CASE LiftCarHasCallAt(NextFloor)
        <3>1. LiftCarOpenDoor(position', [reported EXCEPT !.position = NextFloor]) /\ LiftCarHasCallAt(position')
            BY <1>3, <2>1, <2>2 DEF ReachNextFloor
        <3>. QED BY <2>1, <3>1, OpeningAnswers DEF Landings!Next
    <2>3. CASE ~LiftCarHasCallAt(NextFloor)
        <3>1. UNCHANGED <<doorStatus, calls>>
            BY <1>3, <2>3 DEF ReachNextFloor
        <3>2. doorStatus # "OPENED"
            BY <2>1 DEF IInv, DoorInterlock
        <3>. QED BY <3>1, <3>2 DEF OnList, OpenFloor
    <2>. QED BY <2>2, <2>3
<1>4. CASE CloseDoor
    <2>1. OpenFloor = position /\ position # NoFloor
        BY <1>4, FloorAssumption DEF CloseDoor, IInv, DoorInterlock, InShaft, Floors, OpenFloor, NoFloor
    <2>2. OpenFloor' = NoFloor /\ OnList' = OnList
        BY <1>4 DEF CloseDoor, OpenFloor, OnList
    <2>3. Landings!Close
        BY <2>1, <2>2 DEF Landings!Close, OnList, OpenFloor
    <2>. QED BY <2>3 DEF Landings!Next
<1>5. CASE ColdStart
    <2>1. OpenFloor' = NoFloor /\ OnList' = {}
        BY <1>5 DEF ColdStart, OpenFloor, OnList
    <2>2. Landings!PowerOn
        BY <2>1 DEF Landings!PowerOn, OnList, OpenFloor
    <2>. QED BY <2>2 DEF Landings!Next
<1>6. CASE LeaveForOldestCall \/ Elapse \/ UNCHANGED vars
    BY <1>6 DEF LeaveForOldestCall, Elapse, vars, car, OnList, OpenFloor
<1>. QED BY <1>1, <1>2, <1>3, <1>4, <1>5, <1>6 DEF Next, LiftCarTick

\* The car simulation implements LandingCalls: no call is lost, answered at the
\* wrong floor or left behind by an open door, whatever order the writes, the
\* ticks and the restarts come in.
THEOREM CarImplementsLandingCalls == Spec => CallsAnsweredAtTheirLanding
<1>1. Init => Landings!Init
    BY DEF Init, Landings!Init, OnList, OpenFloor
<1>2. IInv /\ IInv' /\ [Next]_vars => [Landings!Next]_<<OnList, OpenFloor>>
    BY StepsOfTheLandings
<1>. QED BY <1>1, <1>2, SpecIInv, PTL DEF Spec, CallsAnsweredAtTheirLanding, Landings!Spec
=============================================================================
