------------------------- MODULE TimekeepingProofs -------------------------
(***************************************************************************)
(* The two clocks of the device.  On the monotonic one: what holds of      *)
(* Restart for every set of clients, every set of delays and every pass    *)
(* that is shorter than the shortest delay.  On the wall clock: what holds *)
(* of DeviceClock for every calendar, every request and however long the   *)
(* host runs.                                                              *)
(***************************************************************************)
EXTENDS Restart, DeviceClock, WellFoundedInduction, TLAPS

-----------------------------------------------------------------------------
(***************************************************************************)
(* The deferred restart.                                                   *)
(***************************************************************************)
\* How late a pending restart can be, counted from the start of the pass: once the
\* loop has asked RestartDue in this pass it was not due then, and one pass earlier
\* it was not due either.
Punctual ==
    restartPending =>
        IF at = "Sleep" THEN dueIn + passTime > 0 ELSE dueIn + passTime > -MaxPass

\* A client whose SimpleACK waits asked in this pass, with a delay longer than it.
AskedInThisPass ==
    \A c \in Promised : c \in unsent => promises[c].dueIn + passTime > MaxPass

IInv == TypeOK /\ StrongestPromiseWins /\ Punctual /\ AskedInThisPass

-----------------------------------------------------------------------------
\* A promise is told apart from NoPromise by its kind.
LEMMA PromiseKind ==
    ASSUME TypeOK, NEW c \in Promised
    PROVE  promises[c] \in Promise /\ promises[c].dueIn \in Int
<1>1. c \in Clients /\ promises[c] # NoPromise
    BY DEF Promised
<1>2. promises[c] \in Promise
    BY <1>1 DEF TypeOK
<1>. QED BY <1>2 DEF Promise

\* Nothing is pending at start-up.
LEMMA InitIInv == Init => IInv
<1>. SUFFICES ASSUME Init PROVE IInv
    OBVIOUS
<1>1. Promised = {}
    BY DEF Init, Promised
<1>2. TypeOK
    <2>1. 0 \in 0..MaxPass
        BY RestartAssumption
    <2>2. [c \in Clients |-> NoPromise] \in [Clients -> Promise \cup {NoPromise}]
        OBVIOUS
    <2>3. restartPending \in BOOLEAN /\ passTime \in 0..MaxPass
        BY <2>1, Zenon DEF Init
    <2>4. dueIn \in Int
        BY DEF Init
    <2>5. restartKind \in Kinds /\ at \in {"Tick", "Check", "Sleep"} /\ unsent \subseteq Clients
        BY DEF Init, Kinds
    <2>6. promises \in [Clients -> Promise \cup {NoPromise}]
        BY <2>2 DEF Init
    <2>. QED BY <2>3, <2>4, <2>5, <2>6 DEF TypeOK
<1>3. StrongestPromiseWins /\ Punctual /\ AskedInThisPass
    BY <1>1 DEF Init, StrongestPromiseWins, Punctual, AskedInThisPass
<1>. QED BY <1>2, <1>3 DEF IInv

\* ReinitializeDevice with RequestRestart: the new promise joins the others.
LEMMA RequestIInv ==
    ASSUME IInv, NEW c \in Clients, NEW kind \in Kinds, NEW delay \in Delays,
           ReinitializeDevice(c, kind, delay)
    PROVE  IInv'
<1>. DEFINE new == [kind |-> kind, dueIn |-> delay]
<1>1. /\ at = "Tick" /\ promises[c] = NoPromise
      /\ promises' = [promises EXCEPT ![c] = new]
      /\ unsent' = unsent \cup {c}
      /\ at' = at /\ passTime' = passTime
      /\ RequestRestart(kind, delay)
    BY DEF ReinitializeDevice
<1>2. delay \in Int /\ delay > MaxPass /\ MaxPass \in Int /\ MaxPass > 0
    BY RestartAssumption, DelayAssumption
<1>3. new \in Promise /\ new # NoPromise
    BY <1>2 DEF Promise, NoPromise, Kinds
<1>4. TypeOK /\ promises \in [Clients -> Promise \cup {NoPromise}]
    BY DEF IInv, TypeOK
<1>5. TypeOK'
    BY <1>1, <1>2, <1>3 DEF IInv, TypeOK, RequestRestart, Kinds
<1>6. promises'[c] = new /\ \A x \in Clients \ {c} : promises'[x] = promises[x]
    BY <1>1, <1>4
<1>. HIDE DEF new
<1>7. c \notin Promised /\ Promised' = Promised \cup {c}
    BY <1>1, <1>3, <1>6 DEF Promised
<1>8. new.dueIn = delay /\ new.kind = kind
    BY DEF new
<1>9. StrongestPromiseWins'
    <2>1. CASE ~restartPending
        <3>1. Promised' = {c} /\ restartPending' /\ dueIn' = delay /\ restartKind' = kind
            BY <1>1, <1>7, <2>1 DEF IInv, StrongestPromiseWins, RequestRestart
        <3>. QED BY <1>2, <1>6, <1>8, <3>1 DEF StrongestPromiseWins
    <2>2. CASE restartPending
        <3>1. /\ restartPending'
              /\ dueIn' = IF delay < dueIn THEN delay ELSE dueIn
              /\ restartKind' = IF kind = "Cold" THEN "Cold" ELSE restartKind
            BY <1>1, <2>2 DEF RequestRestart
        <3>2. /\ \A x \in Promised : dueIn <= promises[x].dueIn
              /\ \E x \in Promised : dueIn = promises[x].dueIn
              /\ restartKind = "Cold" <=> \E x \in Promised : promises[x].kind = "Cold"
            BY <2>2 DEF IInv, StrongestPromiseWins
        <3>3. \A x \in Promised : promises'[x] = promises[x] /\ promises[x].dueIn \in Int
            BY <1>4, <1>6, <1>7, PromiseKind DEF Promised
        <3>4. dueIn \in Int
            BY DEF IInv, TypeOK
        <3>5. \A x \in Promised' : dueIn' <= promises'[x].dueIn
            BY <1>2, <1>6, <1>7, <1>8, <3>1, <3>2, <3>3, <3>4
        <3>6. \E x \in Promised' : dueIn' = promises'[x].dueIn
            BY <1>2, <1>6, <1>7, <1>8, <3>1, <3>2, <3>3, <3>4
        <3>7. restartKind' = "Cold" <=> \E x \in Promised' : promises'[x].kind = "Cold"
            BY <1>6, <1>7, <1>8, <3>1, <3>2, <3>3
        <3>8. Promised' # {}
            BY <1>7
        <3>. QED BY <3>1, <3>5, <3>6, <3>7, <3>8 DEF StrongestPromiseWins
    <2>. QED BY <2>1, <2>2
<1>10. Punctual'
    <2>1. passTime \in 0..MaxPass /\ dueIn \in Int
        BY DEF IInv, TypeOK
    <2>2. dueIn' = delay \/ (restartPending /\ dueIn' = dueIn)
        BY <1>1 DEF RequestRestart
    <2>3. restartPending => dueIn + passTime > -MaxPass
        BY <1>1 DEF IInv, Punctual
    <2>4. dueIn' + passTime > -MaxPass
        BY <1>2, <2>1, <2>2, <2>3
    <2>. QED BY <1>1, <2>4 DEF Punctual
<1>11. AskedInThisPass'
    <2>1. passTime \in 0..MaxPass
        BY DEF IInv, TypeOK
    <2>2. ASSUME NEW x \in Promised', x \in unsent'
          PROVE  promises'[x].dueIn + passTime' > MaxPass
        <3>1. CASE x = c
            BY <1>1, <1>2, <1>6, <1>8, <2>1, <3>1
        <3>2. CASE x # c
            BY <1>1, <1>6, <1>7, <2>2, <3>2 DEF IInv, AskedInThisPass, Promised
        <3>. QED BY <3>1, <3>2
    <2>. QED BY <2>2 DEF AskedInThisPass
<1>. QED BY <1>5, <1>9, <1>10, <1>11 DEF IInv

\* The steps of the main loop.
LEMMA LoopIInv ==
    ASSUME IInv, StartTick \/ EndTick \/ PerformRestart \/ NotYetDue
    PROVE  IInv'
<1>0. /\ MaxPass \in Int /\ MaxPass > 0 /\ passTime \in Int /\ dueIn \in Int
      /\ passTime >= 0 /\ passTime <= MaxPass
    BY RestartAssumption DEF IInv, TypeOK
<1>1. CASE StartTick
    <2>1. TypeOK'
        BY <1>0, <1>1 DEF StartTick, request, IInv, TypeOK
    <2>2. StrongestPromiseWins'
        BY <1>1 DEF StartTick, request, IInv, StrongestPromiseWins, Promised
    <2>3. Punctual' /\ AskedInThisPass'
        BY <1>0, <1>1 DEF StartTick, request, IInv, Punctual, AskedInThisPass
    <2>. QED BY <2>1, <2>2, <2>3 DEF IInv
<1>2. CASE EndTick
    <2>1. TypeOK'
        BY <1>2 DEF EndTick, request, IInv, TypeOK
    <2>2. StrongestPromiseWins' /\ Punctual' /\ AskedInThisPass'
        BY <1>2 DEF EndTick, request, IInv, StrongestPromiseWins, Punctual, AskedInThisPass, Promised
    <2>. QED BY <2>1, <2>2 DEF IInv
<1>3. CASE PerformRestart
    <2>1. TypeOK'
        BY <1>3 DEF PerformRestart, IInv, TypeOK
    <2>2. Promised' = {}
        BY <1>3 DEF PerformRestart, Promised
    <2>3. StrongestPromiseWins' /\ Punctual' /\ AskedInThisPass'
        BY <1>3, <2>2 DEF PerformRestart, StrongestPromiseWins, Punctual, AskedInThisPass
    <2>. QED BY <2>1, <2>3 DEF IInv
<1>4. CASE NotYetDue
    <2>1. TypeOK'
        BY <1>4 DEF NotYetDue, request, IInv, TypeOK
    <2>2. StrongestPromiseWins' /\ AskedInThisPass'
        BY <1>4 DEF NotYetDue, request, IInv, StrongestPromiseWins, AskedInThisPass, Promised
    <2>3. Punctual'
        BY <1>0, <1>4 DEF NotYetDue, IsDue, request, Punctual
    <2>. QED BY <2>1, <2>2, <2>3 DEF IInv
<1>. QED BY <1>1, <1>2, <1>3, <1>4

\* The clock: every promise and the deadline come nearer by the same unit.
LEMMA ElapseIInv == ASSUME IInv, Elapse PROVE IInv'
<1>0. /\ MaxPass \in Int /\ MaxPass > 0 /\ passTime \in Int /\ dueIn \in Int
      /\ passTime >= 0 /\ passTime <= MaxPass
    BY RestartAssumption DEF IInv, TypeOK
<1>1. /\ passTime < MaxPass /\ passTime' = passTime + 1
      /\ dueIn' = (IF restartPending THEN OneLess(dueIn) ELSE dueIn)
      /\ restartPending' = restartPending /\ restartKind' = restartKind
      /\ at' = at /\ unsent' = unsent
    BY DEF Elapse
<1>2. restartPending => dueIn > -2 * MaxPass /\ dueIn' = dueIn - 1
    BY <1>0, <1>1 DEF IInv, Punctual, OneLess
<1>3. \A c \in Clients : promises'[c] = IF promises[c] = NoPromise THEN NoPromise
                                        ELSE [promises[c] EXCEPT !.dueIn = OneLess(@)]
    BY DEF Elapse
<1>4. ASSUME NEW c \in Promised
      PROVE  /\ promises'[c] \in Promise
             /\ promises'[c].kind = promises[c].kind
             /\ promises'[c].dueIn = promises[c].dueIn - 1
             /\ promises[c].dueIn \in Int
             /\ promises'[c] # NoPromise
    <2>1. promises[c] \in Promise /\ promises[c].dueIn \in Int /\ c \in Clients /\ promises[c] # NoPromise
        BY PromiseKind DEF IInv, Promised
    <2>2. restartPending /\ dueIn <= promises[c].dueIn
        BY <1>4 DEF IInv, StrongestPromiseWins
    <2>3. OneLess(promises[c].dueIn) = promises[c].dueIn - 1
        BY <1>0, <1>2, <2>1, <2>2 DEF OneLess
    <2>4. promises'[c] = [promises[c] EXCEPT !.dueIn = promises[c].dueIn - 1]
        BY <1>3, <2>1, <2>3
    <2>5. promises'[c] \in Promise /\ promises'[c].kind = promises[c].kind
          /\ promises'[c].dueIn = promises[c].dueIn - 1
        BY <2>1, <2>4 DEF Promise
    <2>6. promises'[c] # NoPromise
        BY <2>5 DEF Promise, NoPromise, Kinds
    <2>. QED BY <2>1, <2>5, <2>6
<1>5. Promised' = Promised
    BY <1>3, <1>4 DEF Promised
<1>6. TypeOK'
    <2>1. passTime' \in 0..MaxPass /\ dueIn' \in Int
        BY <1>0, <1>1, <1>2
    <2>2. promises' \in [Clients -> Promise \cup {NoPromise}]
        <3>1. \A c \in Clients : promises'[c] \in Promise \cup {NoPromise}
            BY <1>3, <1>4 DEF Promised
        <3>2. promises' = [c \in Clients |-> promises'[c]]
            BY DEF Elapse
        <3>. QED BY <3>1, <3>2
    <2>. QED BY <1>1, <2>1, <2>2 DEF IInv, TypeOK
<1>7. StrongestPromiseWins'
    BY <1>0, <1>1, <1>2, <1>4, <1>5 DEF IInv, StrongestPromiseWins
<1>8. Punctual'
    BY <1>0, <1>1, <1>2 DEF IInv, Punctual
<1>9. AskedInThisPass'
    BY <1>0, <1>1, <1>4, <1>5 DEF IInv, AskedInThisPass
<1>. QED BY <1>6, <1>7, <1>8, <1>9 DEF IInv

\* Every step.
LEMMA NextIInv == IInv /\ [Next]_vars => IInv'
<1>. SUFFICES ASSUME IInv, [Next]_vars PROVE IInv'
    OBVIOUS
<1>1. ASSUME NEW c \in Clients, NEW kind \in Kinds, NEW delay \in Delays,
             ReinitializeDevice(c, kind, delay)
      PROVE  IInv'
    BY <1>1, RequestIInv
<1>2. CASE StartTick \/ EndTick \/ PerformRestart \/ NotYetDue
    BY <1>2, LoopIInv
<1>3. CASE Elapse
    BY <1>3, ElapseIInv
<1>4. CASE UNCHANGED vars
    BY <1>4 DEF vars, request, IInv, TypeOK, StrongestPromiseWins, Punctual, AskedInThisPass, Promised
<1>. QED BY <1>1, <1>2, <1>3, <1>4 DEF Next

\* So the invariant holds throughout.
LEMMA SpecIInv == Spec => []IInv
BY InitIInv, NextIInv, PTL DEF Spec

-----------------------------------------------------------------------------
\* The restart's variables and every promise keep their types: a second request
\* never leaves a kind that main does not know.
THEOREM RestartTypeCorrect == Spec => []TypeOK
<1>1. IInv => TypeOK
    BY DEF IInv
<1>. QED BY <1>1, SpecIInv, PTL

\* The pending restart is due at the earliest promised time and is cold exactly if
\* somebody asked for a cold one (RequestRestart never postpones or weakens it).
THEOREM PromisesAreHonoured == Spec => []StrongestPromiseWins
<1>1. IInv => StrongestPromiseWins
    BY DEF IInv
<1>. QED BY <1>1, SpecIInv, PTL

\* RestartDue, asked once per pass, answers within two passes of a promised time.
THEOREM RestartIsOnTime == Spec => []PromisesKeptInTime
<1>1. IInv => PromisesKeptInTime
    <2>. SUFFICES ASSUME IInv, NEW c \in Promised
                  PROVE  promises[c].dueIn > -2 * MaxPass
        BY DEF PromisesKeptInTime
    <2>1. promises[c].dueIn \in Int /\ dueIn \in Int /\ MaxPass \in Int /\ passTime \in 0..MaxPass
        BY PromiseKind, RestartAssumption DEF IInv, TypeOK
    <2>2. restartPending /\ dueIn <= promises[c].dueIn
        BY DEF IInv, StrongestPromiseWins
    <2>3. dueIn > -2 * MaxPass
        BY <2>1, <2>2 DEF IInv, Punctual
    <2>. QED BY <2>1, <2>2, <2>3
<1>. QED BY <1>1, SpecIInv, PTL

\* A client has its SimpleACK before its own delay is over.
THEOREM AnswerBeforeRestart == Spec => []AcknowledgedBeforeOwnDelayEnds
<1>1. IInv => AcknowledgedBeforeOwnDelayEnds
    <2>. SUFFICES ASSUME IInv, NEW c \in Promised, promises[c].dueIn <= 0, c \in unsent
                  PROVE  FALSE
        BY DEF AcknowledgedBeforeOwnDelayEnds
    <2>1. promises[c].dueIn \in Int /\ MaxPass \in Int /\ passTime \in 0..MaxPass
        BY PromiseKind, RestartAssumption DEF IInv, TypeOK
    <2>. QED BY <2>1 DEF IInv, AskedInThisPass
<1>. QED BY <1>1, SpecIInv, PTL

-----------------------------------------------------------------------------
(***************************************************************************)
(* The device clock.  The months cut the days up without gap or overlap,   *)
(* so that a day is in one month; from there a moment is found again from  *)
(* its mktime, and the moment an hour later is the one a calendar turns to.*)
(***************************************************************************)
\* Induction over the naturals, stated for a set.
LEMMA NatSetInduction ==
    ASSUME NEW S, 0 \in S, \A n \in Nat : n \in S => n + 1 \in S
    PROVE  Nat \subseteq S
<1>1. SUFFICES ASSUME Nat \ S # {} PROVE FALSE
    OBVIOUS
<1>. DEFINE T == Nat \ S
<1>2. PICK m \in T : \A y \in T : ~(<<y, m>> \in OpToRel(<, Nat))
    <2>1. T \subseteq Nat /\ T # {}
        BY <1>1
    <2>2. IsWellFoundedOn(OpToRel(<, Nat), Nat)
        BY NatLessThanWellFounded
    <2>. HIDE DEF T
    <2>. QED BY <2>1, <2>2, WFMin
<1>3. m \in Nat /\ m # 0 /\ m \notin S
    OBVIOUS
<1>4. m - 1 \in Nat /\ m - 1 < m /\ (m - 1) + 1 = m
    BY <1>3
<1>5. m - 1 \notin S
    BY <1>3, <1>4
<1>6. <<m - 1, m>> \in OpToRel(<, Nat)
    BY <1>3, <1>4 DEF OpToRel
<1>. QED BY <1>2, <1>4, <1>5, <1>6

\* An element of a sequence is of the set the sequence is over.
LEMMA ElementOfSeq ==
    ASSUME NEW S, NEW s \in Seq(S), NEW i \in 1..Len(s)
    PROVE  s[i] \in S
  OBVIOUS

-----------------------------------------------------------------------------
(* Division with remainder, for any divisor. *)

\* Quotient and remainder are determined by the number.
LEMMA Division ==
    ASSUME NEW n \in Nat \ {0}, NEW q \in Int, NEW r \in 0..(n - 1)
    PROVE  (q * n + r) \div n = q /\ (q * n + r) % n = r
  BY Z3

\* Every number has them.
LEMMA Divided ==
    ASSUME NEW n \in Nat \ {0}, NEW a \in Int
    PROVE  a = (a \div n) * n + (a % n) /\ a % n \in 0..(n - 1) /\ a \div n \in Int
  BY Z3

\* And of a natural number they are natural numbers.
LEMMA DividedNat ==
    ASSUME NEW n \in Nat \ {0}, NEW a \in Nat
    PROVE  a \div n \in Nat /\ a % n \in 0..(n - 1)
<1>. DEFINE q == a \div n
            r == a % n
<1>1. a = q * n + r /\ r \in 0..(n - 1) /\ q \in Int
    BY Divided
<1>. HIDE DEF q, r
<1>2. q >= 0
    BY <1>1, Z3
<1>. QED BY <1>1, <1>2 DEF q, r

\* One more: the remainder grows, or starts again and the quotient grows.
LEMMA OneMore ==
    ASSUME NEW n \in Nat \ {0}, NEW a \in Nat
    PROVE  IF a % n = n - 1 THEN (a + 1) \div n = (a \div n) + 1 /\ (a + 1) % n = 0
           ELSE (a + 1) \div n = a \div n /\ (a + 1) % n = (a % n) + 1
<1>. DEFINE q == a \div n
            r == a % n
<1>1. a = q * n + r /\ r \in 0..(n - 1) /\ q \in Int
    BY Divided
<1>. HIDE DEF q, r
<1>2. CASE r = n - 1
    <2>1. a + 1 = (q + 1) * n + 0
        BY <1>1, <1>2, Z3
    <2>2. (a + 1) \div n = q + 1 /\ (a + 1) % n = 0
        BY <2>1, <1>1, Division
    <2>. QED BY <2>2, <1>2 DEF q, r
<1>3. CASE r # n - 1
    <2>1. a + 1 = q * n + (r + 1) /\ r + 1 \in 0..(n - 1)
        BY <1>1, <1>3, Z3
    <2>2. (a + 1) \div n = q /\ (a + 1) % n = r + 1
        BY <2>1, <1>1, Division
    <2>. QED BY <2>2, <1>3 DEF q, r
<1>. QED BY <1>2, <1>3

-----------------------------------------------------------------------------
(* The calendar. *)

\* A month has a day and at most 31.
LEMMA LengthFacts ==
    ASSUME NEW m \in Nat
    PROVE  LengthOf(m) \in 1..31
<1>. DEFINE k == m % MonthsPerYear
<1>1. MonthsPerYear \in Nat \ {0} /\ MonthsPerYear >= 2
    BY CalendarAssumption DEF MonthsPerYear
<1>2. k \in 0..(MonthsPerYear - 1)
    BY <1>1, DividedNat
<1>. HIDE DEF k
<1>3. k + 1 \in 1..Len(MonthLength)
    BY <1>1, <1>2 DEF MonthsPerYear
<1>4. MonthLength[k + 1] \in 1..31
    BY <1>3, CalendarAssumption, ElementOfSeq
<1>5. ASSUME (m + 1) % (2 * MonthsPerYear) = 0
      PROVE  MonthLength[k + 1] <= 30
    <2>. DEFINE q == (m + 1) \div (2 * MonthsPerYear)
    <2>1. 2 * MonthsPerYear \in Nat \ {0} /\ m + 1 \in Int
        BY <1>1
    <2>2. m + 1 = q * (2 * MonthsPerYear) + 0 /\ q \in Int
        BY <2>1, <1>5, Divided
    <2>. HIDE DEF q
    <2>3. m = (2 * q - 1) * MonthsPerYear + (MonthsPerYear - 1)
        BY <2>2, <1>1, Z3
    <2>4. 2 * q - 1 \in Int /\ MonthsPerYear - 1 \in 0..(MonthsPerYear - 1)
        BY <2>2, <1>1
    <2>5. k = MonthsPerYear - 1
        BY <2>3, <2>4, <1>1, Division DEF k
    <2>. QED BY <2>5, <1>1, CalendarAssumption DEF MonthsPerYear
<1>. QED BY <1>4, <1>5 DEF LengthOf, k

\* One turn of the recursion.
DaysStep(g, m) == IF m = 0 THEN 0 ELSE g[m - 1] + LengthOf(m - 1)

\* There is a count of days for the months up to any one.
LEMMA DaysExistUpTo ==
    ASSUME NEW n \in Nat
    PROVE  \E g : g = [k \in 0..n |-> DaysStep(g, k)]
<1>. DEFINE S == {i \in Nat : \E g : g = [k \in 0..i |-> DaysStep(g, k)]}
<1>1. 0 \in S
    <2>. DEFINE g == [k \in 0..0 |-> DaysStep(<< >>, 0)]
    <2>1. g = [k \in 0..0 |-> DaysStep(g, k)]
        BY DEF DaysStep
    <2>. HIDE DEF g
    <2>. QED BY <2>1
<1>2. ASSUME NEW i \in Nat, i \in S
      PROVE  i + 1 \in S
    <2>1. PICK g : g = [k \in 0..i |-> DaysStep(g, k)]
        BY <1>2
    <2>. DEFINE h == [k \in 0..(i+1) |-> IF k = i + 1 THEN DaysStep(g, k) ELSE g[k]]
    <2>2. \A k \in 0..(i+1) : DaysStep(h, k) = DaysStep(g, k)
        <3>1. \A k \in 0..i : h[k] = g[k]
            OBVIOUS
        <3>. HIDE DEF h
        <3>. QED BY <3>1 DEF DaysStep
    <2>3. \A k \in 0..(i+1) : h[k] = DaysStep(g, k)
        BY <2>1
    <2>4. h = [k \in 0..(i+1) |-> h[k]]
        OBVIOUS
    <2>. HIDE DEF h
    <2>5. h = [k \in 0..(i+1) |-> DaysStep(h, k)]
        BY <2>2, <2>3, <2>4
    <2>. QED BY <2>5
<1>. HIDE DEF S
<1>3. Nat \subseteq S
    BY <1>1, <1>2, NatSetInduction
<1>. QED BY <1>3 DEF S

\* The days before a month follow their recursion.
LEMMA DaysBeforeDef ==
    DaysBefore = [m \in Nat |-> DaysStep(DaysBefore, m)]
<1>. DEFINE G(n) == CHOOSE g : g = [k \in 0..n |-> DaysStep(g, k)]
            d == [n \in Nat |-> G(n)[n]]
<1>1. \A n \in Nat : G(n) = [k \in 0..n |-> DaysStep(G(n), k)]
    BY DaysExistUpTo
<1>. HIDE DEF G
<1>2. ASSUME NEW n \in Nat
      PROVE  \A k \in Nat : k <= n => G(n)[k] = G(n + 1)[k]
    <2>. DEFINE S == {k \in Nat : k <= n => G(n)[k] = G(n + 1)[k]}
    <2>1. \A k \in 0..n : G(n)[k] = DaysStep(G(n), k) /\ G(n + 1)[k] = DaysStep(G(n + 1), k)
        <3>1. G(n) = [k \in 0..n |-> DaysStep(G(n), k)] /\ G(n + 1) = [k \in 0..(n + 1) |-> DaysStep(G(n + 1), k)]
            BY <1>1
        <3>2. 0..n \subseteq 0..(n + 1)
            OBVIOUS
        <3>. QED BY <3>1, <3>2
    <2>2. 0 \in S
        BY <2>1 DEF DaysStep
    <2>3. ASSUME NEW k \in Nat, k \in S PROVE k + 1 \in S
        BY <2>1, <2>3 DEF DaysStep
    <2>. HIDE DEF S
    <2>4. Nat \subseteq S
        BY <2>2, <2>3, NatSetInduction
    <2>. QED BY <2>4 DEF S
<1>3. \A m \in Nat : d[m] = DaysStep(d, m)
    <2>. SUFFICES ASSUME NEW m \in Nat PROVE d[m] = DaysStep(d, m)
        OBVIOUS
    <2>1. d[m] = DaysStep(G(m), m)
        <3>1. m \in 0..m
            OBVIOUS
        <3>. QED BY <1>1, <3>1
    <2>2. CASE m = 0
        BY <2>1, <2>2 DEF DaysStep
    <2>3. CASE m # 0
        <3>1. m - 1 \in Nat /\ (m - 1) + 1 = m /\ m - 1 <= m - 1
            BY <2>3
        <3>2. G(m - 1)[m - 1] = G((m - 1) + 1)[m - 1]
            BY <3>1, <1>2
        <3>3. d[m - 1] = G(m)[m - 1]
            BY <3>1, <3>2
        <3>. QED BY <2>1, <2>3, <3>3 DEF DaysStep
    <2>. QED BY <2>2, <2>3
<1>4. d = [m \in Nat |-> d[m]]
    OBVIOUS
<1>. HIDE DEF d
<1>5. d = [m \in Nat |-> DaysStep(d, m)]
    BY <1>3, <1>4
<1>. DEFINE Def(f) == f = [m \in Nat |-> DaysStep(f, m)]
<1>6. DaysBefore = CHOOSE f : Def(f)
    BY DEF DaysBefore, DaysStep
<1>7. Def(d)
    BY <1>5
<1>. HIDE DEF Def
<1>8. Def(DaysBefore)
    BY <1>6, <1>7
<1>. QED BY <1>8 DEF Def

\* Each month starts after the days of the ones before it, a day each at least.
LEMMA DaysBeforeFacts ==
    ASSUME NEW m \in Nat
    PROVE  DaysBefore[m] \in Nat /\ DaysBefore[m] >= m /\ DaysBefore[m + 1] = DaysBefore[m] + LengthOf(m)
<1>1. DaysBefore[0] = 0
    BY DaysBeforeDef DEF DaysStep
<1>2. \A k \in Nat : DaysBefore[k + 1] = DaysBefore[k] + LengthOf(k)
    <2>. SUFFICES ASSUME NEW k \in Nat PROVE DaysBefore[k + 1] = DaysBefore[k] + LengthOf(k)
        OBVIOUS
    <2>1. k + 1 \in Nat /\ (k + 1) - 1 = k /\ k + 1 # 0
        OBVIOUS
    <2>2. DaysBefore[k + 1] = DaysStep(DaysBefore, k + 1)
        BY <2>1, DaysBeforeDef
    <2>. QED BY <2>1, <2>2 DEF DaysStep
<1>. DEFINE S == {k \in Nat : DaysBefore[k] \in Nat /\ DaysBefore[k] >= k}
<1>3. 0 \in S
    BY <1>1
<1>4. ASSUME NEW k \in Nat, k \in S PROVE k + 1 \in S
    <2>1. LengthOf(k) \in 1..31 /\ DaysBefore[k + 1] = DaysBefore[k] + LengthOf(k)
        BY LengthFacts, <1>2
    <2>. QED BY <2>1, <1>4
<1>. HIDE DEF S
<1>5. Nat \subseteq S
    BY <1>3, <1>4, NatSetInduction
<1>. QED BY <1>2, <1>5 DEF S

\* The months follow each other.
LEMMA MonthsAscend ==
    ASSUME NEW m \in Nat, NEW n \in Nat, m < n
    PROVE  DaysBefore[m] + LengthOf(m) <= DaysBefore[n]
<1>. DEFINE S == {k \in Nat : DaysBefore[m + 1] <= DaysBefore[m + 1 + k]}
<1>1. 0 \in S
    BY DaysBeforeFacts
<1>2. ASSUME NEW k \in Nat, k \in S PROVE k + 1 \in S
    <2>1. m + 1 \in Nat /\ m + 1 + k \in Nat /\ m + 1 + (k + 1) = (m + 1 + k) + 1
        OBVIOUS
    <2>2. DaysBefore[m + 1 + k] \in Nat /\ DaysBefore[m + 1] \in Nat
        BY <2>1, DaysBeforeFacts
    <2>3. DaysBefore[(m + 1 + k) + 1] = DaysBefore[m + 1 + k] + LengthOf(m + 1 + k)
        BY <2>1, DaysBeforeFacts
    <2>4. LengthOf(m + 1 + k) \in 1..31
        BY <2>1, LengthFacts
    <2>. QED BY <1>2, <2>1, <2>2, <2>3, <2>4
<1>. HIDE DEF S
<1>3. Nat \subseteq S
    BY <1>1, <1>2, NatSetInduction
<1>4. n - m - 1 \in Nat /\ m + 1 + (n - m - 1) = n
    OBVIOUS
<1>5. DaysBefore[m + 1] <= DaysBefore[n]
    BY <1>3, <1>4 DEF S
<1>. QED BY <1>5, DaysBeforeFacts

\* A day is one of a month's days.
InMonth(day, m) == DaysBefore[m] <= day /\ day < DaysBefore[m] + LengthOf(m)

\* A day is in one month, the one that MonthOf finds.
LEMMA MonthIsUnique ==
    ASSUME NEW day \in Nat, NEW m \in Nat, InMonth(day, m)
    PROVE  MonthOf(day) = m
<1>1. m \in 0..day
    BY DaysBeforeFacts DEF InMonth
<1>2. ASSUME NEW n \in 0..day, InMonth(day, n)
      PROVE  n = m
    <2>1. n \in Nat /\ DaysBefore[m] \in Nat /\ DaysBefore[n] \in Nat /\ LengthOf(m) \in 1..31 /\ LengthOf(n) \in 1..31
        BY DaysBeforeFacts, LengthFacts
    <2>2. n < m => DaysBefore[n] + LengthOf(n) <= DaysBefore[m]
        BY MonthsAscend, <2>1
    <2>3. m < n => DaysBefore[m] + LengthOf(m) <= DaysBefore[n]
        BY MonthsAscend, <2>1
    <2>. QED BY <1>2, <2>1, <2>2, <2>3 DEF InMonth
<1>3. MonthOf(day) = CHOOSE n \in 0..day : InMonth(day, n)
    BY DEF MonthOf, InMonth
<1>. QED BY <1>1, <1>2, <1>3, Zenon

\* There is such a month.
LEMMA MonthExists ==
    ASSUME NEW day \in Nat
    PROVE  MonthOf(day) \in Nat /\ InMonth(day, MonthOf(day))
<1>. DEFINE S == {d \in Nat : \E m \in Nat : InMonth(d, m)}
<1>1. 0 \in S
    <2>1. DaysBefore[0] = 0
        BY DaysBeforeDef DEF DaysStep
    <2>2. LengthOf(0) \in 1..31
        BY LengthFacts
    <2>. QED BY <2>1, <2>2 DEF InMonth
<1>2. ASSUME NEW d \in Nat, d \in S PROVE d + 1 \in S
    <2>1. PICK m \in Nat : InMonth(d, m)
        BY <1>2
    <2>2. /\ DaysBefore[m] \in Nat /\ DaysBefore[m + 1] = DaysBefore[m] + LengthOf(m)
          /\ LengthOf(m) \in 1..31 /\ LengthOf(m + 1) \in 1..31 /\ m + 1 \in Nat
        BY DaysBeforeFacts, LengthFacts
    <2>3. InMonth(d + 1, m) \/ InMonth(d + 1, m + 1)
        BY <2>1, <2>2 DEF InMonth
    <2>. QED BY <2>2, <2>3
<1>. HIDE DEF S
<1>3. Nat \subseteq S
    BY <1>1, <1>2, NatSetInduction
<1>4. PICK m \in Nat : InMonth(day, m)
    BY <1>3 DEF S
<1>5. MonthOf(day) = m
    BY <1>4, MonthIsUnique
<1>. QED BY <1>4, <1>5

-----------------------------------------------------------------------------
(* Dates. *)

\* Whole multiples of the divisor leave the remainder as it is.
LEMMA SameRemainder ==
    ASSUME NEW n \in Nat \ {0}, NEW a \in Int, NEW c \in Int
    PROVE  (a + c * n) % n = a % n
<1>. DEFINE q == a \div n
            r == a % n
<1>1. a = q * n + r /\ r \in 0..(n - 1) /\ q \in Int
    BY Divided
<1>. HIDE DEF q, r
<1>2. a + c * n = (q + c) * n + r /\ q + c \in Int
    BY <1>1, Z3
<1>3. (a + c * n) % n = r
    BY <1>1, <1>2, Division
<1>. QED BY <1>3 DEF r

\* 256 years are whole cycles of leap years, so a year's octet tells a month's length.
LEMMA OctetTellsLength ==
    ASSUME NEW m \in Nat
    PROVE  LengthOf(((m \div MonthsPerYear) % 256) * MonthsPerYear + (m % MonthsPerYear)) = LengthOf(m)
<1>. DEFINE n == MonthsPerYear
            y == m \div MonthsPerYear
            k == m % MonthsPerYear
            c == y \div 256
            short == (y % 256) * MonthsPerYear + k
<1>1. n \in Nat \ {0} /\ 2 * n \in Nat \ {0}
    BY CalendarAssumption DEF MonthsPerYear
<1>2. m = y * n + k /\ k \in 0..(n - 1) /\ y \in Int
    BY <1>1, Divided
<1>3. y = c * 256 + (y % 256) /\ c \in Int /\ y % 256 \in Int
    <2>1. y \in Int
        BY <1>2
    <2>. HIDE DEF y
    <2>. QED BY <2>1
<1>4. short = (y % 256) * n + k
    OBVIOUS
<1>5. short % n = k
    BY <1>1, <1>2, <1>3, <1>4, Division
<1>. HIDE DEF n, y, k, c, short
<1>6. m = short + (c * 256) * n
    BY <1>1, <1>2, <1>3, <1>4, Z3
<1>7. m + 1 = (short + 1) + (c * 128) * (2 * n) /\ short + 1 \in Int /\ c * 128 \in Int
    <2>1. short \in Int
        BY <1>1, <1>2, <1>3, <1>4
    <2>. QED BY <1>1, <1>3, <1>6, <2>1, Z3
<1>8. (m + 1) % (2 * n) = (short + 1) % (2 * n)
    <2>. DEFINE e == c * 128
                w == 2 * n
                a == short + 1
    <2>1. w \in Nat \ {0} /\ a \in Int /\ e \in Int
        BY <1>1, <1>7
    <2>. HIDE DEF e, w, a
    <2>2. (a + e * w) % w = a % w
        BY <2>1, SameRemainder
    <2>. QED BY <1>7, <2>2 DEF e, w, a
<1>. QED BY <1>5, <1>8 DEF LengthOf, n, y, k, short

\* The moment the device shows at a time, without the weekday.
Shown(t) ==
    [year |-> localtime(t).year, month |-> localtime(t).month,
     day |-> localtime(t).day, hour |-> localtime(t).hour]

\* The fields are those of the day and the month a time is in.
LEMMA LocaltimeFacts ==
    ASSUME NEW t \in Int, t + Epoch >= 0, NEW day, day = (t + Epoch) \div HoursPerDay
    PROVE  /\ day \in Nat /\ MonthOf(day) \in Nat /\ InMonth(day, MonthOf(day))
           /\ localtime(t).year = (MonthOf(day) \div MonthsPerYear) % 256
           /\ localtime(t).month = (MonthOf(day) % MonthsPerYear) + 1
           /\ localtime(t).day = day - DaysBefore[MonthOf(day)] + 1
           /\ localtime(t).hour = (t + Epoch) % HoursPerDay
           /\ localtime(t).weekday = Weekday(day)
<1>1. t + Epoch \in Nat /\ HoursPerDay \in Nat \ {0}
    BY CalendarAssumption
<1>2. day \in Nat
    BY <1>1, DividedNat
<1>3. MonthOf(day) \in Nat /\ InMonth(day, MonthOf(day))
    BY <1>2, MonthExists
<1>. QED BY <1>2, <1>3 DEF localtime

\* What the device serves is a date of the calendar.
LEMMA LocaltimeIsDate ==
    ASSUME NEW t \in Int, t + Epoch >= 0
    PROVE  localtime(t) \in [year : 0..255, month : 1..MonthsPerYear, day : 1..31, hour : 0..(HoursPerDay - 1),
                             weekday : 1..7]
<1>. DEFINE day == (t + Epoch) \div HoursPerDay
            m == MonthOf(day)
<1>1. day \in Nat /\ m \in Nat /\ InMonth(day, m)
    BY LocaltimeFacts
<1>2. MonthsPerYear \in Nat \ {0} /\ HoursPerDay \in Nat \ {0} /\ t + Epoch \in Nat /\ 256 \in Nat \ {0}
    BY CalendarAssumption DEF MonthsPerYear
<1>3. m \div MonthsPerYear \in Nat /\ m % MonthsPerYear \in 0..(MonthsPerYear - 1)
    BY <1>1, <1>2, DividedNat
<1>4. (m \div MonthsPerYear) % 256 \in 0..255
    <2>. DEFINE y == m \div MonthsPerYear
    <2>1. y \in Nat
        BY <1>3
    <2>. HIDE DEF y
    <2>2. y % 256 \in 0..255
        BY <2>1
    <2>. QED BY <2>2 DEF y
<1>5. (t + Epoch) % HoursPerDay \in 0..(HoursPerDay - 1)
    BY <1>2, DividedNat
<1>6. day - DaysBefore[m] + 1 \in 1..31
    <2>1. DaysBefore[m] \in Nat /\ LengthOf(m) \in 1..31
        BY <1>1, DaysBeforeFacts, LengthFacts
    <2>. HIDE DEF m, day
    <2>. QED BY <1>1, <2>1 DEF InMonth
<1>7. Weekday(day) \in 1..7
    <2>. HIDE DEF day
    <2>. QED BY <1>1 DEF Weekday
<1>8. (m % MonthsPerYear) + 1 \in 1..MonthsPerYear
    <2>. DEFINE r == m % MonthsPerYear
    <2>1. r \in 0..(MonthsPerYear - 1)
        BY <1>3
    <2>. HIDE DEF r
    <2>2. r + 1 \in 1..MonthsPerYear
        BY <2>1, <1>2
    <2>. QED BY <2>2 DEF r
<1>9. localtime(t) = [year |-> (m \div MonthsPerYear) % 256, month |-> (m % MonthsPerYear) + 1,
                      day |-> day - DaysBefore[m] + 1, hour |-> (t + Epoch) % HoursPerDay,
                      weekday |-> Weekday(day)]
    BY DEF localtime
<1>. HIDE DEF m, day
<1>. QED BY <1>4, <1>5, <1>6, <1>7, <1>8, <1>9

\* A moment of the calendar that a request names is the one shown at its mktime.
LEMMA ShownAsSet ==
    ASSUME NEW m \in Moments, Exists(m)
    PROVE  mktime(m) \in Int /\ mktime(m) + Epoch >= 0 /\ Shown(mktime(m)) = m
<1>. DEFINE n == MonthsPerYear
            index == m.year * n + (m.month - 1)
            day == DaysBefore[index] + (m.day - 1)
            t == mktime(m)
<1>1. /\ m.year \in 1..255 /\ m.month \in 1..n /\ m.hour \in 0..(HoursPerDay - 1) /\ m.day \in Nat
      /\ n \in Nat \ {0} /\ HoursPerDay \in Nat \ {0} /\ Epoch \in Nat
    <2>1. m.year \in Years /\ m.day \in Days
        BY DEF Moments
    <2>2. m.month \in 1..n /\ m.hour \in 0..(HoursPerDay - 1)
        BY DEF Exists
    <2>3. n \in Nat \ {0} /\ HoursPerDay \in Nat \ {0} /\ Epoch \in Nat
        BY CalendarAssumption DEF MonthsPerYear
    <2>4. Years \subseteq 1..255 /\ Days \subseteq 0..255
        BY RequestAssumption
    <2>5. m.year \in 1..255
        BY <2>1, <2>4
    <2>6. m.day \in 0..255
        BY <2>1, <2>4
    <2>. QED BY <2>2, <2>3, <2>5, <2>6
<1>2. index \in Nat /\ m.year * n + m.month - 1 = index
    <2>1. m.year * n \in Nat
        BY <1>1
    <2>. QED BY <1>1, <2>1
<1>3. index \div n = m.year /\ index % n = m.month - 1
    <2>1. m.month - 1 \in 0..(n - 1) /\ m.year \in Int
        BY <1>1
    <2>. HIDE DEF n
    <2>. QED BY <2>1, <1>1, Division
<1>. HIDE DEF index
<1>4. m.day \in 1..LengthOf(index) /\ LengthOf(index) \in 1..31 /\ DaysBefore[index] \in Nat
    BY <1>2, LengthFacts, DaysBeforeFacts DEF Exists
<1>5. day \in Nat /\ InMonth(day, index)
    BY <1>4 DEF InMonth
<1>6. MonthOf(day) = index
    BY <1>2, <1>5, MonthIsUnique
<1>. HIDE DEF day
<1>7. t + Epoch = day * HoursPerDay + m.hour /\ t \in Int /\ t + Epoch >= 0
    <2>1. t = (DaysBefore[index] + m.day - 1) * HoursPerDay + m.hour - Epoch
        BY <1>2 DEF mktime, n
    <2>2. DaysBefore[index] + m.day - 1 = day
        BY <1>1, <1>4 DEF day
    <2>3. day * HoursPerDay \in Nat
        BY <1>1, <1>5
    <2>. HIDE DEF t
    <2>. QED BY <1>1, <2>1, <2>2, <2>3
<1>. HIDE DEF t
<1>8. (t + Epoch) \div HoursPerDay = day /\ (t + Epoch) % HoursPerDay = m.hour
    <2>1. day \in Int /\ m.hour \in 0..(HoursPerDay - 1)
        BY <1>1, <1>5
    <2>2. (day * HoursPerDay + m.hour) \div HoursPerDay = day /\ (day * HoursPerDay + m.hour) % HoursPerDay = m.hour
        BY <1>1, <2>1, Division
    <2>. QED BY <1>7, <2>2
<1>9. /\ localtime(t).year = m.year % 256 /\ localtime(t).month = (m.month - 1) + 1
      /\ localtime(t).day = day - DaysBefore[index] + 1 /\ localtime(t).hour = m.hour
    BY <1>3, <1>6, <1>7, <1>8, LocaltimeFacts DEF n
<1>10. m.year % 256 = m.year /\ (m.month - 1) + 1 = m.month /\ day - DaysBefore[index] + 1 = m.day
    BY <1>1, <1>4 DEF day
<1>11. m = [year |-> m.year, month |-> m.month, day |-> m.day, hour |-> m.hour]
    BY DEF Moments
<1>12. Shown(t) = m
    BY <1>9, <1>10, <1>11 DEF Shown
<1>. QED BY <1>7, <1>12 DEF t

\* The four ways in which a calendar moves on.
LEMMA HourLaterCases ==
    ASSUME NEW y \in Int, NEW mo \in 1..MonthsPerYear, NEW d \in Int, NEW h \in 0..(HoursPerDay - 1),
           NEW last \in Int, last = LengthOf(y * MonthsPerYear + mo - 1), d <= last,
           NEW m, m = [year |-> y, month |-> mo, day |-> d, hour |-> h]
    PROVE  /\ h # HoursPerDay - 1 => HourLater(m) = [year |-> y, month |-> mo, day |-> d, hour |-> h + 1]
           /\ h = HoursPerDay - 1 /\ d # last =>
                 HourLater(m) = [year |-> y, month |-> mo, day |-> d + 1, hour |-> 0]
           /\ h = HoursPerDay - 1 /\ d = last /\ mo # MonthsPerYear =>
                 HourLater(m) = [year |-> y, month |-> mo + 1, day |-> 1, hour |-> 0]
           /\ h = HoursPerDay - 1 /\ d = last /\ mo = MonthsPerYear =>
                 HourLater(m) = [year |-> (y + 1) % 256, month |-> 1, day |-> 1, hour |-> 0]
<1>0. HoursPerDay \in Nat \ {0} /\ MonthsPerYear \in Nat \ {0}
    BY CalendarAssumption DEF MonthsPerYear
<1>1. m.year = y /\ m.month = mo /\ m.day = d /\ m.hour = h
    OBVIOUS
<1>2. LengthOf(m.year * MonthsPerYear + m.month - 1) = last
    BY <1>1
<1>3. ASSUME h # HoursPerDay - 1
      PROVE  HourLater(m) = [year |-> y, month |-> mo, day |-> d, hour |-> h + 1]
    <2>1. m.hour + 1 < HoursPerDay /\ m.hour + 1 # HoursPerDay
        BY <1>0, <1>1, <1>3
    <2>2. HourLater(m) = [m EXCEPT !.hour = @ + 1]
        BY <2>1 DEF HourLater
    <2>. QED BY <2>2
<1>4. ASSUME h = HoursPerDay - 1, d # last
      PROVE  HourLater(m) = [year |-> y, month |-> mo, day |-> d + 1, hour |-> 0]
    <2>1. m.hour + 1 = HoursPerDay /\ ~(m.hour + 1 < HoursPerDay) /\ m.day < last /\ m.day # last
        BY <1>0, <1>1, <1>4
    <2>2. HourLater(m) = [m EXCEPT !.hour = 0, !.day = @ + 1]
        BY <2>1, <1>2 DEF HourLater
    <2>. QED BY <2>2
<1>5. ASSUME h = HoursPerDay - 1, d = last, mo # MonthsPerYear
      PROVE  HourLater(m) = [year |-> y, month |-> mo + 1, day |-> 1, hour |-> 0]
    <2>1. /\ m.hour + 1 = HoursPerDay /\ ~(m.hour + 1 < HoursPerDay) /\ m.day = last /\ ~(m.day < last)
          /\ m.month < MonthsPerYear
        BY <1>0, <1>1, <1>5
    <2>2. HourLater(m) = [m EXCEPT !.hour = 0, !.day = 1, !.month = @ + 1]
        BY <2>1, <1>2 DEF HourLater
    <2>. QED BY <2>2
<1>6. ASSUME h = HoursPerDay - 1, d = last, mo = MonthsPerYear
      PROVE  HourLater(m) = [year |-> (y + 1) % 256, month |-> 1, day |-> 1, hour |-> 0]
    <2>1. /\ m.hour + 1 = HoursPerDay /\ ~(m.hour + 1 < HoursPerDay) /\ m.day = last /\ ~(m.day < last)
          /\ ~(m.month < MonthsPerYear)
        BY <1>0, <1>1, <1>6
    <2>2. HourLater(m) = [year |-> (m.year + 1) % 256, month |-> 1, day |-> 1, hour |-> 0]
        BY <2>1, <1>2 DEF HourLater
    <2>. QED BY <2>2, <1>1
<1>. QED BY <1>3, <1>4, <1>5, <1>6

\* The weekday of the next day.
LEMMA NextWeekday ==
    ASSUME NEW day \in Nat
    PROVE  Weekday(day + 1) = (Weekday(day) % 7) + 1
  BY DEF Weekday

\* What has to be shown of the hour after t.
MovesOn(t) ==
    /\ Shown(t + 1) = HourLater(Shown(t))
    /\ localtime(t + 1).weekday =
          IF /\ localtime(t + 1).year = localtime(t).year
             /\ localtime(t + 1).month = localtime(t).month
             /\ localtime(t + 1).day = localtime(t).day
          THEN localtime(t).weekday ELSE (localtime(t).weekday % 7) + 1

\* An hour later the device shows what a calendar shows an hour later, and the weekday
\* has moved on if the date has.
LEMMA ShowsHourLater ==
    ASSUME NEW t \in Int, t + Epoch >= 0
    PROVE  MovesOn(t)
<1>. DEFINE hours == t + Epoch
            day == hours \div HoursPerDay
            hour == hours % HoursPerDay
            month == MonthOf(day)
            n == MonthsPerYear
            y == month \div n
            k == month % n
            d == day - DaysBefore[month] + 1
            last == LengthOf(month)
            m == [year |-> y % 256, month |-> k + 1, day |-> d, hour |-> hour]
            new == localtime(t + 1)
<1>1. HoursPerDay \in Nat \ {0} /\ n \in Nat \ {0} /\ n >= 2 /\ hours \in Nat
    BY CalendarAssumption DEF MonthsPerYear
<1>2. day \in Nat /\ hour \in 0..(HoursPerDay - 1)
    BY <1>1, DividedNat
<1>3. month \in Nat /\ InMonth(day, month)
    BY <1>2, MonthExists
<1>4. y \in Nat /\ k \in 0..(n - 1)
    BY <1>1, <1>3, DividedNat
<1>5. DaysBefore[month] \in Nat /\ DaysBefore[month + 1] = DaysBefore[month] + last /\ last \in 1..31
    BY <1>3, DaysBeforeFacts, LengthFacts
<1>6. d \in 1..last /\ day = DaysBefore[month] + (d - 1)
    <2>. HIDE DEF day, month, last
    <2>. QED BY <1>2, <1>3, <1>5 DEF InMonth, last
<1>7. /\ localtime(t).year = y % 256 /\ localtime(t).month = k + 1 /\ localtime(t).day = d
      /\ localtime(t).hour = hour /\ localtime(t).weekday = Weekday(day)
    BY LocaltimeFacts
<1>8. Shown(t) = m
    BY <1>7 DEF Shown
<1>9. t + 1 \in Int /\ (t + 1) + Epoch = hours + 1 /\ (t + 1) + Epoch >= 0
    BY CalendarAssumption
<1>10. y % 256 \in 0..255
    <2>. HIDE DEF y
    <2>. QED BY <1>4
<1>11. LengthOf((y % 256) * n + (k + 1) - 1) = last
    <2>1. LengthOf((y % 256) * n + k) = last
        BY <1>3, OctetTellsLength
    <2>2. (y % 256) * n + (k + 1) - 1 = (y % 256) * n + k
        <3>. DEFINE a == (y % 256) * n
        <3>1. a \in Int /\ k \in Int
            BY <1>1, <1>4, <1>10
        <3>. HIDE DEF a, k
        <3>. QED BY <3>1 DEF a
    <2>. QED BY <2>1, <2>2
<1>12. IF hour = HoursPerDay - 1 THEN (hours + 1) \div HoursPerDay = day + 1 /\ (hours + 1) % HoursPerDay = 0
       ELSE (hours + 1) \div HoursPerDay = day /\ (hours + 1) % HoursPerDay = hour + 1
    BY <1>1, OneMore
<1>13. IF k = n - 1 THEN (month + 1) \div n = y + 1 /\ (month + 1) % n = 0
       ELSE (month + 1) \div n = y /\ (month + 1) % n = k + 1
    BY <1>1, <1>3, OneMore
<1>14. \A next : next = ((t + 1) + Epoch) \div HoursPerDay =>
          /\ new.year = (MonthOf(next) \div n) % 256 /\ new.month = (MonthOf(next) % n) + 1
          /\ new.day = next - DaysBefore[MonthOf(next)] + 1 /\ new.hour = ((t + 1) + Epoch) % HoursPerDay
          /\ new.weekday = Weekday(next)
    BY <1>9, LocaltimeFacts
<1>15. Shown(t + 1) = [year |-> new.year, month |-> new.month, day |-> new.day, hour |-> new.hour]
    BY DEF Shown
<1>16. /\ hour # HoursPerDay - 1 => HourLater(m) = [year |-> y % 256, month |-> k + 1, day |-> d, hour |-> hour + 1]
       /\ hour = HoursPerDay - 1 /\ d # last =>
             HourLater(m) = [year |-> y % 256, month |-> k + 1, day |-> d + 1, hour |-> 0]
       /\ hour = HoursPerDay - 1 /\ d = last /\ k + 1 # n =>
             HourLater(m) = [year |-> y % 256, month |-> (k + 1) + 1, day |-> 1, hour |-> 0]
       /\ hour = HoursPerDay - 1 /\ d = last /\ k + 1 = n =>
             HourLater(m) = [year |-> ((y % 256) + 1) % 256, month |-> 1, day |-> 1, hour |-> 0]
    <2>1. k + 1 \in 1..MonthsPerYear /\ y % 256 \in Int /\ d \in Int /\ last \in Int /\ d <= last
        <3>. HIDE DEF k, d, last
        <3>. QED BY <1>1, <1>4, <1>5, <1>6, <1>10
    <2>. HIDE DEF y, k, d, last, hour
    <2>. QED BY <1>2, <1>11, <2>1, HourLaterCases
<1>. HIDE DEF hours, day, hour, month, y, k, d, last, m, new
<1>17. CASE hour # HoursPerDay - 1
    <2>1. /\ new.year = y % 256 /\ new.month = k + 1 /\ new.day = d /\ new.hour = hour + 1
          /\ new.weekday = Weekday(day)
        BY <1>9, <1>12, <1>14, <1>17 DEF month, y, k, d
    <2>. QED BY <1>7, <1>8, <1>15, <1>16, <1>17, <2>1 DEF MovesOn, new
<1>18. CASE hour = HoursPerDay - 1 /\ d # last
    <2>1. MonthOf(day + 1) = month
        <3>1. day + 1 \in Nat /\ InMonth(day + 1, month)
            BY <1>2, <1>5, <1>6, <1>18 DEF InMonth, last
        <3>. QED BY <1>3, <3>1, MonthIsUnique
    <2>2. (day + 1) - DaysBefore[month] + 1 = d + 1
        BY <1>2, <1>5, <1>6
    <2>3. /\ new.year = y % 256 /\ new.month = k + 1 /\ new.day = d + 1 /\ new.hour = 0
          /\ new.weekday = (Weekday(day) % 7) + 1
        BY <1>2, <1>9, <1>12, <1>14, <1>18, <2>1, <2>2, NextWeekday DEF y, k
    <2>4. d + 1 # d
        BY <1>6, <1>5
    <2>. QED BY <1>7, <1>8, <1>15, <1>16, <1>18, <2>3, <2>4 DEF MovesOn, new
<1>19. CASE hour = HoursPerDay - 1 /\ d = last
    <2>1. MonthOf(day + 1) = month + 1 /\ (day + 1) - DaysBefore[month + 1] + 1 = 1
        <3>1. month + 1 \in Nat /\ LengthOf(month + 1) \in 1..31
            BY <1>3, LengthFacts
        <3>2. day + 1 \in Nat /\ day + 1 = DaysBefore[month + 1]
            BY <1>2, <1>5, <1>6, <1>19
        <3>3. InMonth(day + 1, month + 1)
            BY <3>1, <3>2 DEF InMonth
        <3>. QED BY <3>1, <3>2, <3>3, MonthIsUnique
    <2>2. /\ new.year = ((month + 1) \div n) % 256 /\ new.month = ((month + 1) % n) + 1 /\ new.day = 1
          /\ new.hour = 0 /\ new.weekday = (Weekday(day) % 7) + 1
        BY <1>2, <1>9, <1>12, <1>14, <1>19, <2>1, NextWeekday
    <2>3. CASE k + 1 # n
        <3>1. new.year = y % 256 /\ new.month = (k + 1) + 1
            BY <1>1, <1>4, <1>13, <2>2, <2>3
        <3>2. (k + 1) + 1 # k + 1
            BY <1>4
        <3>. QED BY <1>7, <1>8, <1>15, <1>16, <1>19, <2>2, <2>3, <3>1, <3>2 DEF MovesOn, new
    <2>4. CASE k + 1 = n
        <3>1. new.year = (y + 1) % 256 /\ new.month = 1
            BY <1>1, <1>4, <1>13, <2>2, <2>4
        <3>2. (y + 1) % 256 = ((y % 256) + 1) % 256
            BY <1>4
        <3>3. k + 1 # 1
            BY <1>1, <2>4
        <3>. QED BY <1>7, <1>8, <1>15, <1>16, <1>19, <2>2, <2>4, <3>1, <3>2, <3>3 DEF MovesOn, new
    <2>. QED BY <2>3, <2>4
<1>. QED BY <1>17, <1>18, <1>19

-----------------------------------------------------------------------------
(* The specification. *)

\* The device's clock never shows a time before the calendar starts, and once set it
\* shows what the calendar does.
ClockInv ==
    /\ host \in HostStart..MaxHost /\ g_clockOffsetSeconds \in Int
    /\ host + g_clockOffsetSeconds + Epoch >= 0
    /\ expected # None => expected = Shown(host + g_clockOffsetSeconds)

\* Any request, on the calendar or off it, is for a time the calendar has.
LEMMA RequestedTime ==
    ASSUME NEW m \in Moments
    PROVE  mktime(m) \in Int /\ mktime(m) + Epoch >= 0
<1>. DEFINE n == MonthsPerYear
            index == m.year * n + m.month - 1
            day == DaysBefore[index] + m.day - 1
<1>1. m.year \in 1..255 /\ m.month \in 0..255 /\ m.day \in 0..255 /\ m.hour \in 0..255
    <2>1. m.year \in Years /\ m.month \in Months /\ m.day \in Days /\ m.hour \in Hours
        BY DEF Moments
    <2>2. Years \subseteq 1..255 /\ Months \subseteq 0..255 /\ Days \subseteq 0..255 /\ Hours \subseteq 0..255
        BY RequestAssumption
    <2>. QED BY <2>1, <2>2
<1>2. n \in Nat /\ n >= 2 /\ HoursPerDay \in Nat \ {0} /\ Epoch \in Nat
    BY CalendarAssumption DEF MonthsPerYear
<1>3. index \in Nat /\ index >= 1
    <2>. DEFINE a == m.year * n
    <2>1. a \in Nat /\ a >= 2
        <3>. DEFINE b == m.year
        <3>1. b \in Nat /\ b >= 1
            BY <1>1
        <3>. HIDE DEF b, n
        <3>2. b * n >= 2 /\ b * n \in Nat
            BY <3>1, <1>2, Z3
        <3>. QED BY <3>2 DEF b
    <2>. HIDE DEF a
    <2>2. a + m.month - 1 \in Nat /\ a + m.month - 1 >= 1
        BY <1>1, <2>1
    <2>. QED BY <2>2 DEF a
<1>. HIDE DEF index
<1>4. day \in Nat
    <2>1. DaysBefore[index] \in Nat /\ DaysBefore[index] >= index
        BY <1>3, DaysBeforeFacts
    <2>. QED BY <1>1, <1>3, <2>1
<1>5. mktime(m) = day * HoursPerDay + m.hour - Epoch
    BY DEF mktime, index
<1>. HIDE DEF day
<1>6. day * HoursPerDay \in Nat
    BY <1>2, <1>4
<1>. QED BY <1>1, <1>2, <1>5, <1>6

\* At start-up the device shows the host's time, and nothing is expected of it.
LEMMA ClockInitInv == ClockInit => ClockInv
  BY CalendarAssumption DEF ClockInit, ClockInv

\* A request sets the clock, the host's clock moves on.
LEMMA ClockNextInv == ClockInv /\ [ClockNext]_clockVars => ClockInv'
<1>. SUFFICES ASSUME ClockInv, [ClockNext]_clockVars PROVE ClockInv'
    OBVIOUS
<1>0. Epoch \in Nat /\ HostStart \in Nat /\ MaxHost \in Nat
    BY CalendarAssumption
<1>1. CASE HourPasses
    <2>. DEFINE t == host + g_clockOffsetSeconds
    <2>1. host' = host + 1 /\ host < MaxHost /\ g_clockOffsetSeconds' = g_clockOffsetSeconds
        BY <1>1 DEF HourPasses
    <2>2. t \in Int /\ t + Epoch >= 0 /\ host' + g_clockOffsetSeconds' = t + 1
        BY <2>1, <1>0 DEF ClockInv
    <2>3. ASSUME expected' # None PROVE expected' = Shown(t + 1)
        <3>1. expected # None /\ expected' = HourLater(expected)
            BY <1>1, <2>3 DEF HourPasses
        <3>2. expected = Shown(t)
            BY <3>1 DEF ClockInv
        <3>. QED BY <2>2, <3>1, <3>2, ShowsHourLater DEF MovesOn
    <2>. HIDE DEF t
    <2>4. host' + g_clockOffsetSeconds' + Epoch >= 0
        BY <2>2, <1>0
    <2>5. host' \in HostStart..MaxHost /\ g_clockOffsetSeconds' \in Int
        BY <2>1, <1>0 DEF ClockInv
    <2>. QED BY <2>2, <2>3, <2>4, <2>5 DEF ClockInv
<1>2. ASSUME NEW m \in Moments, SetSystemTime(m)
      PROVE  ClockInv'
    <2>1. g_clockOffsetSeconds' = mktime(m) - host /\ host' = host /\ expected' = IF Exists(m) THEN m ELSE None
        BY <1>2 DEF SetSystemTime
    <2>2. mktime(m) \in Int /\ mktime(m) + Epoch >= 0
        BY RequestedTime
    <2>3. host' + g_clockOffsetSeconds' = mktime(m) /\ host' \in HostStart..MaxHost /\ g_clockOffsetSeconds' \in Int
        BY <1>0, <2>1, <2>2 DEF ClockInv
    <2>4. expected' # None => expected' = Shown(mktime(m))
        BY <2>1, ShownAsSet
    <2>. QED BY <2>2, <2>3, <2>4 DEF ClockInv
<1>3. ASSUME NEW m \in Moments, IgnoreSystemTime(m)
      PROVE  ClockInv'
    BY <1>3 DEF IgnoreSystemTime, clockVars, ClockInv
<1>4. CASE UNCHANGED clockVars
    BY <1>4 DEF clockVars, ClockInv
<1>. QED BY <1>1, <1>2, <1>3, <1>4 DEF ClockNext

\* So it holds throughout.
LEMMA ClockAlwaysInv == ClockSpec => []ClockInv
  BY ClockInitInv, ClockNextInv, PTL DEF ClockSpec

\* What is shown of an invariant state is what is expected.
LEMMA InvShowsExpected == ClockInv => FollowsSynchronisedTime
<1>. SUFFICES ASSUME ClockInv PROVE FollowsSynchronisedTime
    OBVIOUS
<1>. DEFINE t == host + g_clockOffsetSeconds
<1>1. t \in Int /\ t + Epoch >= 0
    BY CalendarAssumption DEF ClockInv
<1>2. localtime(t) \in [year : 0..255, month : 1..MonthsPerYear, day : 1..31, hour : 0..(HoursPerDay - 1),
                        weekday : 1..7]
    BY <1>1, LocaltimeIsDate
<1>3. Local = localtime(t)
    BY DEF Local
<1>4. ClockTypeOK
    BY <1>2, <1>3 DEF ClockInv, ClockTypeOK
<1>5. ASSUME expected # None, NEW f \in {"year", "month", "day", "hour"}
      PROVE  Local[f] = expected[f]
    <2>1. expected = Shown(t)
        BY <1>5 DEF ClockInv
    <2>. HIDE DEF t
    <2>2. expected = [year |-> localtime(t).year, month |-> localtime(t).month,
                      day |-> localtime(t).day, hour |-> localtime(t).hour]
        BY <2>1 DEF Shown
    <2>. QED BY <1>3, <2>2
<1>. QED BY <1>4, <1>5 DEF FollowsSynchronisedTime

\* For every calendar, every hour of the host's clock and every sequence of requests:
\* after a request that names a moment of the calendar the device shows, hour for hour
\* and across the ends of days, months, years and of the year's octet, what a calendar
\* set to that moment would; and it always serves a date (SetSystemTime, GetPropertyDate,
\* GetPropertyTime).
THEOREM ClockFollowsSynchronisedTime == ClockSpec => []FollowsSynchronisedTime
  BY ClockAlwaysInv, InvShowsExpected, PTL

\* For every calendar: an hour later the weekday is the same if the date is, and the
\* next one, Monday after Sunday, if it is not (ReadDeviceDateTime).
THEOREM ClockWeekdayFollowsDate == ClockSpec => WeekdayFollowsDate
<1>1. ASSUME ClockInv, [ClockNext]_clockVars
      PROVE  [host' = host + 1 =>
                 Local.weekday' = IF Date' = Date THEN Local.weekday ELSE (Local.weekday % 7) + 1]_clockVars
    <2>. DEFINE t == host + g_clockOffsetSeconds
    <2>1. SUFFICES ASSUME host' = host + 1
                   PROVE  Local.weekday' = IF Date' = Date THEN Local.weekday ELSE (Local.weekday % 7) + 1
        OBVIOUS
    <2>2. host \in Int
        BY <1>1, CalendarAssumption DEF ClockInv
    <2>3. HourPasses
        BY <1>1, <2>1, <2>2 DEF ClockNext, SetSystemTime, IgnoreSystemTime, clockVars
    <2>4. g_clockOffsetSeconds' = g_clockOffsetSeconds /\ t \in Int /\ t + Epoch >= 0
        BY <1>1, <2>2, <2>3, CalendarAssumption DEF HourPasses, ClockInv
    <2>5. host' + g_clockOffsetSeconds' = t + 1
        BY <1>1, <2>1, <2>2, <2>4 DEF ClockInv
    <2>6. Local = localtime(t)
        BY DEF Local
    <2>7. Local' = localtime(t + 1)
        BY <2>5 DEF Local
    <2>. HIDE DEF t
    <2>8. MovesOn(t)
        BY <2>4, ShowsHourLater
    <2>9. Date = <<localtime(t).year, localtime(t).month, localtime(t).day>>
        BY <2>6 DEF Date
    <2>10. Date' = <<localtime(t + 1).year, localtime(t + 1).month, localtime(t + 1).day>>
        BY <2>7 DEF Date
    <2>11. Date' = Date <=> /\ localtime(t + 1).year = localtime(t).year
                            /\ localtime(t + 1).month = localtime(t).month
                            /\ localtime(t + 1).day = localtime(t).day
        BY <2>9, <2>10
    <2>. QED BY <2>6, <2>7, <2>8, <2>11 DEF MovesOn
<1>. QED BY <1>1, ClockAlwaysInv, PTL DEF ClockSpec, WeekdayFollowsDate
=============================================================================
