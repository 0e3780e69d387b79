--------------------------- MODULE TransportProofs ---------------------------
(***************************************************************************)
(* Both ends of the wire.  What the transport promises, for every number   *)
(* of Network Ports, every set of peers and every length of the sockets'   *)
(* queues; and that a call of the wire tests' client returns its own       *)
(* answer, whatever the network does and however many invoke ids there are.*)
(***************************************************************************)
EXTENDS UdpTransport, WireClient, TLAPS

Binding == [instance : Instances, port : Ports \cup {None}, bound : BOOLEAN, open : BOOLEAN,
            peer : {None} \cup (OtherHosts \X SourcePorts), heardOn : Ports \cup {None}]

\* What can wait at binding i.
Datagram(i) == [from : {None} \cup (OtherHosts \X SourcePorts), to : {i}]

\* Where bindings come from: an instance has one entry, which SetupUDP takes up again.
OneEntryEach ==
    \A i, j \in Bindings : g_udpBindings[i].instance = g_udpBindings[j].instance => i = j

WaitingWhereSent == \A i \in Bindings : waiting[i] \in Seq(Datagram(i))

\* The socket that heard the broadcasts on the port then bound is nobody's remembered peer.
PeerOnAnotherPort ==
    \A i \in Bindings : g_udpBindings[i].peer # None => g_udpBindings[i].peer[2] # g_udpBindings[i].heardOn

\* An entry as a SetupUDP of the instance on the port leaves it when it returns true.
ReadyOn(binding, instance, port) ==
    binding.instance = instance /\ binding.bound /\ binding.open /\ binding.port = port

SetUpIsBound == \A s \in setUp : \E i \in Bindings : ReadyOn(g_udpBindings[i], s[1], s[2])

ReportedFrom ==
    last.what = "received" =>
        /\ last.datagram.to \in Bindings
        /\ g_udpBindings[last.datagram.to].instance = last.instance

TableInv == TypeOK /\ OneEntryEach /\ PeerOnAnotherPort /\ SetUpIsBound
IInv == TableInv /\ WaitingWhereSent /\ ReportedFrom /\ BroadcastReachesPeersOnce

-----------------------------------------------------------------------------
\* A function on 1..n is a sequence of length n.
LEMMA FunctionIsSeq ==
    ASSUME NEW S, NEW n \in Nat, NEW f, f = [j \in 1..n |-> f[j]], \A j \in 1..n : f[j] \in S
    PROVE  f \in Seq(S) /\ Len(f) = n /\ DOMAIN f = 1..n
<1>1. f \in [1..n -> S]
    OBVIOUS
<1>. QED BY <1>1

\* A frame and its copy.
LEMMA OneAndOne ==
    ASSUME NEW a, NEW b
    PROVE  Len(<<a>> \o <<b>>) = 2 /\ (<<a>> \o <<b>>)[1] = a /\ (<<a>> \o <<b>>)[2] = b
OBVIOUS

\* A datagram appended to a queue.
LEMMA AppendIsSeq ==
    ASSUME NEW S, NEW q \in Seq(S), NEW e \in S
    PROVE  Append(q, e) \in Seq(S)
OBVIOUS

\* An entry of the table.
LEMMA EntryIsBinding == ASSUME NEW a \in Instances PROVE UdpBinding(a) \in Binding
BY DEF Binding, UdpBinding

\* What SetupUDP makes of an entry when Connect succeeds, and when it fails.
LEMMA ConnectFacts ==
    ASSUME NEW b \in Binding, NEW p \in Ports
    PROVE  /\ [b EXCEPT !.port = p, !.bound = TRUE, !.open = TRUE] \in Binding
           /\ ReadyOn([b EXCEPT !.port = p, !.bound = TRUE, !.open = TRUE], b.instance, p)
           /\ [b EXCEPT !.port = p, !.bound = TRUE, !.open = TRUE].peer = b.peer
           /\ [b EXCEPT !.port = p, !.bound = TRUE, !.open = TRUE].heardOn = b.heardOn
           /\ Disconnect(b) \in Binding
           /\ Disconnect(b).instance = b.instance
           /\ Disconnect(b).peer = b.peer
           /\ Disconnect(b).heardOn = b.heardOn
BY DEF Binding, Disconnect, ReadyOn

\* The table's entries.
LEMMA TableFacts ==
    ASSUME TypeOK
    PROVE  /\ Count \in Nat /\ Bindings = 1..Count
           /\ \A i \in Bindings : g_udpBindings[i] \in Binding
<1>1. g_udpBindings \in Seq(Binding)
    BY DEF TypeOK, Binding
<1>. QED BY <1>1 DEF Count, Bindings

\* FindUdpBindingByInstance: the only entry with the instance, 0 when there is none.
LEMMA FindFacts ==
    ASSUME TypeOK, OneEntryEach, NEW instance
    PROVE  LET found == FindUdpBindingByInstance(instance) IN
           /\ found = 0 => \A i \in Bindings : g_udpBindings[i].instance # instance
           /\ found # 0 => found \in Bindings /\ g_udpBindings[found].instance = instance
           /\ \A i \in Bindings : g_udpBindings[i].instance = instance => found = i
<1>. DEFINE S == {i \in Bindings : g_udpBindings[i].instance = instance}
            found == FindUdpBindingByInstance(instance)
<1>0. Bindings = 1..Count /\ Count \in Nat
    BY TableFacts
<1>1. CASE S = {}
    <2>1. found = 0
        BY <1>1 DEF FindUdpBindingByInstance
    <2>. QED BY <2>1, <1>1, <1>0
<1>2. CASE S # {}
    <2>1. PICK k : k \in S
        BY <1>2
    <2>2. S = {k}
        BY <2>1 DEF OneEntryEach
    <2>3. k \in 1..Count /\ k # 0
        BY <2>1, <1>0
    <2>4. found = CHOOSE i \in S : \A j \in S : i <= j
        BY <1>2 DEF FindUdpBindingByInstance
    <2>5. \E i \in S : \A j \in S : i <= j
        BY <2>2, <2>3
    <2>6. found \in S
        BY <2>4, <2>5
    <2>7. found = k
        BY <2>2, <2>6
    <2>8. /\ found # 0 /\ found \in Bindings /\ g_udpBindings[found].instance = instance
          /\ \A i \in Bindings : g_udpBindings[i].instance = instance => found = i
        <3>. HIDE DEF found
        <3>. QED BY <2>1, <2>2, <2>3, <2>7
    <2>. QED BY <2>8, Zenon
<1>. QED BY <1>1, <1>2

-----------------------------------------------------------------------------
\* SetupUDP adds an entry for an instance that has none, or takes up the one it has.
LEMMA SetupKeepsIInv ==
    ASSUME IInv, NEW port \in Ports, NEW instance \in Instances, SetupUDP(port, instance)
    PROVE  IInv'
<1>. DEFINE found == FindUdpBindingByInstance(instance)
            i == IF found = 0 THEN Count + 1 ELSE found
            n == IF found = 0 THEN Count + 1 ELSE Count
            old == IF found = 0 THEN UdpBinding(instance) ELSE g_udpBindings[found]
<1>1. /\ found = 0 => Count < MAX_UDP_BINDINGS
      /\ last' = [what |-> "setUp", binding |-> i] /\ next' = next
      /\ waiting' = [j \in Bindings \cup {i} |-> IF j = i THEN <<>> ELSE waiting[j]]
    BY DEF SetupUDP
<1>2. PICK connected \in BOOLEAN :
        /\ g_udpBindings' = [j \in Bindings \cup {i} |->
               CASE j # i -> g_udpBindings[j]
                 [] j = i /\ connected -> [old EXCEPT !.port = port, !.bound = TRUE, !.open = TRUE]
                 [] j = i /\ ~connected -> Disconnect(old)]
        /\ setUp' = {s \in setUp : s[1] # instance}
                      \cup (IF connected THEN {<<instance, port>>} ELSE {})
    BY DEF SetupUDP, Connect
<1>3. /\ TypeOK /\ OneEntryEach /\ PeerOnAnotherPort /\ SetUpIsBound /\ WaitingWhereSent
    BY DEF IInv, TableInv
<1>4. /\ found = 0 => \A j \in Bindings : g_udpBindings[j].instance # instance
      /\ found # 0 => found \in Bindings /\ g_udpBindings[found].instance = instance
      /\ \A j \in Bindings : g_udpBindings[j].instance = instance => found = j
    BY <1>3, FindFacts
<1>5. Count \in Nat /\ Bindings = 1..Count /\ \A j \in Bindings : g_udpBindings[j] \in Binding
    BY <1>3, TableFacts
<1>. HIDE DEF found
<1>6. n \in Nat /\ n <= MAX_UDP_BINDINGS /\ Bindings \cup {i} = 1..n /\ i \in 1..n
    BY <1>1, <1>3, <1>4, <1>5, UdpAssumption DEF TypeOK
<1>7. \A j \in Bindings : j # i => g_udpBindings[j].instance # instance
    BY <1>4, <1>5
<1>7a. \A j \in 1..n : j # i => j \in Bindings
    BY <1>6
<1>7b. old \in Binding /\ old.instance = instance /\ (old.peer # None => old.peer[2] # old.heardOn)
    <2>1. CASE found = 0
        BY <2>1, EntryIsBinding DEF UdpBinding
    <2>2. CASE found # 0
        BY <2>2, <1>3, <1>4, <1>5 DEF PeerOnAnotherPort
    <2>. QED BY <2>1, <2>2
<1>. HIDE DEF i, n, old
<1>8. /\ \A j \in 1..n : j # i => g_udpBindings'[j] = g_udpBindings[j] /\ j \in Bindings
      /\ g_udpBindings'[i] = IF connected THEN [old EXCEPT !.port = port, !.bound = TRUE, !.open = TRUE]
                             ELSE Disconnect(old)
    BY <1>2, <1>6, <1>7a
<1>9. /\ g_udpBindings'[i] \in Binding
      /\ g_udpBindings'[i].instance = instance
      /\ connected => ReadyOn(g_udpBindings'[i], instance, port)
      /\ g_udpBindings'[i].peer = old.peer /\ g_udpBindings'[i].heardOn = old.heardOn
    <2>1. CASE connected
        <3>. DEFINE b == [old EXCEPT !.port = port, !.bound = TRUE, !.open = TRUE]
        <3>1. g_udpBindings'[i] = b
            BY <2>1, <1>8
        <3>2. b \in Binding /\ ReadyOn(b, instance, port) /\ b.peer = old.peer /\ b.heardOn = old.heardOn
            BY <1>7b, ConnectFacts
        <3>3. b.instance = instance
            BY <3>2 DEF ReadyOn
        <3>. HIDE DEF b
        <3>. QED BY <3>1, <3>2, <3>3
    <2>2. CASE ~connected
        BY <2>2, <1>7b, <1>8, ConnectFacts
    <2>. QED BY <2>1, <2>2
<1>9a. \A j \in 1..n : g_udpBindings'[j] \in Binding
    BY <1>5, <1>8, <1>9
<1>10. g_udpBindings' = [j \in 1..n |-> g_udpBindings'[j]]
    BY <1>2, <1>6
<1>11. g_udpBindings' \in Seq(Binding) /\ Count' = n /\ Bindings' = 1..n
    BY <1>6, <1>9a, <1>10, FunctionIsSeq DEF Count, Bindings
<1>12. TypeOK'
    <2>1. DOMAIN waiting' = 1..n
        BY <1>1, <1>6
    <2>2. setUp' \subseteq Instances \X Ports
        BY <1>2, <1>3 DEF TypeOK
    <2>3. next' \in Nat
        BY <1>1, <1>3 DEF TypeOK
    <2>. QED BY <1>6, <1>11, <2>1, <2>2, <2>3 DEF TypeOK, Binding
<1>14. OneEntryEach'
    <2>. SUFFICES ASSUME NEW j \in 1..n, NEW k \in 1..n,
                         g_udpBindings'[j].instance = g_udpBindings'[k].instance
                  PROVE  j = k
        BY <1>11 DEF OneEntryEach
    <2>1. CASE j = i
        BY <2>1, <1>7, <1>8, <1>9
    <2>2. CASE k = i
        BY <2>2, <1>7, <1>8, <1>9
    <2>3. CASE j # i /\ k # i
        BY <2>3, <1>3, <1>8 DEF OneEntryEach
    <2>. QED BY <2>1, <2>2, <2>3
<1>15. PeerOnAnotherPort'
    BY <1>3, <1>7b, <1>8, <1>9, <1>11 DEF PeerOnAnotherPort
<1>16. SetUpIsBound'
    <2>. SUFFICES ASSUME NEW s \in setUp'
                  PROVE  \E j \in 1..n : ReadyOn(g_udpBindings'[j], s[1], s[2])
        BY <1>11 DEF SetUpIsBound, ReadyOn
    <2>1. CASE s \in setUp /\ s[1] # instance
        <3>1. PICK j \in Bindings : ReadyOn(g_udpBindings[j], s[1], s[2])
            BY <1>3, <2>1 DEF SetUpIsBound
        <3>2. j # i
            BY <1>4, <1>5, <2>1, <3>1 DEF i, ReadyOn
        <3>. QED BY <3>1, <3>2, <1>6, <1>8
    <2>2. CASE ~(s \in setUp /\ s[1] # instance)
        <3>1. connected /\ s = <<instance, port>>
            BY <1>2, <2>2
        <3>2. s[1] = instance /\ s[2] = port
            BY <3>1
        <3>. QED BY <3>1, <3>2, <1>6, <1>9
    <2>. QED BY <2>1, <2>2
<1>17. WaitingWhereSent'
    <2>. SUFFICES ASSUME NEW j \in 1..n PROVE waiting'[j] \in Seq(Datagram(j))
        BY <1>11 DEF WaitingWhereSent, Datagram
    <2>1. waiting'[j] = IF j = i THEN <<>> ELSE waiting[j]
        BY <1>1, <1>6
    <2>. QED BY <2>1, <1>3, <1>7a DEF WaitingWhereSent
<1>18. ReportedFrom' /\ BroadcastReachesPeersOnce'
    BY <1>1 DEF ReportedFrom, BroadcastReachesPeersOnce
<1>. QED BY <1>12, <1>14, <1>15, <1>16, <1>17, <1>18 DEF IInv, TableInv

\* ShutdownUDP closes the sockets and keeps their entries.
LEMMA ShutdownKeepsIInv ==
    ASSUME IInv, ShutdownUDP
    PROVE  IInv'
<1>1. /\ TypeOK /\ OneEntryEach /\ PeerOnAnotherPort
      /\ Count \in Nat /\ Bindings = 1..Count /\ \A j \in Bindings : g_udpBindings[j] \in Binding
    BY TableFacts DEF IInv, TableInv
<1>2. \A j \in 1..Count :
         \/ g_udpBindings'[j] = [[g_udpBindings[j] EXCEPT !.open = FALSE] EXCEPT !.bound = FALSE]
         \/ g_udpBindings'[j] = g_udpBindings[j]
    BY <1>1 DEF ShutdownUDP, Disconnect
<1>3. \A j \in 1..Count :
         /\ g_udpBindings'[j] \in Binding
         /\ g_udpBindings'[j].instance = g_udpBindings[j].instance
         /\ g_udpBindings'[j].peer = g_udpBindings[j].peer
         /\ g_udpBindings'[j].heardOn = g_udpBindings[j].heardOn
    BY <1>1, <1>2 DEF Binding
<1>4. g_udpBindings' = [j \in 1..Count |-> g_udpBindings'[j]]
    BY <1>1 DEF ShutdownUDP
<1>5. g_udpBindings' \in Seq(Binding) /\ Count' = Count /\ Bindings' = 1..Count
    BY <1>1, <1>3, <1>4, FunctionIsSeq DEF Count, Bindings
<1>6. TypeOK'
    BY <1>1, <1>5 DEF ShutdownUDP, TypeOK, Binding
<1>7. OneEntryEach' /\ PeerOnAnotherPort'
    BY <1>1, <1>3, <1>5 DEF OneEntryEach, PeerOnAnotherPort
<1>8. SetUpIsBound' /\ ReportedFrom' /\ BroadcastReachesPeersOnce'
    BY DEF ShutdownUDP, Idle, SetUpIsBound, ReportedFrom, BroadcastReachesPeersOnce
<1>9. WaitingWhereSent'
    <2>. SUFFICES ASSUME NEW j \in 1..Count PROVE waiting'[j] \in Seq(Datagram(j))
        BY <1>5 DEF WaitingWhereSent, Datagram
    <2>1. waiting'[j] = <<>>
        BY <1>1 DEF ShutdownUDP
    <2>. QED BY <2>1
<1>. QED BY <1>6, <1>7, <1>8, <1>9 DEF IInv, TableInv

\* A datagram that arrives is marked with the socket it arrives at.
LEMMA ArriveKeepsIInv ==
    ASSUME IInv, NEW i \in Bindings, NEW from \in {None} \cup (OtherHosts \X SourcePorts), Arrive(i, from)
    PROVE  IInv'
<1>1. TypeOK /\ WaitingWhereSent
    BY DEF IInv, TableInv
<1>2. [from |-> from, to |-> i] \in Datagram(i)
    BY DEF Datagram
<1>3. WaitingWhereSent'
    <2>1. Bindings' = Bindings
        BY DEF Arrive, Bindings
    <2>. SUFFICES ASSUME NEW j \in Bindings PROVE waiting'[j] \in Seq(Datagram(j))
        BY <2>1 DEF WaitingWhereSent, Datagram
    <2>2. CASE j = i
        <3>. DEFINE d == [from |-> from, to |-> i]
        <3>1. waiting'[i] = Append(waiting[i], d)
            BY <1>1 DEF Arrive, TypeOK
        <3>. HIDE DEF d
        <3>2. d \in Datagram(i)
            BY <1>2 DEF d
        <3>3. waiting[i] \in Seq(Datagram(i))
            BY <1>1 DEF WaitingWhereSent
        <3>. QED BY <3>1, <3>2, <3>3, <2>2, AppendIsSeq, Zenon
    <2>3. CASE j # i
        BY <2>3, <1>1 DEF Arrive, TypeOK, WaitingWhereSent
    <2>. QED BY <2>2, <2>3
<1>4. TypeOK'
    BY <1>1 DEF Arrive, TypeOK, Bindings, Count
<1>5. OneEntryEach' /\ PeerOnAnotherPort' /\ SetUpIsBound'
    BY DEF IInv, TableInv, Arrive, OneEntryEach, PeerOnAnotherPort, SetUpIsBound, ReadyOn, Bindings
<1>6. ReportedFrom' /\ BroadcastReachesPeersOnce'
    BY DEF IInv, Arrive, ReportedFrom, BroadcastReachesPeersOnce, Bindings
<1>. QED BY <1>3, <1>4, <1>5, <1>6 DEF IInv, TableInv

\* A poll takes a datagram or nothing from each socket it looks at.
LEMMA TakenFromWaiting ==
    ASSUME WaitingWhereSent, NEW j \in Bindings
    PROVE  Taken(j) \in Seq(Datagram(j))
BY DEF WaitingWhereSent, Taken

\* Remembering a peer changes nothing else, and never to one on the bound port.
LEMMA RememberFacts ==
    ASSUME TypeOK, PeerOnAnotherPort, NEW i \in Bindings, NEW from \in OtherHosts \X SourcePorts
    PROVE  \A j \in 1..Count :
             LET b == RememberPeer(i, from)[j] IN
             /\ b \in Binding
             /\ b.instance = g_udpBindings[j].instance
             /\ b.bound = g_udpBindings[j].bound
             /\ b.open = g_udpBindings[j].open
             /\ b.port = g_udpBindings[j].port
             /\ b.peer # None => b.peer[2] # b.heardOn
<1>. TAKE j \in 1..Count
<1>. DEFINE b == RememberPeer(i, from)[j]
            old == g_udpBindings[j]
            news == old.bound /\ old.instance = g_udpBindings[i].instance /\ from[2] # old.port
<1>1. j \in Bindings /\ old \in Binding
    BY TableFacts
<1>2. b = IF news THEN [old EXCEPT !.peer = from, !.heardOn = old.port] ELSE old
    BY <1>1 DEF RememberPeer
<1>3. old.peer # None => old.peer[2] # old.heardOn
    BY <1>1 DEF PeerOnAnotherPort
<1>4. CASE news
    <2>1. /\ b \in Binding /\ b.instance = old.instance /\ b.bound = old.bound
          /\ b.open = old.open /\ b.port = old.port /\ b.peer = from /\ b.heardOn = old.port
        BY <1>1, <1>2, <1>4 DEF Binding
    <2>. QED BY <2>1, <1>4
<1>5. CASE ~news
    BY <1>1, <1>2, <1>3, <1>5
<1>. QED BY <1>4, <1>5

\* HelperReceiveMessage reports the datagram at the head of the binding it stopped at.
LEMMA ReceiveKeepsIInv ==
    ASSUME IInv, HelperReceiveMessage
    PROVE  IInv'
<1>1. /\ TypeOK /\ OneEntryEach /\ PeerOnAnotherPort /\ SetUpIsBound /\ WaitingWhereSent
      /\ Count \in Nat \ {0} /\ Bindings = 1..Count /\ setUp' = setUp
      /\ \A j \in Bindings : g_udpBindings[j] \in Binding
    BY TableFacts DEF IInv, TableInv, HelperReceiveMessage
<1>2. ASSUME NEW k \in 0..(Count - 1), Receive(Polled(k)),
             waiting' = [j \in Bindings |->
                 IF \E m \in 0..k : j = Polled(m) THEN Taken(j) ELSE waiting[j]],
             next' = Polled(k) % Count,
             g_udpBindings' = RememberPeer(Polled(k), Head(waiting[Polled(k)]).from),
             last' = [what |-> "received", datagram |-> Head(waiting[Polled(k)]),
                      instance |-> g_udpBindings[Polled(k)].instance]
      PROVE  IInv'
    <2>. DEFINE i == Polled(k)
                from == Head(waiting[i]).from
    <2>1. i \in 1..Count /\ i % Count \in Nat
        BY <1>1 DEF Polled, TypeOK
    <2>. HIDE DEF i
    <2>2. Head(waiting[i]) \in Datagram(i)
        <3>1. waiting[i] \in Seq(Datagram(i)) /\ waiting[i] # <<>>
            BY <1>1, <1>2, <2>1 DEF WaitingWhereSent, Receive, i
        <3>. QED BY <3>1
    <2>3. from \in OtherHosts \X SourcePorts /\ Head(waiting[i]).to = i
        BY <1>2, <2>2 DEF Datagram, Receive, i
    <2>. HIDE DEF from
    <2>4. g_udpBindings' = RememberPeer(i, from)
        BY <1>2 DEF i, from
    <2>5. \A j \in 1..Count :
             /\ g_udpBindings'[j] \in Binding
             /\ g_udpBindings'[j].instance = g_udpBindings[j].instance
             /\ g_udpBindings'[j].bound = g_udpBindings[j].bound
             /\ g_udpBindings'[j].open = g_udpBindings[j].open
             /\ g_udpBindings'[j].port = g_udpBindings[j].port
             /\ g_udpBindings'[j].peer # None => g_udpBindings'[j].peer[2] # g_udpBindings'[j].heardOn
        BY <1>1, <2>1, <2>3, <2>4, RememberFacts
    <2>6. g_udpBindings' = [j \in 1..Count |-> g_udpBindings'[j]]
        BY <1>1, <2>4 DEF RememberPeer
    <2>7. g_udpBindings' \in Seq(Binding) /\ Count' = Count /\ Bindings' = 1..Count
        BY <1>1, <2>5, <2>6, FunctionIsSeq DEF Count, Bindings
    <2>8. TypeOK'
        <3>1. DOMAIN waiting' = 1..Count
            BY <1>1, <1>2
        <3>2. next' \in Nat
            BY <1>2, <2>1 DEF i
        <3>. QED BY <1>1, <2>7, <3>1, <3>2 DEF TypeOK, Binding
    <2>9. OneEntryEach' /\ PeerOnAnotherPort'
        BY <1>1, <2>5, <2>7 DEF OneEntryEach, PeerOnAnotherPort
    <2>10. SetUpIsBound'
        BY <1>1, <2>5, <2>7 DEF SetUpIsBound, ReadyOn
    <2>11. WaitingWhereSent'
        <3>. SUFFICES ASSUME NEW j \in 1..Count PROVE waiting'[j] \in Seq(Datagram(j))
            BY <2>7 DEF WaitingWhereSent, Datagram
        <3>1. waiting'[j] = Taken(j) \/ waiting'[j] = waiting[j]
            BY <1>1, <1>2
        <3>. QED BY <3>1, <1>1, TakenFromWaiting DEF WaitingWhereSent
    <2>12. /\ last'.what = "received" /\ last'.datagram = Head(waiting[i])
           /\ last'.instance = g_udpBindings[i].instance
        BY <1>2 DEF i
    <2>13. ReportedFrom' /\ BroadcastReachesPeersOnce'
        BY <2>1, <2>3, <2>5, <2>7, <2>12 DEF ReportedFrom, BroadcastReachesPeersOnce
    <2>. QED BY <2>8, <2>9, <2>10, <2>11, <2>13 DEF IInv, TableInv
<1>3. ASSUME waiting' = [j \in Bindings |-> Taken(j)], next' = (next + 1) % Count,
             last' = Idle, g_udpBindings' = g_udpBindings
      PROVE  IInv'
    <2>1. Count' = Count /\ Bindings' = Bindings
        BY <1>3 DEF Count, Bindings
    <2>2. next' \in Nat
        BY <1>1, <1>3 DEF TypeOK
    <2>3. TypeOK'
        BY <1>1, <1>3, <2>1, <2>2 DEF TypeOK
    <2>4. OneEntryEach' /\ PeerOnAnotherPort' /\ SetUpIsBound'
        BY <1>1, <1>3, <2>1 DEF OneEntryEach, PeerOnAnotherPort, SetUpIsBound, ReadyOn
    <2>5. WaitingWhereSent'
        <3>. SUFFICES ASSUME NEW j \in Bindings PROVE waiting'[j] \in Seq(Datagram(j))
            BY <2>1 DEF WaitingWhereSent, Datagram
        <3>. QED BY <1>1, <1>3, TakenFromWaiting
    <2>6. ReportedFrom' /\ BroadcastReachesPeersOnce'
        BY <1>3 DEF Idle, ReportedFrom, BroadcastReachesPeersOnce
    <2>. QED BY <2>3, <2>4, <2>5, <2>6 DEF IInv, TableInv
<1>. QED BY <1>2, <1>3 DEF HelperReceiveMessage

\* HelperSendMessage, for every destination: a broadcast never goes to this very
\* socket while the interface is known, and its copy goes to another port.
LEMMA SendKeepsIInv ==
    ASSUME IInv, NEW instance, NEW connectionString, NEW broadcast \in BOOLEAN, NEW chosen \in BOOLEAN,
           NEW known \in BOOLEAN, HelperSendMessage(instance, connectionString, broadcast, chosen, known)
    PROVE  IInv'
<1>. DEFINE i == FindUdpBindingByInstance(instance)
            first == Destination(i, connectionString, broadcast, known)
            peer == g_udpBindings[i].peer
            copied == connectionString = <<>> /\ peer # None /\ chosen
            own == <<"own", g_udpBindings[i].port>>
<1>1. TypeOK /\ OneEntryEach /\ PeerOnAnotherPort
    BY DEF IInv, TableInv
<1>2. /\ i # 0 /\ g_udpBindings[i].bound
      /\ last' = [what |-> "sent", broadcast |-> known /\ (broadcast \/ connectionString = <<>>), from |-> i,
                  to |-> Send(i, first) \o (IF copied THEN Send(i, peer) ELSE <<>>)]
      /\ UNCHANGED <<g_udpBindings, next, waiting, setUp>>
    BY DEF HelperSendMessage
<1>3. i \in Bindings
    BY <1>1, <1>2, FindFacts
<1>. HIDE DEF i
<1>4. connectionString = <<>> => first[2] = g_udpBindings[i].port
    BY DEF Destination
<1>5. known /\ (broadcast \/ connectionString = <<>>) => first # own
    <2>1. CASE connectionString = <<>>
        BY <2>1 DEF Destination, GetLocalBroadcastIPv4
    <2>2. CASE connectionString # <<>>
        BY <2>2 DEF Destination, GetLocalBroadcastIPv4
    <2>. QED BY <2>1, <2>2
<1>. HIDE DEF first
<1>6. copied => peer[2] # g_udpBindings[i].heardOn
    BY <1>1, <1>3 DEF PeerOnAnotherPort
<1>7. \/ Len(last'.to) = 0
      \/ Len(last'.to) = 1 /\ last'.to[1] = first
      \/ copied /\ Len(last'.to) = 2 /\ last'.to[1] = first /\ last'.to[2] = peer
    <2>1. last'.to = Send(i, first) \o (IF copied THEN Send(i, peer) ELSE <<>>)
        BY <1>2
    <2>. HIDE DEF copied, peer
    <2>2. CASE ~g_udpBindings[i].open
        <3>1. last'.to = <<>> \o <<>>
            BY <2>1, <2>2 DEF Send
        <3>. QED BY <3>1
    <2>3. CASE g_udpBindings[i].open /\ copied
        <3>1. last'.to = <<first>> \o <<peer>>
            BY <2>1, <2>3 DEF Send
        <3>2. Len(last'.to) = 2 /\ last'.to[1] = first /\ last'.to[2] = peer
            BY <3>1, OneAndOne
        <3>. QED BY <3>2, <2>3
    <2>4. CASE g_udpBindings[i].open /\ ~copied
        <3>1. last'.to = <<first>> \o <<>>
            BY <2>1, <2>4 DEF Send
        <3>. QED BY <3>1
    <2>. QED BY <2>2, <2>3, <2>4
<1>7a. last'.from = i /\ last'.broadcast = (known /\ (broadcast \/ connectionString = <<>>))
    BY <1>2
<1>8. BroadcastReachesPeersOnce'
    <2>1. Len(last'.to) = 2 /\ g_udpBindings[i].heardOn = g_udpBindings[i].port
            => last'.to[2][2] # last'.to[1][2]
        <3>1. Len(last'.to) = 2 => copied /\ last'.to[1] = first /\ last'.to[2] = peer
            BY <1>7
        <3>. QED BY <3>1, <1>4, <1>6
    <2>2. Len(last'.to) > 0 => last'.to[1] = first
        <3>. HIDE DEF copied, peer
        <3>. QED BY <1>7
    <2>3. Len(last'.to) > 0 /\ last'.broadcast => last'.to[1] # own
        BY <2>2, <1>5, <1>7a
    <2>. QED BY <2>1, <2>3, <1>2, <1>7a DEF BroadcastReachesPeersOnce
<1>9. ReportedFrom'
    BY <1>2 DEF ReportedFrom
<1>10. TableInv'
    BY <1>2 DEF IInv, TableInv, TypeOK, OneEntryEach, PeerOnAnotherPort, SetUpIsBound, ReadyOn, Bindings, Count
<1>11. WaitingWhereSent'
    BY <1>2 DEF IInv, WaitingWhereSent, Datagram, Bindings
<1>. QED BY <1>8, <1>9, <1>10, <1>11 DEF IInv

-----------------------------------------------------------------------------
\* No socket yet.
LEMMA InitIsGood == Init => IInv
<1>. SUFFICES ASSUME Init PROVE IInv
    OBVIOUS
<1>1. Bindings = {} /\ Count = 0
    BY DEF Init, Bindings, Count
<1>2. TypeOK
    BY <1>1, UdpAssumption DEF Init, TypeOK
<1>3. OneEntryEach /\ PeerOnAnotherPort /\ SetUpIsBound /\ WaitingWhereSent
    BY <1>1 DEF Init, OneEntryEach, PeerOnAnotherPort, SetUpIsBound, WaitingWhereSent
<1>4. ReportedFrom /\ BroadcastReachesPeersOnce
    BY DEF Init, Idle, ReportedFrom, BroadcastReachesPeersOnce
<1>. QED BY <1>2, <1>3, <1>4 DEF IInv, TableInv

\* Every step keeps the invariant.
LEMMA NextKeepsIInv == IInv /\ [Next]_vars => IInv'
<1>. SUFFICES ASSUME IInv, [Next]_vars PROVE IInv'
    OBVIOUS
<1>1. CASE \E port \in Ports, instance \in Instances : SetupUDP(port, instance)
    BY <1>1, SetupKeepsIInv
<1>2. CASE ShutdownUDP
    BY <1>2, ShutdownKeepsIInv
<1>3. CASE \E i \in Bindings, from \in {None} \cup (OtherHosts \X SourcePorts) : Arrive(i, from)
    BY <1>3, ArriveKeepsIInv
<1>4. CASE HelperReceiveMessage
    BY <1>4, ReceiveKeepsIInv
<1>5. CASE \E instance \in Instances, connectionString \in Destinations, broadcast, chosen, known \in BOOLEAN :
              HelperSendMessage(instance, connectionString, broadcast, chosen, known)
    BY <1>5, SendKeepsIInv
<1>6. CASE \E instance \in Instances, known \in BOOLEAN : SendIAm(instance, known)
    <2>1. PICK instance \in Instances, known \in BOOLEAN : SendIAm(instance, known)
        BY <1>6
    <2>2. PICK connectionString : HelperSendMessage(instance, connectionString, TRUE, TRUE, known)
        BY <2>1 DEF SendIAm
    <2>3. TRUE \in BOOLEAN
        OBVIOUS
    <2>. QED BY <2>2, <2>3, SendKeepsIInv
<1>7. CASE UNCHANGED vars
    BY <1>7 DEF vars, IInv, TableInv, TypeOK, OneEntryEach, PeerOnAnotherPort, SetUpIsBound, ReadyOn,
                WaitingWhereSent, Datagram, ReportedFrom, BroadcastReachesPeersOnce, Bindings, Count
<1>. QED BY <1>1, <1>2, <1>3, <1>4, <1>5, <1>6, <1>7 DEF Next

\* The invariant holds throughout.
LEMMA Invariance == Spec => []IInv
BY InitIsGood, NextKeepsIInv, PTL DEF Spec

-----------------------------------------------------------------------------
\* HelperReceiveMessage names the Network Port of the socket the datagram was read
\* from, for any number of sockets and any order of polling.
THEOREM DatagramReportedWhereItArrived == Spec => []ReportedWhereItArrived
<1>1. IInv => ReportedWhereItArrived
    BY DEF IInv, ReportedFrom, ReportedWhereItArrived
<1>. QED BY <1>1, Invariance, PTL

\* HelperSendMessage gives no peer a frame twice and broadcasts to no socket of its own.
THEOREM NoFrameTwice == Spec => []BroadcastReachesPeersOnce
<1>1. IInv => BroadcastReachesPeersOnce
    BY DEF IInv
<1>. QED BY <1>1, Invariance, PTL

\* A Network Port whose last SetupUDP returned true is found by its instance, bound to
\* that port with an open socket, through every order of SetupUDP (repeated ones and
\* ones after a shutdown included), failure to connect and ShutdownUDP.
THEOREM SetUpCanSend == Spec => []SetUpMeansBound
<1>1. IInv => SetUpMeansBound
    <2>. SUFFICES ASSUME IInv, NEW s \in setUp
                  PROVE  LET i == FindUdpBindingByInstance(s[1]) IN
                         i # 0 /\ g_udpBindings[i].bound /\ g_udpBindings[i].open /\ g_udpBindings[i].port = s[2]
        BY DEF SetUpMeansBound, IInv, TableInv
    <2>1. TypeOK /\ OneEntryEach /\ SetUpIsBound
        BY DEF IInv, TableInv
    <2>2. PICK i \in Bindings : ReadyOn(g_udpBindings[i], s[1], s[2])
        BY <2>1 DEF SetUpIsBound
    <2>3. FindUdpBindingByInstance(s[1]) = i /\ i # 0
        BY <2>1, <2>2, FindFacts, TableFacts DEF ReadyOn
    <2>. QED BY <2>2, <2>3 DEF ReadyOn
<1>. QED BY <1>1, Invariance, PTL

-----------------------------------------------------------------------------
(* The wire tests' client. *)

\* The invoke id that was in use a calls before id.
IdBefore(id, a) == IF id >= a THEN id - a ELSE id - a + InvokeIds

\* A datagram under way is at most MaxAge calls old, and its invoke id is the one
\* that was in use then: the ids have not come round to it again.
IdShowsAge ==
    \A d \in requests \cup answers :
        /\ d.call <= calls /\ calls - d.call <= MaxAge
        /\ d.invoke_id = IdBefore(_invoke_id, calls - d.call)

ClientInv ==
    AnswerIsMine /\ IdShowsAge /\ (state = "waiting" => calls > 0 /\ attempts > 0)

\* The invoke id counts up and starts again behind the last one.
LEMMA NextId ==
    ASSUME ClientTypeOK
    PROVE  /\ _next_invoke_id = (IF _invoke_id + 1 = InvokeIds THEN 0 ELSE _invoke_id + 1)
           /\ _next_invoke_id \in 0..(InvokeIds - 1)
<1>1. InvokeIds \in Nat /\ InvokeIds > 0 /\ _invoke_id \in Nat /\ _invoke_id < InvokeIds
    BY WireClientAssumption DEF ClientTypeOK
<1>2. CASE _invoke_id + 1 = InvokeIds
    BY <1>1, <1>2 DEF _next_invoke_id
<1>3. CASE _invoke_id + 1 # InvokeIds
    BY <1>1, <1>3 DEF _next_invoke_id
<1>. QED BY <1>1, <1>2, <1>3

\* Nothing is under way when the client starts.
LEMMA InitClientInv == ClientInit => ClientInv
  BY WireClientAssumption DEF ClientInit, ClientInv, AnswerIsMine, NoAnswerMissed, ClientTypeOK, IdShowsAge

\* A new call makes every datagram under way one call older, and drops the ones
\* that are then too old.
LEMMA RequestClientInv == ASSUME ClientInv, request PROVE ClientInv'
<1>. USE WireClientAssumption DEF ClientInv, AnswerIsMine, NoAnswerMissed
<1>0. /\ calls \in Nat /\ calls' = calls + 1 /\ calls' \in 1..MaxCalls
      /\ _invoke_id' = _next_invoke_id
    BY DEF request, ClientTypeOK
<1>1. ClientTypeOK'
    <2>1. [invoke_id |-> _next_invoke_id, call |-> calls + 1, attempt |-> 1] \in Datagrams
        BY <1>0, NextId DEF Datagrams
    <2>2. requests' \cup answers' \cup frames' \cup frame' \subseteq Datagrams
        BY <2>1 DEF request, Live, ClientTypeOK
    <2>. QED BY <1>0, <2>2, NextId DEF request, ClientTypeOK
<1>2. IdShowsAge'
    <2>. SUFFICES ASSUME NEW d \in requests' \cup answers'
                  PROVE  /\ d.call <= calls' /\ calls' - d.call <= MaxAge
                         /\ d.invoke_id = IdBefore(_invoke_id', calls' - d.call)
        BY DEF IdShowsAge
    <2>1. CASE d = [invoke_id |-> _next_invoke_id, call |-> calls + 1, attempt |-> 1]
        <3>1. calls' - d.call = 0 /\ d.invoke_id = _invoke_id' /\ _invoke_id' \in Nat
            BY <1>0, <2>1, NextId
        <3>. QED BY <1>0, <2>1, <3>1 DEF IdBefore
    <2>2. CASE d # [invoke_id |-> _next_invoke_id, call |-> calls + 1, attempt |-> 1]
        <3>1. d \in requests \cup answers /\ (calls + 1) - d.call <= MaxAge
            <4>1. d \in Live(requests, calls + 1) \cup Live(answers, calls + 1)
                BY <2>2 DEF request
            <4>. QED BY <4>1 DEF Live
        <3>2. d.call \in Nat /\ d.call <= calls /\ d.invoke_id = IdBefore(_invoke_id, calls - d.call)
            BY <3>1 DEF IdShowsAge, ClientTypeOK, Datagrams
        <3>3. _invoke_id \in 0..(InvokeIds - 1) /\ InvokeIds \in Nat /\ MaxAge < InvokeIds /\ MaxAge \in Nat
            BY DEF ClientTypeOK
        <3>. QED BY <1>0, <3>1, <3>2, <3>3, NextId DEF IdBefore
    <2>. QED BY <2>1, <2>2
<1>. QED BY <1>0, <1>1, <1>2 DEF request

\* A datagram with the current invoke id belongs to the current call.
LEMMA SameIdSameCall ==
    ASSUME ClientInv, NEW d \in answers, d.invoke_id = _invoke_id
    PROVE  d.call = calls
<1>1. d.call \in Nat /\ calls \in Nat /\ _invoke_id \in 0..(InvokeIds - 1)
    BY DEF ClientInv, AnswerIsMine, ClientTypeOK, Datagrams
<1>2. /\ d.call <= calls /\ calls - d.call <= MaxAge
      /\ _invoke_id = IdBefore(_invoke_id, calls - d.call)
    BY DEF ClientInv, IdShowsAge
<1>. QED BY <1>1, <1>2, WireClientAssumption DEF IdBefore

\* And one that belongs to the current call, whichever attempt it answers, has its id.
LEMMA SameCallSameId ==
    ASSUME ClientInv, NEW d \in answers, d.call = calls
    PROVE  d.invoke_id = _invoke_id
<1>1. calls \in Nat /\ _invoke_id \in 0..(InvokeIds - 1) /\ InvokeIds \in Nat
    BY WireClientAssumption DEF ClientInv, AnswerIsMine, ClientTypeOK
<1>2. d.invoke_id = IdBefore(_invoke_id, calls - d.call)
    BY DEF ClientInv, IdShowsAge
<1>. QED BY <1>1, <1>2 DEF IdBefore

\* Every step of the client, the device and the network keeps it.
LEMMA NextClientInv == ClientInv /\ [ClientNext]_clientVars => ClientInv'
<1>. SUFFICES ASSUME ClientInv, [ClientNext]_clientVars PROVE ClientInv'
    OBVIOUS
<1>. USE DEF ClientInv, AnswerIsMine, NoAnswerMissed
<1>1. CASE request
    BY <1>1, RequestClientInv
<1>2. CASE DeviceAnswers
    BY <1>2 DEF DeviceAnswers, ClientTypeOK, IdShowsAge, IdBefore
<1>3. CASE Lose
    BY <1>3 DEF Lose, ClientTypeOK, IdShowsAge, IdBefore
<1>4. CASE wait_for
    <2>1. PICK d \in answers :
              /\ answers' = answers \ {d}
              /\ frames' = frames \cup {d}
              /\ IF d.invoke_id = _invoke_id
                 THEN state' = "answered" /\ frame' = {d}
                 ELSE UNCHANGED <<state, frame>>
        BY <1>4 DEF wait_for
    <2>2. UNCHANGED <<_invoke_id, calls, attempts, requests>>
        BY <1>4 DEF wait_for
    <2>3. ClientTypeOK'
        BY <2>1, <2>2 DEF ClientTypeOK
    <2>4. IdShowsAge'
        BY <2>1, <2>2 DEF IdShowsAge, IdBefore
    <2>5. \A e \in frame' : e.call = calls'
        BY <2>1, <2>2, SameIdSameCall
    <2>6. NoAnswerMissed'
        <3>1. d.invoke_id # _invoke_id => d.call # calls
            BY SameCallSameId
        <3>. QED BY <1>4, <2>1, <2>2, <3>1 DEF wait_for
    <2>. QED BY <2>1, <2>2, <2>3, <2>4, <2>5, <2>6
<1>5. CASE send_with_retries
    <2>1. CASE attempts < retries + 1
        <3>. DEFINE again == [invoke_id |-> _invoke_id, call |-> calls, attempt |-> attempts + 1]
        <3>1. /\ attempts' = attempts + 1 /\ requests' = requests \cup {again}
              /\ UNCHANGED <<state, _invoke_id, calls, answers, frames, frame>>
            BY <1>5, <2>1 DEF send_with_retries
        <3>2. state = "waiting" /\ calls \in 1..MaxCalls /\ attempts + 1 \in 1..(retries + 1)
            BY <1>5, <2>1, WireClientAssumption DEF send_with_retries, ClientTypeOK
        <3>3. again \in Datagrams
            BY <3>2 DEF Datagrams, ClientTypeOK
        <3>4. ClientTypeOK'
            BY <3>1, <3>2, <3>3, WireClientAssumption DEF ClientTypeOK
        <3>5. IdShowsAge'
            <4>1. again.call <= calls /\ calls - again.call <= MaxAge
                  /\ again.invoke_id = IdBefore(_invoke_id, calls - again.call)
                BY <3>2, WireClientAssumption DEF IdBefore, ClientTypeOK
            <4>. QED BY <3>1, <4>1 DEF IdShowsAge, IdBefore
        <3>. QED BY <3>1, <3>2, <3>4, <3>5
    <2>2. CASE ~(attempts < retries + 1)
        BY <1>5, <2>2 DEF send_with_retries, ClientTypeOK, IdShowsAge, IdBefore
    <2>. QED BY <2>1, <2>2
<1>6. CASE UNCHANGED clientVars
    BY <1>6 DEF clientVars, ClientTypeOK, IdShowsAge, IdBefore
<1>. QED BY <1>1, <1>2, <1>3, <1>4, <1>5, <1>6 DEF ClientNext

\* However late, repeated or reordered the datagrams are, and however few invoke
\* ids there are (Client._next_invoke_id wraps), a call of Client.request returns
\* an answer to this very call, and passes none of its own over, whichever attempt it
\* answers.
THEOREM CallGetsItsOwnAnswer == ClientSpec => []AnswerIsMine
<1>1. ClientInv => AnswerIsMine
    BY DEF ClientInv
<1>. QED BY <1>1, InitClientInv, NextClientInv, PTL DEF ClientSpec
=============================================================================
