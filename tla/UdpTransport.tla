---------------------------- MODULE UdpTransport ----------------------------
(***************************************************************************)
(* The transport the stack calls through (common/CASExampleHelper.cpp and  *)
(* SimpleUDP.cpp): the table of bound sockets, the receive callback that   *)
(* polls them in turn, and the send callback with its three kinds of       *)
(* destination and its copy to a peer on another port.                     *)
(*                                                                         *)
(* An address is a pair of a host and a UDP port.  The hosts that matter   *)
(* are this one ("own"), its subnet broadcast ("subnet"), the limited      *)
(* broadcast ("limited") and the others (OtherHosts).                      *)
(***************************************************************************)
EXTENDS Naturals, Sequences

CONSTANTS
    Instances,         \* the Network Port objects' instances
    Ports,             \* the UDP ports they bind
    SourcePorts,       \* the UDP ports datagrams come from
    OtherHosts,
    MAX_UDP_BINDINGS,
    Destinations,      \* the connection strings the stack sends to
    MaxQueue,          \* bound on the datagrams waiting at a socket
    None

ASSUME UdpAssumption ==
    /\ MAX_UDP_BINDINGS \in Nat \ {0}
    /\ MaxQueue \in Nat \ {0}
    /\ Destinations \subseteq {<<>>, <<"short">>} \cup ((OtherHosts \cup {"own", "subnet"}) \X Ports)

VARIABLES
    g_udpBindings,  \* the first g_udpBindingCount entries of the table
    next,           \* s_nextBindingToCheck
    waiting,        \* waiting[i]: what the kernel holds for binding i, oldest first
    last,           \* the last thing done: a datagram reported or frames sent
    setUp           \* <<instance, port>> of each instance whose last SetupUDP returned true,
                    \* until the shutdown (history)

vars == <<g_udpBindings, next, waiting, last, setUp>>

-----------------------------------------------------------------------------
Bindings == DOMAIN g_udpBindings
Count == Len(g_udpBindings)
Idle == [what |-> "nothing"]

\* A new entry.  open: its SimpleUDP has a usable socket, which is not what bound says;
\* heardOn: the port that was bound when peer was remembered (history).
UdpBinding(instance) ==
    [instance |-> instance, port |-> None, bound |-> FALSE, open |-> FALSE, peer |-> None, heardOn |-> None]

\* FindUdpBindingByInstance: the first entry with the instance, 0 for NULL.
FindUdpBindingByInstance(instance) ==
    LET S == {i \in Bindings : g_udpBindings[i].instance = instance}
    IN  IF S = {} THEN 0 ELSE CHOOSE i \in S : \A j \in S : i <= j

\* Mutant: an entry that could not be bound is not taken up again.
SetupUDPAnew(port, instance) ==
    /\ Count < MAX_UDP_BINDINGS
    /\ \E connected \in BOOLEAN :
        /\ g_udpBindings' = Append(g_udpBindings,
               [UdpBinding(instance) EXCEPT !.port = port, !.bound = connected, !.open = connected])
        /\ setUp' = setUp \cup (IF connected THEN {<<instance, port>>} ELSE {})
    /\ waiting' = Append(waiting, <<>>)
    /\ last' = [what |-> "setUp", binding |-> Count + 1]
    /\ UNCHANGED next

\* SimpleUDP::Connect: whether a socket could be made and bound.  Whatever socket the
\* entry had before is given up in any case.
Connect == {TRUE, FALSE}

\* SimpleUDP::Disconnect.
Disconnect(binding) == [binding EXCEPT !.open = FALSE]

\* SetupUDP: a new entry, or the one the instance already has, bound or not.  When
\* Connect fails the entry stays in the table with the port, the flag and the peer it
\* had; when it succeeds the peer is kept too.
SetupUDP(port, instance) ==
    LET found == FindUdpBindingByInstance(instance)
        i == IF found = 0 THEN Count + 1 ELSE found
        binding == IF found = 0 THEN UdpBinding(instance) ELSE g_udpBindings[found]
    IN  /\ found = 0 => Count < MAX_UDP_BINDINGS
        /\ \E connected \in Connect :
            /\ g_udpBindings' = [j \in Bindings \cup {i} |->
                   CASE j # i -> g_udpBindings[j]
                     [] j = i /\ connected -> [binding EXCEPT !.port = port, !.bound = TRUE, !.open = TRUE]
                     [] j = i /\ ~connected -> Disconnect(binding)]
            /\ setUp' = {s \in setUp : s[1] # instance}
                          \cup (IF connected THEN {<<instance, port>>} ELSE {})
        /\ waiting' = [j \in Bindings \cup {i} |-> IF j = i THEN <<>> ELSE waiting[j]]
        /\ last' = [what |-> "setUp", binding |-> i]
        /\ UNCHANGED next

\* Every socket is closed; what waited at them is gone, the entries stay.
ShutdownUDP ==
    /\ g_udpBindings' = [i \in Bindings |->
           IF g_udpBindings[i].bound THEN [Disconnect(g_udpBindings[i]) EXCEPT !.bound = FALSE]
           ELSE g_udpBindings[i]]
    /\ waiting' = [i \in Bindings |-> <<>>]
    /\ setUp' = {}
    /\ last' = Idle
    /\ UNCHANGED next

\* A datagram from a sender reaches an open socket; a full one drops it.  None stands
\* for one that yields no data: an empty one, or one the kernel drops between select and
\* recvfrom.
Arrive(i, from) ==
    /\ g_udpBindings[i].open /\ Len(waiting[i]) < MaxQueue
    /\ waiting' = [waiting EXCEPT ![i] = Append(@, [from |-> from, to |-> i])]
    /\ UNCHANGED <<g_udpBindings, next, last, setUp>>

\* SimpleUDP::Receive of a bound entry: the datagram at the head is taken; without data
\* it counts as none.
Receive(i) ==
    /\ g_udpBindings[i].bound /\ g_udpBindings[i].open
    /\ waiting[i] # <<>> /\ Head(waiting[i]).from # None
Taken(i) == IF waiting[i] = <<>> THEN <<>> ELSE Tail(waiting[i])

\* The bindings in the order this call polls them; next counts from 0.
Polled(k) == ((next + k) % Count) + 1

\* Mutant: every sender is remembered.
RememberEveryone(i, from) ==
    [g_udpBindings EXCEPT ![i].peer = from, ![i].heardOn = g_udpBindings[i].port]

\* The last peer that is not on the bound port.
RememberPeer(i, from) ==
    [j \in Bindings |->
        IF /\ g_udpBindings[j].bound /\ g_udpBindings[j].instance = g_udpBindings[i].instance
           /\ from[2] # g_udpBindings[j].port
        THEN [g_udpBindings[j] EXCEPT !.peer = from, !.heardOn = g_udpBindings[j].port]
        ELSE g_udpBindings[j]]

\* Mutant: the poll starts at the first binding every time.
ReceiveFromFirst ==
    /\ Count > 0
    /\ \E i \in Bindings :
        /\ Receive(i) /\ \A j \in 1..(i - 1) : ~Receive(j)
        /\ waiting' = [j \in Bindings |-> IF j <= i THEN Taken(j) ELSE waiting[j]]
        /\ g_udpBindings' = RememberPeer(i, Head(waiting[i]).from)
        /\ last' = [what |-> "received", datagram |-> Head(waiting[i]),
                    instance |-> g_udpBindings[i].instance]
    /\ UNCHANGED <<next, setUp>>

\* Mutant: the datagram is reported on the first Network Port.
ReceiveOnFirstPort ==
    /\ Count > 0
    /\ \E k \in 0..(Count - 1) :
        LET i == Polled(k) IN
        /\ Receive(i) /\ \A m \in 0..(k - 1) : ~Receive(Polled(m))
        /\ waiting' = [j \in Bindings |-> IF \E m \in 0..k : j = Polled(m) THEN Taken(j) ELSE waiting[j]]
        /\ next' = i % Count
        /\ g_udpBindings' = RememberPeer(i, Head(waiting[i]).from)
        /\ last' = [what |-> "received", datagram |-> Head(waiting[i]),
                    instance |-> g_udpBindings[1].instance]
    /\ UNCHANGED setUp

\* HelperReceiveMessage: one datagram is reported, from the first binding that has
\* one in the order polled, or none.  A binding polled before it may have lost a
\* datagram without data.
HelperReceiveMessage ==
    /\ Count > 0
    /\ \/ \E k \in 0..(Count - 1) :
            LET i == Polled(k) IN
            /\ Receive(i) /\ \A m \in 0..(k - 1) : ~Receive(Polled(m))
            /\ waiting' = [j \in Bindings |->
                   IF \E m \in 0..k : j = Polled(m) THEN Taken(j) ELSE waiting[j]]
            /\ next' = i % Count
            /\ g_udpBindings' = RememberPeer(i, Head(waiting[i]).from)
            /\ last' = [what |-> "received", datagram |-> Head(waiting[i]),
                        instance |-> g_udpBindings[i].instance]
       \/ /\ \A i \in Bindings : ~Receive(i)
          /\ waiting' = [j \in Bindings |-> Taken(j)]
          /\ next' = (next + 1) % Count
          /\ last' = Idle
          /\ UNCHANGED g_udpBindings
    /\ UNCHANGED setUp

\* GetLocalBroadcastIPv4; known: GetPrimaryIPv4 finds an interface.
GetLocalBroadcastIPv4(known) == IF known THEN "subnet" ELSE "limited"

\* The destination of a frame: <<>> is a NULL connection string.
Destination(i, connectionString, broadcast, known) ==
    CASE connectionString = <<>> -> <<GetLocalBroadcastIPv4(known), g_udpBindings[i].port>>
      [] /\ connectionString # <<>> /\ broadcast /\ known
         /\ connectionString = <<"own", g_udpBindings[i].port>> ->
            <<GetLocalBroadcastIPv4(known), g_udpBindings[i].port>>
      [] OTHER -> connectionString

\* SimpleUDP::Send: the address the frame goes to; none from a closed socket.
Send(i, address) == IF g_udpBindings[i].open THEN <<address>> ELSE <<>>

\* HelperSendMessage; chosen: IsStackChosenBroadcast(message).  For an instance that
\* is not bound, or a string too short to be an address, it returns 0 and sends nothing.
HelperSendMessage(instance, connectionString, broadcast, chosen, known) ==
    LET i == FindUdpBindingByInstance(instance) IN
    /\ i # 0 /\ g_udpBindings[i].bound
    /\ connectionString # <<"short">>
    /\ LET first == Destination(i, connectionString, broadcast, known)
           copied == connectionString = <<>> /\ g_udpBindings[i].peer # None /\ chosen
       IN  last' = [what |-> "sent", broadcast |-> known /\ (broadcast \/ connectionString = <<>>), from |-> i,
                    to |-> Send(i, first) \o (IF copied THEN Send(i, g_udpBindings[i].peer) ELSE <<>>)]
    /\ UNCHANGED <<g_udpBindings, next, waiting, setUp>>

\* SendIAm: the stack sends the I-Am back through HelperSendMessage, to the subnet
\* broadcast on the instance's own port.
SendIAm(instance, known) ==
    LET i == FindUdpBindingByInstance(instance) IN
    /\ i # 0
    /\ HelperSendMessage(instance, <<GetLocalBroadcastIPv4(known), g_udpBindings[i].port>>, TRUE, TRUE, known)

Init ==
    /\ g_udpBindings = <<>> /\ waiting = <<>>
    /\ next = 0
    /\ last = Idle
    /\ setUp = {}

Next ==
    \/ \E port \in Ports, instance \in Instances : SetupUDP(port, instance)
    \/ ShutdownUDP
    \/ \E i \in Bindings, from \in {None} \cup (OtherHosts \X SourcePorts) : Arrive(i, from)
    \/ HelperReceiveMessage
    \/ \E instance \in Instances, connectionString \in Destinations, broadcast, chosen, known \in BOOLEAN :
          HelperSendMessage(instance, connectionString, broadcast, chosen, known)
    \/ \E instance \in Instances, known \in BOOLEAN : SendIAm(instance, known)

Spec == Init /\ [][Next]_vars

\* The main loop ticks for ever, and every tick polls for a message.
FairSpec == Spec /\ WF_vars(HelperReceiveMessage)

-----------------------------------------------------------------------------
(***************************************************************************)
(* Properties.                                                             *)
(***************************************************************************)
\* Every variable has its type.
TypeOK ==
    /\ g_udpBindings \in Seq([instance : Instances, port : Ports \cup {None}, bound : BOOLEAN, open : BOOLEAN,
                              peer : {None} \cup (OtherHosts \X SourcePorts), heardOn : Ports \cup {None}])
    /\ Count <= MAX_UDP_BINDINGS
    /\ next \in Nat
    /\ DOMAIN waiting = Bindings
    /\ setUp \subseteq Instances \X Ports

\* "a multi-port example reports whichever bound socket the datagram actually arrived
\* on" (HelperReceiveMessage): whatever was polled before, the Network Port named to
\* the stack is the one of the socket the datagram was read from.
ReportedWhereItArrived ==
    last.what = "received" => g_udpBindings[last.datagram.to].instance = last.instance

\* Nobody gets one frame twice: the copy to a peer never goes to a socket that hears
\* the broadcast it is a copy of, as long as the Network Port is on the port it had when
\* the peer was remembered (SetupUDP keeps the peer when it binds the instance to
\* another port, which may be the peer's).  The send relies on what an earlier receive
\* chose to remember.  And a broadcast is never sent to this very socket while the
\* interface is known ("Unicast to ourselves, no other device ever received either
\* frame", stack issue #3933).
BroadcastReachesPeersOnce ==
    last.what = "sent" =>
        /\ Len(last.to) = 2 /\ g_udpBindings[last.from].heardOn = g_udpBindings[last.from].port
              => last.to[2][2] # last.to[1][2]
        /\ Len(last.to) > 0 /\ last.broadcast => last.to[1] # <<"own", g_udpBindings[last.from].port>>

\* A Network Port whose last SetupUDP returned true can send and is heard on the port
\* asked for: the entry found first for its instance is bound to that port and has an
\* open socket, whatever failed, was shut down or was set up elsewhere before.  After a
\* repeated SetupUDP that fails the flag bound may stand over a closed socket: SetupUDP
\* then returned false.  The table, failed entries included, never outgrows its array.
SetUpMeansBound ==
    /\ TypeOK
    /\ \A s \in setUp :
        LET i == FindUdpBindingByInstance(s[1]) IN
        i # 0 /\ g_udpBindings[i].bound /\ g_udpBindings[i].open /\ g_udpBindings[i].port = s[2]

\* "a socket with continuous traffic cannot starve the others" (HelperReceiveMessage):
\* a datagram with data that waits at a socket is followed by a report from that
\* socket, however much arrives elsewhere, unless the socket is given up first.
NoPortStarves ==
    \A i \in 1..MAX_UDP_BINDINGS :
        (i \in Bindings /\ \E m \in DOMAIN waiting[i] : waiting[i][m].from # None)
        ~> (\/ last.what = "received" /\ last.datagram.to = i
            \/ last.what = "setUp" /\ last.binding = i
            \/ i \in Bindings /\ ~g_udpBindings[i].open)
=============================================================================
