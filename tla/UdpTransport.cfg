\* Three Network Ports for two entries; the peer is on a port the device binds too.
CONSTANTS
    Instances = {1, 2, 3}
    Ports = {"p1", "p2"}
    SourcePorts = {"p1"}
    OtherHosts = {"h"}
    MAX_UDP_BINDINGS = 2
    Destinations <- MCDestinations
    MaxQueue = 1
    None = None
SPECIFICATION FairSpec
INVARIANTS ReportedWhereItArrived BroadcastReachesPeersOnce SetUpMeansBound
PROPERTY NoPortStarves
