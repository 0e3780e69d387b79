--------------------------- MODULE MCUdpTransport ---------------------------
(* Connection strings for TLC: none, one too short, and an address that is one *)
(* socket's own and not the other's.                                        *)
EXTENDS UdpTransport

MCDestinations == {<<>>, <<"short">>, <<"own", "p1">>}
=============================================================================
