------------------------- MODULE MCConnectedClient --------------------------
(* ConnectedClient on small instances: the values of its constants for TLC. *)
EXTENDS ConnectedClient

CONSTANTS p1, p2, p3

ThreePackets == {p1, p2, p3}
TwoNeedACK   == {p1, p2}

=============================================================================
