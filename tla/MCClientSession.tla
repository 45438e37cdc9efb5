-------------------------- MODULE MCClientSession ---------------------------
(* ClientSession on small instances: the values of its constants for TLC.  *)
EXTENDS ClientSession

CONSTANTS p1, p2

TwoPackets == {p1, p2}
OneNeedsACK == {p1}
NoneNeedsACK == {}

\* What recv may return of what PacketFactory makes of no data and of one byte.
FactoryFrames == UNION {Arrives(NewPacket(data)) : data \in {<<>>, <<1>>}}

\* And of a packet with as many bytes of data as its headers have, the one part
\* that receiveData accepts: all but its last HeaderBytes bytes.
LongPacket  == NewPacket([i \in 1 .. HeaderBytes |-> 1])
EitherFrame == FactoryFrames \cup {f \in Arrives(LongPacket) : SizeAccepted(f)}

=============================================================================
