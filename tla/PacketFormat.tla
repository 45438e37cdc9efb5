---------------------------- MODULE PacketFormat ----------------------------
(***************************************************************************)
(* Common/Packet.h and Packet.cpp: a packet and its cursor data_offset.    *)
(* Bytes of the payload are cells of a sequence and their values are any;  *)
(* of the two packed headers only data_size matters here.                  *)
(***************************************************************************)
EXTENDS Naturals, Sequences

\* sizeof(PacketHeader) + sizeof(DataHeader), UINT8_MAX, and of Constraints.h the
\* buffer of receiveData and the width of the bit fields.
HeaderBytes == 9 + 8
Uint8Max == 255
NET_BUFFER_SIZE == 8192
BitField(n) == n % 2^5

\* availableSize computes min(rest of the payload, size), and returns size.
BugAvailableSize(p, size) == size
AvailableSize(p, size) == IF p.offset >= p.dataSize THEN 0 ELSE size

\* memcpy at data_offset; cells past the payload are not the packet's.
WriteData(p, data) ==
  LET size == AvailableSize(p, Len(data))
  IN  [p EXCEPT !.payload = [i \in 1 .. p.dataSize |->
                               IF i \in p.offset + 1 .. p.offset + size
                               THEN data[i - p.offset] ELSE p.payload[i]],
                !.offset = p.offset + size]

\* The first constructor, as PacketFactory::create calls it: data is never null.
NewPacket(data) ==
  WriteData([dataSize |-> Len(data), offset |-> 0, payload |-> [i \in 1 .. Len(data) |-> 0]],
            data)

\* The bytes that Packet::send hands to the socket.
OnTheWire(p) == HeaderBytes + p.dataSize

\* What receiveData may get of a packet in one recv: the headers, and as much of
\* the payload as has come and the buffer holds.
Arrives(p) ==
  {f \in [dataSize : {p.dataSize}, respSize : HeaderBytes .. OnTheWire(p)] :
     f.respSize <= NET_BUFFER_SIZE}

\* The test of Client::receiveData.
SizeAccepted(f) == f.dataSize = f.respSize

=============================================================================
