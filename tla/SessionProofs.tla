--------------------------- MODULE SessionProofs ----------------------------
(* Theorems about ConnectedClient, for any packets and any bound.          *)
EXTENDS ConnectedClient, QueueProofs

-----------------------------------------------------------------------------
(* Types.                                                                  *)

\* Every step keeps the types of the control state.
LEMMA ControlStep == ASSUME TypeOK, ThreadsInv, [Next]_vars PROVE ControlOK'
<1> USE ConstantsOK
    DEF TypeOK, ControlOK, UserLabels, ReceiverLabels, SenderLabels, SocketStates,
        vars, queueVars, pushVars, socketVars, flagVars
\* The code outside.
<1>1. ASSUME SpawnReceiver PROVE ControlOK'
  BY <1>1 DEF SpawnReceiver
<1>2. ASSUME SpawnSender PROVE ControlOK'
  BY <1>2 DEF SpawnSender
<1>3. ASSUME ChooseSession PROVE ControlOK'
  BY <1>3 DEF ChooseSession
<1>4. ASSUME SendPacketBegin PROVE ControlOK'
  <2>1. user' = "push" /\ UNCHANGED <<receiver, sender, flagVars, socketVars>>
    BY <1>4 DEF SendPacketBegin
  <2>2. raced' \in BOOLEAN
    BY <1>4, Zenon DEF SendPacketBegin
  <2> QED BY <2>1, <2>2
<1>5. ASSUME SendPacketEnd PROVE ControlOK'
  <2>1. user' = "idle" /\ UNCHANGED <<receiver, sender, flagVars, socketVars>>
    BY <1>5 DEF SendPacketEnd
  <2>2. raced' \in BOOLEAN
    BY <1>5, Zenon DEF SendPacketEnd
  <2> QED BY <2>1, <2>2
<1>6. ASSUME Disconnect PROVE ControlOK'
  BY <1>6 DEF Disconnect
<1>7. ASSUME JoinReceiver PROVE ControlOK'
  BY <1>7 DEF JoinReceiver
<1>8. ASSUME JoinSender PROVE ControlOK'
  BY <1>8 DEF JoinSender
<1>9. ASSUME ClearQueues PROVE ControlOK'
  BY <1>9 DEF ClearQueues
\* The receiver.
<1>10. ASSUME ReceiverTest PROVE ControlOK'
  BY <1>10 DEF ReceiverTest, ReceiverGoto
<1>11. ASSUME ReceiverRecv PROVE ControlOK'
  BY <1>11 DEF ReceiverRecv, ReceiverGoto
<1>12. ASSUME ReceiverStore PROVE ControlOK'
  BY <1>12 DEF ReceiverStore, ReceiverGoto, Abort
<1>13. ASSUME ReceiverClose PROVE ControlOK'
  BY <1>13 DEF ReceiverClose, ReceiverGoto
\* The sender.
<1>14. ASSUME SenderLoop PROVE ControlOK'
  BY <1>14 DEF SenderLoop, SenderGoto
<1>15. ASSUME TakeMain PROVE ControlOK'
  BY <1>15 DEF TakeMain, SenderGoto
<1>16. ASSUME TakeSync PROVE ControlOK'
  BY <1>16 DEF TakeSync, SenderGoto
<1>17. ASSUME SendData PROVE ControlOK'
  BY <1>17 DEF SendData, SenderGoto, Attempted
<1>18. ASSUME AckTest PROVE ControlOK'
  BY <1>18 DEF AckTest, SenderGoto
<1>19. ASSUME AckRecv PROVE ControlOK'
  BY <1>19 DEF AckRecv, SenderGoto
<1>20. ASSUME AckStore PROVE ControlOK'
  BY <1>20 DEF AckStore, SenderGoto, Abort
<1>21. ASSUME PacketHandled PROVE ControlOK'
  <2>1. sender' \in SenderLabels /\ UNCHANGED <<user, receiver, flagVars, socketVars>>
    BY <1>21 DEF PacketHandled, PopMain, NextSync, SenderGoto
  <2>2. raced' \in BOOLEAN
    <3>1. raced' = raced \/ raced' = (user = "push")
      BY <1>21, Zenon DEF PacketHandled, PopMain, NextSync
    <3>2. (user = "push") \in BOOLEAN
      BY Zenon
    <3> QED BY <3>1, <3>2
  <2> QED BY <2>1, <2>2
<1>22. ASSUME QueueRace \/ Overread PROVE ControlOK'
  BY <1>22 DEF QueueRace, Overread, Abort
<1>23. ASSUME SenderClose PROVE ControlOK'
  BY <1>23 DEF SenderClose
\* The peer, and a step of nothing.
<1>24. ASSUME PeerSends PROVE ControlOK'
  BY <1>24 DEF PeerSends
<1>25. ASSUME UNCHANGED vars PROVE ControlOK'
  BY <1>25
<1> HIDE DEF TypeOK, ControlOK, UserLabels, ReceiverLabels, SenderLabels,
             SocketStates, queueVars, pushVars, socketVars, flagVars
<1> QED
  BY <1>1, <1>2, <1>3, <1>4, <1>5, <1>6, <1>7, <1>8, <1>9, <1>10,
     <1>11, <1>12, <1>13, <1>14, <1>15, <1>16, <1>17, <1>18, <1>19,
     <1>20, <1>21, <1>22, <1>23, <1>24, <1>25
  DEF Next, UserWork, UserCalls, receiverThread, senderThread

\* Every step keeps the types of the queues; pop() never meets an empty queue.
LEMMA QueuesStep == ASSUME TypeOK, ThreadsInv, [Next]_vars PROVE QueuesOK'
<1> USE DEF TypeOK, QueuesOK, vars, queueVars, pushVars, socketVars, flagVars
\* The code outside.
<1>1. ASSUME SpawnReceiver PROVE QueuesOK'
  BY <1>1 DEF SpawnReceiver
<1>2. ASSUME SpawnSender PROVE QueuesOK'
  BY <1>2 DEF SpawnSender
<1>3. ASSUME ChooseSession PROVE QueuesOK'
  BY <1>3 DEF ChooseSession
<1>4. ASSUME SendPacketBegin PROVE QueuesOK'
  BY <1>4 DEF SendPacketBegin
<1>5. ASSUME SendPacketEnd PROVE QueuesOK'
  <2>1. pushing \in Packets
    BY <1>5 DEF SendPacketEnd, ThreadsInv, UserFollowsThreads
  <2>2. Append(mainPackets, pushing) \in Seq(Packets)
    BY <2>1, AppendElements
  <2> QED BY <1>5, <2>2 DEF SendPacketEnd
<1>6. ASSUME Disconnect PROVE QueuesOK'
  BY <1>6 DEF Disconnect
<1>7. ASSUME JoinReceiver PROVE QueuesOK'
  BY <1>7 DEF JoinReceiver
<1>8. ASSUME JoinSender PROVE QueuesOK'
  BY <1>8 DEF JoinSender
<1>9. ASSUME ClearQueues PROVE QueuesOK'
  BY <1>9, EmptySeq DEF ClearQueues
\* The receiver.
<1>10. ASSUME ReceiverTest PROVE QueuesOK'
  BY <1>10 DEF ReceiverTest, ReceiverGoto
<1>11. ASSUME ReceiverRecv PROVE QueuesOK'
  BY <1>11 DEF ReceiverRecv, ReceiverGoto
<1>12. ASSUME ReceiverStore PROVE QueuesOK'
  BY <1>12 DEF ReceiverStore, ReceiverGoto, Abort
<1>13. ASSUME ReceiverClose PROVE QueuesOK'
  BY <1>13 DEF ReceiverClose, ReceiverGoto
\* The sender.
<1>14. ASSUME SenderLoop PROVE QueuesOK'
  BY <1>14 DEF SenderLoop, SenderGoto
<1>15. ASSUME TakeMain PROVE QueuesOK'
  <2>1. mainPackets # <<>> => mainPackets[Len(mainPackets)] \in Packets
    <3>1. mainPackets # <<>> => Len(mainPackets) \in 1 .. Len(mainPackets)
      BY EmptySeq, LenProperties
    <3> QED BY <3>1, ElementOfSeq
  <2> QED BY <1>15, <2>1 DEF TakeMain, SenderGoto
<1>16. ASSUME TakeSync PROVE QueuesOK'
  <2>1. CASE retrying <= Len(syncPackets)
    <3>1. retrying \in 1 .. Len(syncPackets)
      BY <1>16, <2>1, LenProperties DEF TakeSync, SenderGoto, ThreadsInv, PacketInHand
    <3>2. syncPackets[retrying] \in Packets
      BY <3>1, ElementOfSeq
    <3> QED BY <1>16, <2>1, <3>2 DEF TakeSync, SenderGoto
  <2>2. CASE ~(retrying <= Len(syncPackets))
    BY <1>16, <2>2 DEF TakeSync, SenderGoto
  <2> QED BY <2>1, <2>2
<1>17. ASSUME SendData PROVE QueuesOK'
  BY <1>17 DEF SendData, SenderGoto, Attempted
<1>18. ASSUME AckTest PROVE QueuesOK'
  BY <1>18 DEF AckTest, SenderGoto
<1>19. ASSUME AckRecv PROVE QueuesOK'
  BY <1>19 DEF AckRecv, SenderGoto
<1>20. ASSUME AckStore PROVE QueuesOK'
  BY <1>20 DEF AckStore, SenderGoto, Abort
<1>21. ASSUME PacketHandled PROVE QueuesOK'
  <2>1. /\ sender \in InHand /\ current \in Packets /\ current' = NoPacket
        /\ pushing' = pushing
    BY <1>21 DEF PacketHandled, PopMain, NextSync, SenderGoto, ThreadsInv, PacketInHand, InHand
  <2>2. ASSUME NEW outcome, PopMain(outcome) PROVE QueuesOK'
    <3>1. mainPackets # <<>>
      BY <2>1, <2>2 DEF PopMain, ThreadsInv, PacketInHand
    <3>2. Tail(mainPackets) \in Seq(Packets)
      BY <3>1, HeadTailProperties
    <3>3. Append(syncPackets, current) \in Seq(Packets)
      BY <2>1, AppendElements
    <3> QED BY <2>1, <2>2, <3>2, <3>3 DEF PopMain
  <2>3. ASSUME NEW outcome, NextSync(outcome) PROVE QueuesOK'
    <3>1. retrying \in 1 .. Len(syncPackets)
      BY <2>1, <2>3 DEF NextSync, ThreadsInv, PacketInHand
    <3>2. WithoutAt(syncPackets, retrying) \in Seq(Packets)
      BY <3>1, WithoutAtElements
    <3> QED BY <2>1, <2>3, <3>2 DEF NextSync
  <2> QED BY <1>21, <2>2, <2>3 DEF PacketHandled
<1>22. ASSUME QueueRace \/ Overread PROVE QueuesOK'
  BY <1>22 DEF QueueRace, Overread, Abort
<1>23. ASSUME SenderClose PROVE QueuesOK'
  BY <1>23 DEF SenderClose
\* The peer, and a step of nothing.
<1>24. ASSUME PeerSends PROVE QueuesOK'
  BY <1>24 DEF PeerSends
<1>25. ASSUME UNCHANGED vars PROVE QueuesOK'
  BY <1>25
<1> HIDE DEF TypeOK, QueuesOK, queueVars, pushVars, socketVars, flagVars
<1> QED
  BY <1>1, <1>2, <1>3, <1>4, <1>5, <1>6, <1>7, <1>8, <1>9, <1>10,
     <1>11, <1>12, <1>13, <1>14, <1>15, <1>16, <1>17, <1>18, <1>19,
     <1>20, <1>21, <1>22, <1>23, <1>24, <1>25
  DEF Next, UserWork, UserCalls, receiverThread, senderThread

\* Every step keeps the types of the ghosts.
LEMMA HistoryStep == ASSUME TypeOK, ThreadsInv, [Next]_vars PROVE HistoryOK'
<1> USE DEF TypeOK, HistoryOK, vars, queueVars, pushVars, socketVars, flagVars
\* The code outside.
<1>1. ASSUME SpawnReceiver PROVE HistoryOK'
  BY <1>1 DEF SpawnReceiver
<1>2. ASSUME SpawnSender PROVE HistoryOK'
  BY <1>2 DEF SpawnSender
<1>3. ASSUME ChooseSession PROVE HistoryOK'
  BY <1>3 DEF ChooseSession
<1>4. ASSUME SendPacketBegin PROVE HistoryOK'
  <2>1. PICK p \in Packets : history' = [history EXCEPT !.pushed = Append(history.pushed, p)]
    BY <1>4 DEF SendPacketBegin
  <2>2. Append(history.pushed, p) \in Seq(Packets)
    BY AppendElements
  <2> QED BY <2>1, <2>2
<1>5. ASSUME SendPacketEnd PROVE HistoryOK'
  BY <1>5 DEF SendPacketEnd, ThreadsInv, UserFollowsThreads, QueuesOK
<1>6. ASSUME Disconnect PROVE HistoryOK'
  BY <1>6 DEF Disconnect
<1>7. ASSUME JoinReceiver PROVE HistoryOK'
  BY <1>7 DEF JoinReceiver
<1>8. ASSUME JoinSender PROVE HistoryOK'
  BY <1>8 DEF JoinSender
<1>9. ASSUME ClearQueues PROVE HistoryOK'
  BY <1>9 DEF ClearQueues
\* The receiver.
<1>10. ASSUME ReceiverTest PROVE HistoryOK'
  BY <1>10 DEF ReceiverTest, ReceiverGoto
<1>11. ASSUME ReceiverRecv PROVE HistoryOK'
  BY <1>11 DEF ReceiverRecv, ReceiverGoto
<1>12. ASSUME ReceiverStore PROVE HistoryOK'
  BY <1>12 DEF ReceiverStore, ReceiverGoto, Abort
<1>13. ASSUME ReceiverClose PROVE HistoryOK'
  BY <1>13 DEF ReceiverClose, ReceiverGoto
\* The sender.
<1>14. ASSUME SenderLoop PROVE HistoryOK'
  BY <1>14 DEF SenderLoop, SenderGoto
<1>15. ASSUME TakeMain PROVE HistoryOK'
  BY <1>15 DEF TakeMain, SenderGoto
<1>16. ASSUME TakeSync PROVE HistoryOK'
  BY <1>16 DEF TakeSync, SenderGoto
<1>17. ASSUME SendData PROVE HistoryOK'
  BY <1>17 DEF SendData, SenderGoto, Attempted, ThreadsInv, PacketInHand, InHand
<1>18. ASSUME AckTest PROVE HistoryOK'
  BY <1>18 DEF AckTest, SenderGoto
<1>19. ASSUME AckRecv PROVE HistoryOK'
  BY <1>19 DEF AckRecv, SenderGoto
<1>20. ASSUME AckStore PROVE HistoryOK'
  BY <1>20 DEF AckStore, SenderGoto, Abort
<1>21. ASSUME PacketHandled PROVE HistoryOK'
  BY <1>21 DEF PacketHandled, PopMain, NextSync, SenderGoto, Confirmed, ThreadsInv, PacketInHand, InHand
<1>22. ASSUME QueueRace \/ Overread PROVE HistoryOK'
  BY <1>22 DEF QueueRace, Overread, Abort
<1>23. ASSUME SenderClose PROVE HistoryOK'
  BY <1>23 DEF SenderClose
\* The peer, and a step of nothing.
<1>24. ASSUME PeerSends PROVE HistoryOK'
  BY <1>24 DEF PeerSends
<1>25. ASSUME UNCHANGED vars PROVE HistoryOK'
  BY <1>25
<1> HIDE DEF TypeOK, HistoryOK, queueVars, pushVars, socketVars, flagVars
<1> QED
  BY <1>1, <1>2, <1>3, <1>4, <1>5, <1>6, <1>7, <1>8, <1>9, <1>10,
     <1>11, <1>12, <1>13, <1>14, <1>15, <1>16, <1>17, <1>18, <1>19,
     <1>20, <1>21, <1>22, <1>23, <1>24, <1>25
  DEF Next, UserWork, UserCalls, receiverThread, senderThread

\* A session starts with both in order.
LEMMA SessionInitial == ASSUME Init PROVE TypeOK /\ ThreadsInv
<1>1. TypeOK
  <2>1. ControlOK
    <3>1. started \in BOOLEAN /\ disconnected \in BOOLEAN /\ raced \in BOOLEAN
      BY Zenon DEF Init
    <3> QED BY <3>1, ConstantsOK
            DEF Init, ControlOK, UserLabels, ReceiverLabels, SenderLabels, SocketStates
  <2>2. QueuesOK
    BY EmptySeq DEF Init, QueuesOK
  <2>3. <<>> \in Seq(Packets)
    BY EmptySeq
  <2>4. HistoryOK
    BY <2>3 DEF Init, HistoryOK
  <2> QED BY <2>1, <2>2, <2>4 DEF TypeOK
<1>2. ThreadsInv
  BY DEF Init, ThreadsInv, SocketsFollowThreads, UserFollowsThreads, PacketInHand,
         DisconnectedClean, RetryKeepsPacket, ThreadsReturned, InHand
<1> QED BY <1>1, <1>2

-----------------------------------------------------------------------------
(* The inductive invariant ThreadsInv.                                     *)

\* Every step of any of the three threads keeps the invariant.
LEMMA InvStep == ASSUME TypeOK, ThreadsInv, [Next]_vars PROVE ThreadsInv'
<1> USE ConstantsOK
    DEF ThreadsInv, SocketsFollowThreads, UserFollowsThreads, PacketInHand,
        DisconnectedClean, RetryKeepsPacket, ThreadsReturned, InHand, Running,
        vars, queueVars, pushVars, socketVars, flagVars
\* The code outside.
<1>1. ASSUME SpawnReceiver PROVE ThreadsInv'
  BY <1>1 DEF SpawnReceiver
<1>2. ASSUME SpawnSender PROVE ThreadsInv'
  BY <1>2 DEF SpawnSender
<1>3. ASSUME ChooseSession PROVE ThreadsInv'
  BY <1>3 DEF ChooseSession
<1>4. ASSUME SendPacketBegin PROVE ThreadsInv'
  BY <1>4 DEF SendPacketBegin
<1>5. ASSUME SendPacketEnd PROVE ThreadsInv'
  <2>1. /\ user' = "idle" /\ user = "push" /\ pushing' = NoPacket
        /\ UNCHANGED <<receiver, sender, flagVars, socketVars, syncPackets, current, retrying>>
        /\ history'.attempted = history.attempted /\ history'.confirmed = history.confirmed
        /\ mainPackets' = mainPackets \/ mainPackets' = Append(mainPackets, pushing)
    BY <1>5 DEF SendPacketEnd, TypeOK, HistoryOK
  <2>2. Append(mainPackets, pushing) # <<>>
    <3>1. mainPackets \in Seq(Packets) /\ pushing \in Packets
      BY <2>1 DEF TypeOK, QueuesOK
    <3> QED BY <3>1, AppendLast
  <2> QED BY <2>1, <2>2
<1>6. ASSUME Disconnect PROVE ThreadsInv'
  BY <1>6 DEF Disconnect
<1>7. ASSUME JoinReceiver PROVE ThreadsInv'
  BY <1>7 DEF JoinReceiver
<1>8. ASSUME JoinSender PROVE ThreadsInv'
  BY <1>8 DEF JoinSender
<1>9. ASSUME ClearQueues PROVE ThreadsInv'
  <2>1. SocketsFollowThreads' /\ UserFollowsThreads' /\ DisconnectedClean' /\ RetryKeepsPacket'
    BY <1>9 DEF ClearQueues
  <2>2. PacketInHand'
    <3>1. sender = "exit" /\ UNCHANGED <<sender, current, retrying>>
      BY <1>9 DEF ClearQueues
    <3> QED BY <3>1
  <2> QED BY <2>1, <2>2
\* The receiver.
<1>10. ASSUME ReceiverTest PROVE ThreadsInv'
  BY <1>10 DEF ReceiverTest, ReceiverGoto
<1>11. ASSUME ReceiverRecv PROVE ThreadsInv'
  BY <1>11 DEF ReceiverRecv, ReceiverGoto
<1>12. ASSUME ReceiverStore PROVE ThreadsInv'
  BY <1>12 DEF ReceiverStore, ReceiverGoto, Abort
<1>13. ASSUME ReceiverClose PROVE ThreadsInv'
  BY <1>13 DEF ReceiverClose, ReceiverGoto
\* The sender.
<1>14. ASSUME SenderLoop PROVE ThreadsInv'
  BY <1>14 DEF SenderLoop, SenderGoto
<1>15. ASSUME TakeMain PROVE ThreadsInv'
  <2>1. CASE mainPackets # <<>>
    <3>1. mainPackets[Len(mainPackets)] \in Packets
      <4>1. mainPackets \in Seq(Packets)
        BY DEF TypeOK, QueuesOK
      <4>2. Len(mainPackets) \in 1 .. Len(mainPackets)
        BY <2>1, <4>1, EmptySeq, LenProperties
      <4> QED BY <4>1, <4>2, ElementOfSeq
    <3>2. history.attempted \subseteq Packets
      BY DEF TypeOK, HistoryOK
    <3> QED BY <1>15, <2>1, <3>1, <3>2 DEF TakeMain, SenderGoto
  <2>2. CASE mainPackets = <<>>
    BY <1>15, <2>2 DEF TakeMain, SenderGoto
  <2> QED BY <2>1, <2>2
<1>16. ASSUME TakeSync PROVE ThreadsInv'
  <2>1. CASE retrying <= Len(syncPackets)
    <3>1. retrying \in 1 .. Len(syncPackets) /\ retrying > 0
      BY <1>16, <2>1, LenProperties DEF TakeSync, SenderGoto, TypeOK, QueuesOK
    <3>2. syncPackets[retrying] \in Packets
      BY <3>1, ElementOfSeq DEF TypeOK, QueuesOK
    <3>3. history.attempted \subseteq Packets
      BY DEF TypeOK, HistoryOK
    <3> QED BY <1>16, <2>1, <3>1, <3>2, <3>3 DEF TakeSync, SenderGoto
  <2>2. CASE ~(retrying <= Len(syncPackets))
    BY <1>16, <2>2 DEF TakeSync, SenderGoto
  <2> QED BY <2>1, <2>2
<1>17. ASSUME SendData PROVE ThreadsInv'
  BY <1>17 DEF SendData, SenderGoto, Attempted
<1>18. ASSUME AckTest PROVE ThreadsInv'
  BY <1>18 DEF AckTest, SenderGoto
<1>19. ASSUME AckRecv PROVE ThreadsInv'
  BY <1>19 DEF AckRecv, SenderGoto
<1>20. ASSUME AckStore PROVE ThreadsInv'
  BY <1>20 DEF AckStore, SenderGoto, Abort
<1>21. ASSUME PacketHandled PROVE ThreadsInv'
  <2> USE DEF TypeOK, QueuesOK, HistoryOK
  <2>1. /\ sender \in InHand /\ sender' \in {"main", "sync"} /\ current' = NoPacket
        /\ UNCHANGED <<user, receiver, flagVars, readSocket, writeSocket, pushing>>
        /\ current \in Packets
        /\ history'.attempted = history.attempted
    BY <1>21 DEF PacketHandled, PopMain, NextSync, Confirmed, SenderGoto
  <2>2. ~disconnected
    BY <2>1
  <2>3. SocketsFollowThreads' /\ UserFollowsThreads' /\ DisconnectedClean'
    BY <2>1, <2>2
  <2>4. PacketInHand'
    BY <1>21, <2>1 DEF PacketHandled, PopMain, NextSync, SenderGoto
  <2>5. RetryKeepsPacket'
    <3>1. CASE PopMain("confirmed") /\ Confirmed
      BY <2>1, <2>2, <3>1 DEF PopMain, Confirmed
    <3>2. CASE PopMain("unconfirmed") /\ UNCHANGED history
      <4>1. Elements(syncPackets') = Elements(syncPackets) \cup {current}
        BY <2>1, <3>2, AppendElements DEF PopMain
      <4> QED BY <2>1, <2>2, <3>2, <4>1
    <3>3. CASE NextSync("confirmed") /\ Confirmed
      <4>1. retrying \in 1 .. Len(syncPackets) /\ syncPackets[retrying] = current
        BY <2>1, <3>3 DEF NextSync
      <4>2. Elements(syncPackets) \subseteq Elements(syncPackets') \cup {current}
        BY <3>3, <4>1, WithoutAtElements DEF NextSync
      <4> QED BY <2>1, <2>2, <3>3, <4>2 DEF Confirmed
    <3>4. CASE NextSync("unconfirmed") /\ UNCHANGED history
      <4>1. retrying \in 1 .. Len(syncPackets) /\ syncPackets[retrying] = current
        BY <2>1, <3>4 DEF NextSync
      <4>2. current \in Elements(syncPackets)
        BY <4>1, LenProperties DEF Elements
      <4> QED BY <2>1, <2>2, <3>4, <4>2 DEF NextSync
    <3> QED BY <1>21, <3>1, <3>2, <3>3, <3>4 DEF PacketHandled
  <2> QED BY <2>3, <2>4, <2>5
<1>22. ASSUME QueueRace \/ Overread PROVE ThreadsInv'
  BY <1>22 DEF QueueRace, Overread, Abort
<1>23. ASSUME SenderClose PROVE ThreadsInv'
  BY <1>23 DEF SenderClose
\* The peer, and a step of nothing.
<1>24. ASSUME PeerSends PROVE ThreadsInv'
  BY <1>24 DEF PeerSends
<1>25. ASSUME UNCHANGED vars PROVE ThreadsInv'
  BY <1>25
<1> HIDE DEF ThreadsInv, SocketsFollowThreads, UserFollowsThreads,
             PacketInHand, DisconnectedClean, RetryKeepsPacket,
             ThreadsReturned, InHand, Running, queueVars, pushVars,
             socketVars, flagVars
<1> QED
  BY <1>1, <1>2, <1>3, <1>4, <1>5, <1>6, <1>7, <1>8, <1>9, <1>10,
     <1>11, <1>12, <1>13, <1>14, <1>15, <1>16, <1>17, <1>18, <1>19,
     <1>20, <1>21, <1>22, <1>23, <1>24, <1>25
  DEF Next, UserWork, UserCalls, receiverThread, senderThread

-----------------------------------------------------------------------------
(* The newest packet.                                                      *)

\* While the sender works on the only packet of mainPackets, that is the front.
LEMMA OnlyPacketStep ==
  ASSUME TypeOK, ThreadsInv, OnlyPacketInHand, [Next]_vars
  PROVE  OnlyPacketInHand'
<1> USE DEF OnlyPacketInHand, InHand, queueVars, pushVars, socketVars, flagVars
\* The code outside.
<1>1. ASSUME SpawnReceiver PROVE OnlyPacketInHand'
  BY <1>1 DEF SpawnReceiver
<1>2. ASSUME SpawnSender PROVE OnlyPacketInHand'
  BY <1>2 DEF SpawnSender
<1>3. ASSUME ChooseSession PROVE OnlyPacketInHand'
  BY <1>3 DEF ChooseSession
<1>4. ASSUME SendPacketBegin PROVE OnlyPacketInHand'
  BY <1>4 DEF SendPacketBegin
<1>5. ASSUME SendPacketEnd PROVE OnlyPacketInHand'
  <2>1. UNCHANGED <<sender, retrying, current>>
    BY <1>5 DEF SendPacketEnd
  <2>2. mainPackets' = mainPackets \/ mainPackets' = Append(mainPackets, pushing)
    BY <1>5 DEF SendPacketEnd
  <2>3. CASE mainPackets' = Append(mainPackets, pushing)
    <3>1. mainPackets \in Seq(Packets) /\ pushing \in Packets
      BY <1>5 DEF SendPacketEnd, TypeOK, QueuesOK, ThreadsInv, UserFollowsThreads
    <3>2. Len(mainPackets') = Len(mainPackets) + 1 /\ Len(mainPackets) \in Nat
      BY <2>3, <3>1, AppendLast, LenProperties
    <3>3. sender \in InHand /\ retrying = 0 => Len(mainPackets) > 0
      BY <3>1, <3>2, EmptySeq DEF ThreadsInv, PacketInHand
    <3> QED BY <2>1, <3>2, <3>3
  <2> QED BY <2>1, <2>2, <2>3
<1>6. ASSUME Disconnect PROVE OnlyPacketInHand'
  BY <1>6 DEF Disconnect
<1>7. ASSUME JoinReceiver PROVE OnlyPacketInHand'
  BY <1>7 DEF JoinReceiver
<1>8. ASSUME JoinSender PROVE OnlyPacketInHand'
  BY <1>8 DEF JoinSender
<1>9. ASSUME ClearQueues PROVE OnlyPacketInHand'
  <2>1. sender' = "exit"
    BY <1>9 DEF ClearQueues, ThreadsInv, UserFollowsThreads
  <2> QED BY <2>1
\* The receiver.
<1>10. ASSUME ReceiverTest PROVE OnlyPacketInHand'
  BY <1>10 DEF ReceiverTest, ReceiverGoto
<1>11. ASSUME ReceiverRecv PROVE OnlyPacketInHand'
  BY <1>11 DEF ReceiverRecv, ReceiverGoto
<1>12. ASSUME ReceiverStore PROVE OnlyPacketInHand'
  BY <1>12 DEF ReceiverStore, ReceiverGoto, Abort
<1>13. ASSUME ReceiverClose PROVE OnlyPacketInHand'
  BY <1>13 DEF ReceiverClose, ReceiverGoto
\* The sender.
<1>14. ASSUME SenderLoop PROVE OnlyPacketInHand'
  BY <1>14 DEF SenderLoop, SenderGoto
<1>15. ASSUME TakeMain PROVE OnlyPacketInHand'
  BY <1>15 DEF TakeMain, SenderGoto
<1>16. ASSUME TakeSync PROVE OnlyPacketInHand'
  <2>1. sender' = "send" => UNCHANGED retrying /\ retrying > 0
    BY <1>16 DEF TakeSync, SenderGoto, ThreadsInv, PacketInHand
  <2>2. sender' \in {"send", "sleep"}
    BY <1>16 DEF TakeSync, SenderGoto
  <2>3. retrying \in Nat
    BY DEF TypeOK, QueuesOK
  <2> QED BY <2>1, <2>2, <2>3
<1>17. ASSUME SendData PROVE OnlyPacketInHand'
  BY <1>17 DEF SendData, SenderGoto, Attempted
<1>18. ASSUME AckTest PROVE OnlyPacketInHand'
  BY <1>18 DEF AckTest, SenderGoto
<1>19. ASSUME AckRecv PROVE OnlyPacketInHand'
  BY <1>19 DEF AckRecv, SenderGoto
<1>20. ASSUME AckStore PROVE OnlyPacketInHand'
  BY <1>20 DEF AckStore, SenderGoto, Abort
<1>21. ASSUME PacketHandled PROVE OnlyPacketInHand'
  <2>1. sender' \in {"main", "sync"}
    BY <1>21 DEF PacketHandled, PopMain, NextSync, SenderGoto
  <2> QED BY <2>1
<1>22. ASSUME QueueRace \/ Overread PROVE OnlyPacketInHand'
  BY <1>22 DEF QueueRace, Overread, Abort
<1>23. ASSUME SenderClose PROVE OnlyPacketInHand'
  BY <1>23 DEF SenderClose
\* The peer, and a step of nothing.
<1>24. ASSUME PeerSends PROVE OnlyPacketInHand'
  BY <1>24 DEF PeerSends
<1>25. ASSUME UNCHANGED vars PROVE OnlyPacketInHand'
  BY <1>25 DEF vars
<1> HIDE DEF OnlyPacketInHand, InHand, queueVars, pushVars, socketVars, flagVars
<1> QED
  BY <1>1, <1>2, <1>3, <1>4, <1>5, <1>6, <1>7, <1>8, <1>9, <1>10,
     <1>11, <1>12, <1>13, <1>14, <1>15, <1>16, <1>17, <1>18, <1>19, <1>20,
     <1>21, <1>22, <1>23, <1>24, <1>25
  DEF Next, UserWork, UserCalls, receiverThread, senderThread

\* A packet leaves the label of send with its call recorded.
LEMMA HandedStep ==
  ASSUME TypeOK, ThreadsInv, HandedToSend, [Next]_vars
  PROVE  HandedToSend'
<1> USE DEF HandedToSend, InHand, queueVars, pushVars, socketVars, flagVars, TypeOK, HistoryOK
\* The code outside.
<1>1. ASSUME SpawnReceiver PROVE HandedToSend'
  BY <1>1 DEF SpawnReceiver
<1>2. ASSUME SpawnSender PROVE HandedToSend'
  BY <1>2 DEF SpawnSender
<1>3. ASSUME ChooseSession PROVE HandedToSend'
  BY <1>3 DEF ChooseSession
<1>4. ASSUME SendPacketBegin PROVE HandedToSend'
  BY <1>4 DEF SendPacketBegin
<1>5. ASSUME SendPacketEnd PROVE HandedToSend'
  BY <1>5 DEF SendPacketEnd
<1>6. ASSUME Disconnect PROVE HandedToSend'
  BY <1>6 DEF Disconnect
<1>7. ASSUME JoinReceiver PROVE HandedToSend'
  BY <1>7 DEF JoinReceiver
<1>8. ASSUME JoinSender PROVE HandedToSend'
  BY <1>8 DEF JoinSender
<1>9. ASSUME ClearQueues PROVE HandedToSend'
  <2>1. sender' = "exit"
    BY <1>9 DEF ClearQueues, ThreadsInv, UserFollowsThreads
  <2> QED BY <2>1
\* The receiver.
<1>10. ASSUME ReceiverTest PROVE HandedToSend'
  BY <1>10 DEF ReceiverTest, ReceiverGoto
<1>11. ASSUME ReceiverRecv PROVE HandedToSend'
  BY <1>11 DEF ReceiverRecv, ReceiverGoto
<1>12. ASSUME ReceiverStore PROVE HandedToSend'
  BY <1>12 DEF ReceiverStore, ReceiverGoto, Abort
<1>13. ASSUME ReceiverClose PROVE HandedToSend'
  BY <1>13 DEF ReceiverClose, ReceiverGoto
\* The sender.
<1>14. ASSUME SenderLoop PROVE HandedToSend'
  BY <1>14 DEF SenderLoop, SenderGoto
<1>15. ASSUME TakeMain PROVE HandedToSend'
  BY <1>15 DEF TakeMain, SenderGoto
<1>16. ASSUME TakeSync PROVE HandedToSend'
  BY <1>16 DEF TakeSync, SenderGoto
<1>17. ASSUME SendData PROVE HandedToSend'
  BY <1>17 DEF SendData, SenderGoto, Attempted
<1>18. ASSUME AckTest PROVE HandedToSend'
  BY <1>18 DEF AckTest, SenderGoto
<1>19. ASSUME AckRecv PROVE HandedToSend'
  BY <1>19 DEF AckRecv, SenderGoto
<1>20. ASSUME AckStore PROVE HandedToSend'
  BY <1>20 DEF AckStore, SenderGoto, Abort
<1>21. ASSUME PacketHandled PROVE HandedToSend'
  <2>1. sender' \in {"main", "sync"}
    BY <1>21 DEF PacketHandled, PopMain, NextSync, SenderGoto
  <2> QED BY <2>1
<1>22. ASSUME QueueRace \/ Overread PROVE HandedToSend'
  BY <1>22 DEF QueueRace, Overread, Abort
<1>23. ASSUME SenderClose PROVE HandedToSend'
  BY <1>23 DEF SenderClose
\* The peer, and a step of nothing.
<1>24. ASSUME PeerSends PROVE HandedToSend'
  BY <1>24 DEF PeerSends
<1>25. ASSUME UNCHANGED vars PROVE HandedToSend'
  BY <1>25 DEF vars
<1> HIDE DEF HandedToSend, InHand, queueVars, pushVars, socketVars, flagVars, TypeOK, HistoryOK
<1> QED
  BY <1>1, <1>2, <1>3, <1>4, <1>5, <1>6, <1>7, <1>8, <1>9, <1>10,
     <1>11, <1>12, <1>13, <1>14, <1>15, <1>16, <1>17, <1>18, <1>19, <1>20,
     <1>21, <1>22, <1>23, <1>24, <1>25
  DEF Next, UserWork, UserCalls, receiverThread, senderThread

\* The packets that count as newest change only with what was pushed, what was
\* lost and what is being pushed.
LEMMA SameNewest ==
  ASSUME NEW p, history'.pushed = history.pushed, history'.lost = history.lost,
         pushing' = pushing
  PROVE  Newest(p)' <=> Newest(p)
BY DEF Newest

\* A push is of a packet that was never pushed, and loses at most that one.
LEMMA PushedStep ==
  ASSUME TypeOK, ThreadsInv, PushedLast, [Next]_vars
  PROVE  PushedLast'
<1> USE DEF PushedLast, queueVars, pushVars, socketVars, flagVars, TypeOK, HistoryOK
\* The code outside.
<1>1. ASSUME SpawnReceiver PROVE PushedLast'
  BY <1>1 DEF SpawnReceiver
<1>2. ASSUME SpawnSender PROVE PushedLast'
  BY <1>2 DEF SpawnSender
<1>3. ASSUME ChooseSession PROVE PushedLast'
  BY <1>3 DEF ChooseSession
<1>4. ASSUME SendPacketBegin PROVE PushedLast'
  <2>1. PICK p \in Packets \ Elements(history.pushed) :
          pushing' = p /\ history' = [history EXCEPT !.pushed = Append(@, p)]
    BY <1>4 DEF SendPacketBegin
  <2>2. /\ history'.pushed = Append(history.pushed, p) /\ history'.lost = history.lost
        /\ history.pushed \in Seq(Packets)
    BY <2>1
  <2>3. Elements(history.pushed) \subseteq Elements(history'.pushed)
    BY <2>1, <2>2, AppendElements
  <2>4. /\ history'.pushed # <<>>
        /\ history'.pushed[Len(history'.pushed)] = p
    BY <2>1, <2>2, AppendLast
  <2> QED BY <2>1, <2>2, <2>3, <2>4
<1>5. ASSUME SendPacketEnd PROVE PushedLast'
  <2>1. /\ pushing' = NoPacket /\ history'.pushed = history.pushed
        /\ history'.lost \subseteq history.lost \cup {pushing}
        /\ pushing # NoPacket
    BY <1>5 DEF SendPacketEnd, ThreadsInv, UserFollowsThreads
  <2>2. pushing \in Elements(history.pushed)
    <3>1. Len(history.pushed) \in DOMAIN history.pushed
      BY <2>1, EmptySeq, LenProperties
    <3> QED BY <2>1, <3>1 DEF Elements
  <2> QED BY <2>1, <2>2
<1>6. ASSUME Disconnect PROVE PushedLast'
  BY <1>6 DEF Disconnect
<1>7. ASSUME JoinReceiver PROVE PushedLast'
  BY <1>7 DEF JoinReceiver
<1>8. ASSUME JoinSender PROVE PushedLast'
  BY <1>8 DEF JoinSender
<1>9. ASSUME ClearQueues PROVE PushedLast'
  BY <1>9 DEF ClearQueues
\* The receiver.
<1>10. ASSUME ReceiverTest PROVE PushedLast'
  BY <1>10 DEF ReceiverTest, ReceiverGoto
<1>11. ASSUME ReceiverRecv PROVE PushedLast'
  BY <1>11 DEF ReceiverRecv, ReceiverGoto
<1>12. ASSUME ReceiverStore PROVE PushedLast'
  BY <1>12 DEF ReceiverStore, ReceiverGoto, Abort
<1>13. ASSUME ReceiverClose PROVE PushedLast'
  BY <1>13 DEF ReceiverClose, ReceiverGoto
\* The sender.
<1>14. ASSUME SenderLoop PROVE PushedLast'
  BY <1>14 DEF SenderLoop, SenderGoto
<1>15. ASSUME TakeMain PROVE PushedLast'
  BY <1>15 DEF TakeMain, SenderGoto
<1>16. ASSUME TakeSync PROVE PushedLast'
  BY <1>16 DEF TakeSync, SenderGoto
<1>17. ASSUME SendData PROVE PushedLast'
  <2>1. /\ history'.pushed = history.pushed /\ history'.lost = history.lost
        /\ pushing' = pushing
    BY <1>17 DEF SendData, SenderGoto, Attempted
  <2> QED BY <2>1
<1>18. ASSUME AckTest PROVE PushedLast'
  BY <1>18 DEF AckTest, SenderGoto
<1>19. ASSUME AckRecv PROVE PushedLast'
  BY <1>19 DEF AckRecv, SenderGoto
<1>20. ASSUME AckStore PROVE PushedLast'
  BY <1>20 DEF AckStore, SenderGoto, Abort
<1>21. ASSUME PacketHandled PROVE PushedLast'
  <2>1. /\ history'.pushed = history.pushed /\ history'.lost = history.lost
        /\ pushing' = pushing
    BY <1>21 DEF PacketHandled, PopMain, NextSync, SenderGoto, Confirmed
  <2> QED BY <2>1
<1>22. ASSUME QueueRace \/ Overread PROVE PushedLast'
  BY <1>22 DEF QueueRace, Overread, Abort
<1>23. ASSUME SenderClose PROVE PushedLast'
  BY <1>23 DEF SenderClose
\* The peer, and a step of nothing.
<1>24. ASSUME PeerSends PROVE PushedLast'
  BY <1>24 DEF PeerSends
<1>25. ASSUME UNCHANGED vars PROVE PushedLast'
  BY <1>25 DEF vars
<1> HIDE DEF PushedLast, queueVars, pushVars, socketVars, flagVars, TypeOK, HistoryOK
<1> QED
  BY <1>1, <1>2, <1>3, <1>4, <1>5, <1>6, <1>7, <1>8, <1>9, <1>10,
     <1>11, <1>12, <1>13, <1>14, <1>15, <1>16, <1>17, <1>18, <1>19, <1>20,
     <1>21, <1>22, <1>23, <1>24, <1>25
  DEF Next, UserWork, UserCalls, receiverThread, senderThread

\* A push that begins makes none but its own packet newest, and that one only
\* when it ends.
LEMMA BeginNewest ==
  ASSUME TypeOK, ThreadsInv, PushedLast, SendPacketBegin, NEW p \in Packets, Newest(p)'
  PROVE  Newest(p)
<1>1. PICK q \in Packets \ Elements(history.pushed) :
        pushing' = q /\ history' = [history EXCEPT !.pushed = Append(@, q)]
  BY DEF SendPacketBegin
<1>2. /\ history'.pushed = Append(history.pushed, q) /\ history'.lost = history.lost
      /\ history.pushed \in Seq(Packets)
  BY <1>1 DEF TypeOK, HistoryOK
<1>3. /\ DOMAIN history'.pushed = 1 .. Len(history.pushed) + 1
      /\ DOMAIN history.pushed = 1 .. Len(history.pushed) /\ Len(history.pushed) \in Nat
      /\ \A i \in 1 .. Len(history.pushed) : history'.pushed[i] = history.pushed[i]
      /\ history'.pushed[Len(history.pushed) + 1] = q
  BY <1>1, <1>2, AppendLast, LenProperties
<1>4. p # q /\ p \notin history.lost
  BY <1>1, <1>2 DEF Newest
<1>5. PICK i \in 1 .. Len(history.pushed) + 1 :
        /\ history'.pushed[i] = p
        /\ \A j \in 1 .. Len(history.pushed) + 1 :
             j > i => history'.pushed[j] \in history.lost \cup {q}
  BY <1>1, <1>2, <1>3 DEF Newest
<1>6. i \in 1 .. Len(history.pushed) /\ history.pushed[i] = p
  BY <1>3, <1>4, <1>5
<1>7. ASSUME NEW j \in 1 .. Len(history.pushed), j > i
      PROVE  history.pushed[j] \in history.lost
  <2>1. history'.pushed[j] \in history.lost \cup {q}
    BY <1>3, <1>5, <1>7
  <2>2. history.pushed[j] # q
    BY <1>1, <1>3 DEF Elements
  <2> QED BY <1>3, <2>1, <2>2
<1>8. pushing = NoPacket /\ NoPacket \notin Packets
  BY ConstantsOK DEF SendPacketBegin, ThreadsInv, UserFollowsThreads
<1> QED BY <1>3, <1>4, <1>6, <1>7, <1>8 DEF Newest

\* A push that ends makes its packet the newest, or loses it and leaves the newest
\* one as it was.
LEMMA EndNewest ==
  ASSUME TypeOK, ThreadsInv, PushedLast, SendPacketEnd, NEW p \in Packets, Newest(p)'
  PROVE  IF history' = history THEN p = pushing ELSE Newest(p)
<1>1. /\ pushing \in Packets /\ pushing' = NoPacket /\ NoPacket \notin Packets
      /\ history'.pushed = history.pushed
      /\ history.pushed \in Seq(Packets)
  BY ConstantsOK
  DEF SendPacketEnd, ThreadsInv, UserFollowsThreads, TypeOK, QueuesOK, HistoryOK
<1>2. DOMAIN history.pushed = 1 .. Len(history.pushed) /\ Len(history.pushed) \in Nat
  BY <1>1, LenProperties
<1>3. /\ Len(history.pushed) \in 1 .. Len(history.pushed)
      /\ history.pushed[Len(history.pushed)] = pushing /\ pushing \notin history.lost
  BY <1>1, <1>2, EmptySeq DEF PushedLast
<1>4. PICK i \in 1 .. Len(history.pushed) :
        /\ history.pushed[i] = p
        /\ \A j \in 1 .. Len(history.pushed) :
             j > i => history.pushed[j] \in history'.lost \cup {NoPacket}
  BY <1>1, <1>2 DEF Newest
<1>5. p \notin history'.lost
  BY DEF Newest
<1>6. CASE history' = history
  <2>1. ~(Len(history.pushed) > i)
    BY <1>1, <1>3, <1>4, <1>6
  <2>2. i = Len(history.pushed)
    BY <1>2, <2>1
  <2> QED BY <1>3, <1>4, <1>6, <2>2
<1>7. CASE history' # history
  <2>1. history'.lost = history.lost \cup {pushing}
    BY <1>7 DEF SendPacketEnd, TypeOK, HistoryOK
  <2>2. \A j \in 1 .. Len(history.pushed) :
          j > i => history.pushed[j] \in history.lost \cup {pushing}
    BY <1>1, <1>4, <2>1, ElementOfSeq
  <2>3. p \notin history.lost \cup {pushing}
    BY <1>5, <2>1
  <2>4. Newest(p)
    BY <1>2, <1>4, <2>2, <2>3 DEF Newest
  <2> QED BY <1>7, <2>4
<1> QED BY <1>6, <1>7

\* A step that pushes and pops nothing keeps the newest packet at the back.
LEMMA QuietNewest ==
  ASSUME NewestAtBack, history'.pushed = history.pushed, history'.lost = history.lost,
         history.attempted \subseteq history'.attempted,
         UNCHANGED <<pushing, disconnected, mainPackets>>
  PROVE  NewestAtBack'
<1>1. \A p : Newest(p)' <=> Newest(p)
  BY SameNewest
<1> QED BY <1>1 DEF NewestAtBack

\* back() and pop() name different packets, and yet the newest one stays at the
\* back until it has been sent.
LEMMA NewestStep ==
  ASSUME TypeOK, SessionInv, [Next]_vars
  PROVE  NewestAtBack'
<1> USE DEF SessionInv, queueVars, pushVars, socketVars, flagVars, TypeOK, HistoryOK
\* The code outside.
<1>1. ASSUME SpawnReceiver PROVE NewestAtBack'
  <2>1. /\ history'.pushed = history.pushed /\ history'.lost = history.lost
        /\ history.attempted \subseteq history'.attempted
        /\ UNCHANGED <<pushing, disconnected, mainPackets>>
    BY <1>1 DEF SpawnReceiver
  <2> QED BY <2>1, QuietNewest
<1>2. ASSUME SpawnSender PROVE NewestAtBack'
  <2>1. /\ history'.pushed = history.pushed /\ history'.lost = history.lost
        /\ history.attempted \subseteq history'.attempted
        /\ UNCHANGED <<pushing, disconnected, mainPackets>>
    BY <1>2 DEF SpawnSender
  <2> QED BY <2>1, QuietNewest
<1>3. ASSUME ChooseSession PROVE NewestAtBack'
  <2>1. /\ history'.pushed = history.pushed /\ history'.lost = history.lost
        /\ history.attempted \subseteq history'.attempted
        /\ UNCHANGED <<pushing, disconnected, mainPackets>>
    BY <1>3 DEF ChooseSession
  <2> QED BY <2>1, QuietNewest
<1>4. ASSUME SendPacketBegin PROVE NewestAtBack'
  <2>1. /\ history'.attempted = history.attempted
        /\ UNCHANGED <<disconnected, mainPackets>>
    BY <1>4 DEF SendPacketBegin, TypeOK, HistoryOK
  <2>2. \A p \in Packets : Newest(p)' => Newest(p)
    BY <1>4, BeginNewest
  <2> QED BY <2>1, <2>2 DEF NewestAtBack
<1>5. ASSUME SendPacketEnd PROVE NewestAtBack'
  <2>1. UNCHANGED disconnected /\ history'.attempted = history.attempted
    BY <1>5 DEF SendPacketEnd, TypeOK, HistoryOK
  <2>2. CASE history' = history /\ mainPackets' = Append(mainPackets, pushing)
    <3>1. mainPackets \in Seq(Packets) /\ pushing \in Packets
      BY <1>5 DEF SendPacketEnd, TypeOK, QueuesOK, ThreadsInv, UserFollowsThreads
    <3>2. mainPackets' # <<>> /\ mainPackets'[Len(mainPackets')] = pushing
      BY <2>2, <3>1, AppendLast
    <3>3. \A p \in Packets : Newest(p)' => p = pushing
      BY <1>5, <2>2, EndNewest
    <3> QED BY <3>2, <3>3 DEF NewestAtBack
  <2>3. CASE history' # history /\ mainPackets' = mainPackets
    <3>1. \A p \in Packets : Newest(p)' => Newest(p)
      BY <1>5, <2>3, EndNewest
    <3> QED BY <2>1, <2>3, <3>1 DEF NewestAtBack
  <2>4. \/ history' = history /\ mainPackets' = Append(mainPackets, pushing)
        \/ history' # history /\ mainPackets' = mainPackets
    <3>1. pushing # NoPacket
      BY <1>5 DEF SendPacketEnd, ThreadsInv, UserFollowsThreads
    <3>2. pushing \notin history.lost
      BY <3>1 DEF PushedLast
    <3>3. history' = [history EXCEPT !.lost = @ \cup {pushing}] => history' # history
      BY <3>2 DEF TypeOK, HistoryOK
    <3> QED BY <1>5, <3>3 DEF SendPacketEnd
  <2> QED BY <2>2, <2>3, <2>4
<1>6. ASSUME Disconnect PROVE NewestAtBack'
  <2>1. /\ history'.pushed = history.pushed /\ history'.lost = history.lost
        /\ history.attempted \subseteq history'.attempted
        /\ UNCHANGED <<pushing, disconnected, mainPackets>>
    BY <1>6 DEF Disconnect
  <2> QED BY <2>1, QuietNewest
<1>7. ASSUME JoinReceiver PROVE NewestAtBack'
  <2>1. /\ history'.pushed = history.pushed /\ history'.lost = history.lost
        /\ history.attempted \subseteq history'.attempted
        /\ UNCHANGED <<pushing, disconnected, mainPackets>>
    BY <1>7 DEF JoinReceiver
  <2> QED BY <2>1, QuietNewest
<1>8. ASSUME JoinSender PROVE NewestAtBack'
  <2>1. /\ history'.pushed = history.pushed /\ history'.lost = history.lost
        /\ history.attempted \subseteq history'.attempted
        /\ UNCHANGED <<pushing, disconnected, mainPackets>>
    BY <1>8 DEF JoinSender
  <2> QED BY <2>1, QuietNewest
<1>9. ASSUME ClearQueues PROVE NewestAtBack'
  BY <1>9 DEF ClearQueues, NewestAtBack
\* The receiver.
<1>10. ASSUME ReceiverTest PROVE NewestAtBack'
  <2>1. /\ history'.pushed = history.pushed /\ history'.lost = history.lost
        /\ history.attempted \subseteq history'.attempted
        /\ UNCHANGED <<pushing, disconnected, mainPackets>>
    BY <1>10 DEF ReceiverTest, ReceiverGoto
  <2> QED BY <2>1, QuietNewest
<1>11. ASSUME ReceiverRecv PROVE NewestAtBack'
  <2>1. /\ history'.pushed = history.pushed /\ history'.lost = history.lost
        /\ history.attempted \subseteq history'.attempted
        /\ UNCHANGED <<pushing, disconnected, mainPackets>>
    BY <1>11 DEF ReceiverRecv, ReceiverGoto
  <2> QED BY <2>1, QuietNewest
<1>12. ASSUME ReceiverStore PROVE NewestAtBack'
  <2>1. /\ history'.pushed = history.pushed /\ history'.lost = history.lost
        /\ history.attempted \subseteq history'.attempted
        /\ UNCHANGED <<pushing, disconnected, mainPackets>>
    BY <1>12 DEF ReceiverStore, ReceiverGoto, Abort
  <2> QED BY <2>1, QuietNewest
<1>13. ASSUME ReceiverClose PROVE NewestAtBack'
  <2>1. /\ history'.pushed = history.pushed /\ history'.lost = history.lost
        /\ history.attempted \subseteq history'.attempted
        /\ UNCHANGED <<pushing, disconnected, mainPackets>>
    BY <1>13 DEF ReceiverClose, ReceiverGoto
  <2> QED BY <2>1, QuietNewest
\* The sender.
<1>14. ASSUME SenderLoop PROVE NewestAtBack'
  <2>1. /\ history'.pushed = history.pushed /\ history'.lost = history.lost
        /\ history.attempted \subseteq history'.attempted
        /\ UNCHANGED <<pushing, disconnected, mainPackets>>
    BY <1>14 DEF SenderLoop, SenderGoto
  <2> QED BY <2>1, QuietNewest
<1>15. ASSUME TakeMain PROVE NewestAtBack'
  <2>1. /\ history'.pushed = history.pushed /\ history'.lost = history.lost
        /\ history.attempted \subseteq history'.attempted
        /\ UNCHANGED <<pushing, disconnected, mainPackets>>
    BY <1>15 DEF TakeMain, SenderGoto
  <2> QED BY <2>1, QuietNewest
<1>16. ASSUME TakeSync PROVE NewestAtBack'
  <2>1. /\ history'.pushed = history.pushed /\ history'.lost = history.lost
        /\ history.attempted \subseteq history'.attempted
        /\ UNCHANGED <<pushing, disconnected, mainPackets>>
    BY <1>16 DEF TakeSync, SenderGoto
  <2> QED BY <2>1, QuietNewest
<1>17. ASSUME SendData PROVE NewestAtBack'
  <2>1. /\ history'.pushed = history.pushed /\ history'.lost = history.lost
        /\ history.attempted \subseteq history'.attempted
        /\ UNCHANGED <<pushing, disconnected, mainPackets>>
    BY <1>17 DEF SendData, SenderGoto, Attempted
  <2> QED BY <2>1, QuietNewest
<1>18. ASSUME AckTest PROVE NewestAtBack'
  <2>1. /\ history'.pushed = history.pushed /\ history'.lost = history.lost
        /\ history.attempted \subseteq history'.attempted
        /\ UNCHANGED <<pushing, disconnected, mainPackets>>
    BY <1>18 DEF AckTest, SenderGoto
  <2> QED BY <2>1, QuietNewest
<1>19. ASSUME AckRecv PROVE NewestAtBack'
  <2>1. /\ history'.pushed = history.pushed /\ history'.lost = history.lost
        /\ history.attempted \subseteq history'.attempted
        /\ UNCHANGED <<pushing, disconnected, mainPackets>>
    BY <1>19 DEF AckRecv, SenderGoto
  <2> QED BY <2>1, QuietNewest
<1>20. ASSUME AckStore PROVE NewestAtBack'
  <2>1. /\ history'.pushed = history.pushed /\ history'.lost = history.lost
        /\ history.attempted \subseteq history'.attempted
        /\ UNCHANGED <<pushing, disconnected, mainPackets>>
    BY <1>20 DEF AckStore, SenderGoto, Abort
  <2> QED BY <2>1, QuietNewest
<1>21. ASSUME PacketHandled PROVE NewestAtBack'
  <2>1. /\ history'.pushed = history.pushed /\ history'.lost = history.lost
        /\ history'.attempted = history.attempted
        /\ UNCHANGED <<pushing, disconnected>>
        /\ sender \in {"confirmed", "unconfirmed"}
        /\ mainPackets' = mainPackets \/ (retrying = 0 /\ mainPackets' = Tail(mainPackets))
    BY <1>21 DEF PacketHandled, PopMain, NextSync, SenderGoto, Confirmed, TypeOK, HistoryOK
  <2>2. CASE mainPackets' = mainPackets
    BY <2>1, <2>2, QuietNewest
  <2>3. CASE retrying = 0 /\ mainPackets' = Tail(mainPackets)
    <3>1. mainPackets # <<>> /\ mainPackets \in Seq(Packets)
      BY <2>1, <2>3 DEF TypeOK, QueuesOK, ThreadsInv, PacketInHand, InHand
    <3>2. \A p : Newest(p)' <=> Newest(p)
      BY <2>1, SameNewest
    <3>3. CASE Len(mainPackets) = 1
      <4>1. mainPackets' = <<>>
        BY <2>3, <3>1, <3>3, TailLast
      <4>2. mainPackets[1] = current /\ current \in history.attempted
        BY <2>1, <2>3, <3>3 DEF OnlyPacketInHand, HandedToSend, InHand
      <4> QED BY <2>1, <3>1, <3>2, <3>3, <4>1, <4>2 DEF NewestAtBack
    <3>4. CASE Len(mainPackets) # 1
      <4>1. /\ mainPackets' # <<>>
            /\ mainPackets'[Len(mainPackets')] = mainPackets[Len(mainPackets)]
        BY <2>3, <3>1, <3>4, TailLast
      <4> QED BY <2>1, <3>1, <3>2, <4>1 DEF NewestAtBack
    <3> QED BY <3>3, <3>4
  <2> QED BY <2>1, <2>2, <2>3
<1>22. ASSUME QueueRace \/ Overread PROVE NewestAtBack'
  <2>1. /\ history'.pushed = history.pushed /\ history'.lost = history.lost
        /\ history.attempted \subseteq history'.attempted
        /\ UNCHANGED <<pushing, disconnected, mainPackets>>
    BY <1>22 DEF QueueRace, Overread, Abort
  <2> QED BY <2>1, QuietNewest
<1>23. ASSUME SenderClose PROVE NewestAtBack'
  <2>1. /\ history'.pushed = history.pushed /\ history'.lost = history.lost
        /\ history.attempted \subseteq history'.attempted
        /\ UNCHANGED <<pushing, disconnected, mainPackets>>
    BY <1>23 DEF SenderClose
  <2> QED BY <2>1, QuietNewest
\* The peer, and a step of nothing.
<1>24. ASSUME PeerSends PROVE NewestAtBack'
  <2>1. /\ history'.pushed = history.pushed /\ history'.lost = history.lost
        /\ history.attempted \subseteq history'.attempted
        /\ UNCHANGED <<pushing, disconnected, mainPackets>>
    BY <1>24 DEF PeerSends
  <2> QED BY <2>1, QuietNewest
<1>25. ASSUME UNCHANGED vars PROVE NewestAtBack'
  <2>1. /\ history'.pushed = history.pushed /\ history'.lost = history.lost
        /\ history.attempted \subseteq history'.attempted
        /\ UNCHANGED <<pushing, disconnected, mainPackets>>
    BY <1>25 DEF vars
  <2> QED BY <2>1, QuietNewest
<1> HIDE DEF SessionInv, queueVars, pushVars, socketVars, flagVars, TypeOK, HistoryOK
<1> QED
  BY <1>1, <1>2, <1>3, <1>4, <1>5, <1>6, <1>7, <1>8, <1>9, <1>10,
     <1>11, <1>12, <1>13, <1>14, <1>15, <1>16, <1>17, <1>18, <1>19, <1>20,
     <1>21, <1>22, <1>23, <1>24, <1>25
  DEF Next, UserWork, UserCalls, receiverThread, senderThread

-----------------------------------------------------------------------------
(* The theorems.                                                           *)

\* Types and the threads' part hold together; neither is inductive alone.
LEMMA ThreadsAlways == Spec => [](TypeOK /\ ThreadsInv)
<1>1. TypeOK /\ ThreadsInv /\ [Next]_vars => TypeOK' /\ ThreadsInv'
  BY ControlStep, QueuesStep, HistoryStep, InvStep DEF TypeOK
<1> QED BY <1>1, SessionInitial, PTL DEF Spec

\* A session starts with nothing pushed and no packet in hand.
LEMMA NewestInitial == ASSUME Init PROVE SessionInv
<1>1. \A p : ~Newest(p)
  <2>1. history.pushed = <<>>
    BY DEF Init
  <2> QED BY <2>1, EmptySeq DEF Newest
<1>2. NewestAtBack
  BY <1>1 DEF NewestAtBack
<1>3. OnlyPacketInHand /\ HandedToSend /\ PushedLast
  BY DEF Init, OnlyPacketInHand, HandedToSend, PushedLast, InHand
<1> QED BY <1>2, <1>3, SessionInitial DEF SessionInv

\* Each socket member follows its thread, the queues follow the sender, the code
\* outside waits where disconnect() does, and the newest packet stays at the back
\* of mainPackets: the invariant the others rest on.
THEOREM SessionCorrect == Spec => []SessionInv
<1>1. TypeOK /\ SessionInv /\ [Next]_vars => SessionInv'
  BY InvStep, OnlyPacketStep, HandedStep, PushedStep, NewestStep DEF SessionInv
<1>2. Init => SessionInv
  BY NewestInitial
<1> QED BY <1>1, <1>2, ThreadsAlways, PTL DEF Spec

\* Every variable of a session keeps its type, whatever packets there are.
THEOREM SessionTypes == Spec => []TypeOK
  BY ThreadsAlways, PTL

\* When disconnect() has returned, both threads have, both sockets are
\* INVALID_SOCKET and both queues are empty.
THEOREM DisconnectIsClean == Spec => []DisconnectedClean
<1>1. SessionInv => DisconnectedClean
  BY DEF SessionInv, ThreadsInv
<1> QED BY <1>1, SessionCorrect, PTL

\* A packet handed to send stays in syncPackets, however often it is tried and
\* wherever it is in the queue, until handlePacketOut returns success for it.
THEOREM RetriesAreKept == Spec => []RetryKeepsPacket
<1>1. SessionInv => RetryKeepsPacket
  BY DEF SessionInv, ThreadsInv
<1> QED BY <1>1, SessionCorrect, PTL

\* Although the sender takes back() and removes the front, it leaves mainPackets
\* only when the newest packet in it has been handed to send.
THEOREM NewestIsSent == Spec => []NewestAttempted
<1>1. SessionInv => NewestAttempted
  BY DEF SessionInv, NewestAtBack, NewestAttempted
<1> QED BY <1>1, SessionCorrect, PTL

-----------------------------------------------------------------------------
(* The session seen from outside.                                          *)

\* A step moves the session one phase on, or leaves its phase alone.
LEMMA LifecycleStep ==
  ASSUME TypeOK, ThreadsInv, [Next]_vars
  PROVE  [Lifecycle!Next]_<<{"this"}, [c \in {"this"} |-> Phase]>>
<1> USE DEF ThreadsInv, SocketsFollowThreads, UserFollowsThreads, Phase, Running,
        ThreadsReturned, vars, queueVars, pushVars, socketVars, flagVars
<1> DEFINE Stays   == Phase' = Phase
           Stops   == Phase = "running" /\ Phase' = "failing"
           Ends    == Phase = "failing" /\ Phase' = "ended"
           Returns == Phase = "ended" /\ Phase' = "disconnected"
<1> SUFFICES Stays \/ Stops \/ Ends \/ Returns
  <2>1. Stops => Lifecycle!Stop("this")
    BY DEF Lifecycle!Stop, Lifecycle!Becomes
  <2>2. Ends => Lifecycle!End("this")
    BY DEF Lifecycle!End, Lifecycle!Becomes
  <2>3. Returns => Lifecycle!Disconnect("this")
    BY DEF Lifecycle!Disconnect, Lifecycle!Becomes
  <2> QED BY <2>1, <2>2, <2>3 DEF Lifecycle!Next
\* The code outside.
<1>1. ASSUME SpawnReceiver PROVE Stays \/ Stops \/ Ends \/ Returns
  BY <1>1 DEF SpawnReceiver
<1>2. ASSUME SpawnSender PROVE Stays \/ Stops \/ Ends \/ Returns
  BY <1>2 DEF SpawnSender
<1>3. ASSUME ChooseSession PROVE Stays \/ Stops \/ Ends \/ Returns
  BY <1>3 DEF ChooseSession
<1>4. ASSUME SendPacketBegin PROVE Stays \/ Stops \/ Ends \/ Returns
  BY <1>4 DEF SendPacketBegin
<1>5. ASSUME SendPacketEnd PROVE Stays \/ Stops \/ Ends \/ Returns
  BY <1>5 DEF SendPacketEnd
<1>6. ASSUME Disconnect PROVE Stays \/ Stops \/ Ends \/ Returns
  <2>1. ~disconnected /\ ~disconnected' /\ ~Running' /\ UNCHANGED <<receiver, sender>>
    BY <1>6 DEF Disconnect, Running
  <2>2. started /\ UNCHANGED <<readSocket, writeSocket>>
    BY <1>6 DEF Disconnect
  <2>3. ThreadsReturned => ~Running /\ ThreadsReturned'
    BY <2>1 DEF ThreadsReturned, Running
  <2>4. ~ThreadsReturned => ~ThreadsReturned'
    BY <2>1 DEF ThreadsReturned
  <2> QED BY <2>1, <2>3, <2>4 DEF Phase
<1>7. ASSUME JoinReceiver PROVE Stays \/ Stops \/ Ends \/ Returns
  BY <1>7 DEF JoinReceiver
<1>8. ASSUME JoinSender PROVE Stays \/ Stops \/ Ends \/ Returns
  BY <1>8 DEF JoinSender
<1>9. ASSUME ClearQueues PROVE Stays \/ Stops \/ Ends \/ Returns
  <2>1. ~disconnected /\ ~started /\ ThreadsReturned /\ disconnected'
    BY <1>9 DEF ClearQueues, ThreadsReturned
  <2> QED BY <2>1 DEF Phase, Running
\* The receiver.
<1>10. ASSUME ReceiverTest PROVE Stays \/ Stops \/ Ends \/ Returns
  BY <1>10 DEF ReceiverTest, ReceiverGoto
<1>11. ASSUME ReceiverRecv PROVE Stays \/ Stops \/ Ends \/ Returns
  BY <1>11 DEF ReceiverRecv, ReceiverGoto
<1>12. ASSUME ReceiverStore PROVE Stays \/ Stops \/ Ends \/ Returns
  BY <1>12 DEF ReceiverStore, ReceiverGoto, Abort
<1>13. ASSUME ReceiverClose PROVE Stays \/ Stops \/ Ends \/ Returns
  <2> USE DEF ReceiverClose, ReceiverGoto, Running, ThreadsReturned
  <2>1. receiver # "exit" /\ UNCHANGED <<started, disconnected, sender, writeSocket>>
    BY <1>13
  <2>2. CASE receiver = "shutdown"
    BY <1>13, <2>1, <2>2 DEF Phase
  <2>3. CASE receiver = "reset"
    <3>1. ~Running' /\ (sender = "exit" => ~Running /\ ThreadsReturned')
            /\ (sender # "exit" => ~ThreadsReturned') /\ ~ThreadsReturned
      BY <1>13, <2>1, <2>3
    <3> HIDE DEF Running, ThreadsReturned
    <3> QED BY <2>1, <3>1 DEF Phase
  <2> QED BY <1>13, <2>2, <2>3
\* The sender.
<1>14. ASSUME SenderLoop PROVE Stays \/ Stops \/ Ends \/ Returns
  BY <1>14 DEF SenderLoop, SenderGoto
<1>15. ASSUME TakeMain PROVE Stays \/ Stops \/ Ends \/ Returns
  BY <1>15 DEF TakeMain, SenderGoto
<1>16. ASSUME TakeSync PROVE Stays \/ Stops \/ Ends \/ Returns
  BY <1>16 DEF TakeSync, SenderGoto
<1>17. ASSUME SendData PROVE Stays \/ Stops \/ Ends \/ Returns
  BY <1>17 DEF SendData, SenderGoto, Attempted
<1>18. ASSUME AckTest PROVE Stays \/ Stops \/ Ends \/ Returns
  BY <1>18 DEF AckTest, SenderGoto
<1>19. ASSUME AckRecv PROVE Stays \/ Stops \/ Ends \/ Returns
  BY <1>19 DEF AckRecv, SenderGoto
<1>20. ASSUME AckStore PROVE Stays \/ Stops \/ Ends \/ Returns
  BY <1>20 DEF AckStore, SenderGoto, Abort
<1>21. ASSUME PacketHandled PROVE Stays \/ Stops \/ Ends \/ Returns
  BY <1>21 DEF PacketHandled, PopMain, NextSync, Confirmed, SenderGoto
<1>22. ASSUME QueueRace \/ Overread PROVE Stays \/ Stops \/ Ends \/ Returns
  BY <1>22 DEF QueueRace, Overread, Abort
<1>23. ASSUME SenderClose PROVE Stays \/ Stops \/ Ends \/ Returns
  <2> USE DEF SenderClose, Running, ThreadsReturned
  <2>1. sender # "exit" /\ UNCHANGED <<started, disconnected, receiver, readSocket>>
    BY <1>23
  <2>2. CASE sender = "shutdown"
    BY <1>23, <2>1, <2>2 DEF Phase
  <2>3. CASE sender = "reset"
    <3>1. ~Running' /\ (receiver = "exit" => ~Running /\ ThreadsReturned')
            /\ (receiver # "exit" => ~ThreadsReturned') /\ ~ThreadsReturned
      BY <1>23, <2>1, <2>3
    <3> HIDE DEF Running, ThreadsReturned
    <3> QED BY <2>1, <3>1 DEF Phase
  <2> QED BY <1>23, <2>2, <2>3
\* The peer, and a step of nothing.
<1>24. ASSUME PeerSends PROVE Stays \/ Stops \/ Ends \/ Returns
  BY <1>24 DEF PeerSends
<1>25. ASSUME UNCHANGED vars PROVE Stays \/ Stops \/ Ends \/ Returns
  BY <1>25
<1> HIDE DEF ThreadsInv, SocketsFollowThreads, UserFollowsThreads, Phase,
             Running, ThreadsReturned, queueVars, pushVars, socketVars,
             flagVars
<1> QED
  BY <1>1, <1>2, <1>3, <1>4, <1>5, <1>6, <1>7, <1>8, <1>9, <1>10,
     <1>11, <1>12, <1>13, <1>14, <1>15, <1>16, <1>17, <1>18, <1>19,
     <1>20, <1>21, <1>22, <1>23, <1>24, <1>25
  DEF Next, UserWork, UserCalls, receiverThread, senderThread

\* What the rest of the server may assume of a session: it stops once, both
\* threads end, and disconnect() returns after that.
THEOREM SessionImplementsLifecycle == Spec => ImplementsLifecycle
<1>1. Init => Lifecycle!Init
  BY DEF Init, Lifecycle!Init, Phase, Running
<1>2. TypeOK /\ ThreadsInv /\ [Next]_vars
        => [Lifecycle!Next]_<<{"this"}, [c \in {"this"} |-> Phase]>>
  BY LifecycleStep
<1> QED BY <1>1, <1>2, ThreadsAlways, PTL DEF Spec, ImplementsLifecycle, Lifecycle!Spec

=============================================================================
