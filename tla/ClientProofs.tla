---------------------------- MODULE ClientProofs -----------------------------
(* Theorems about ClientSession, for any packets, any framing of the       *)
(* peer's messages and any bounds.                                         *)
EXTENDS ClientSession, QueueProofs

-----------------------------------------------------------------------------
(* The threads: their labels, and which of them are left.                  *)

ThreadsOK ==
  /\ user \in UserLabels /\ receiver \in ReceiverLabels /\ sender \in SenderLabels
  /\ started \in BOOLEAN /\ status \in 0 .. 2

MessagesOK ==
  /\ peer \in [unanswered : SUBSET NeedACK, messages : 0 .. MaxMessages]
  /\ inbox \in Seq(Messages) /\ Len(inbox) <= MaxInbox
  /\ message \in Packets \cup {Text, Unknown, NoPacket} /\ asks \in BOOLEAN
  /\ found \in Nat /\ moved \in BOOLEAN /\ cause \in Causes

\* A thread moves from label to label, and status counts down once for each.
LEMMA ThreadsStep == ASSUME TypeOK, ClientInv, [Next]_vars PROVE ThreadsOK'
<1> USE DEF TypeOK, ControlOK, ClientInv, StatusFollowsThreads, ThreadsOK,
        UserLabels, ReceiverLabels, SenderLabels, vars, queueVars, pushVars, flagVars,
        receiverVars, senderVars
\* The console's thread and the operator.
<1>1. ASSUME CreateThreads PROVE ThreadsOK'
  BY <1>1 DEF CreateThreads, UserGoto
<1>2. ASSUME ConsoleTest PROVE ThreadsOK'
  BY <1>2 DEF ConsoleTest, UserGoto
<1>3. ASSUME SendPacket PROVE ThreadsOK'
  BY <1>3 DEF SendPacket, UserGoto, PushEnd
<1>4. ASSUME JoinReceiver PROVE ThreadsOK'
  BY <1>4 DEF JoinReceiver, UserGoto
<1>5. ASSUME JoinSender PROVE ThreadsOK'
  BY <1>5 DEF JoinSender, UserGoto
<1>6. ASSUME ClearQueues PROVE ThreadsOK'
  BY <1>6 DEF ClearQueues, UserGoto
<1>7. ASSUME TypeSend PROVE ThreadsOK'
  BY <1>7 DEF TypeSend, UserGoto, PushBegin
<1>8. ASSUME TypeOther PROVE ThreadsOK'
  BY <1>8 DEF TypeOther, UserGoto
<1>9. ASSUME TypeClose PROVE ThreadsOK'
  BY <1>9 DEF TypeClose, UserGoto
\* The receiver.
<1>10. ASSUME ReceiverTest PROVE ThreadsOK'
  BY <1>10 DEF ReceiverTest, ReceiverGoto
<1>11. ASSUME ReceiveData PROVE ThreadsOK'
  BY <1>11 DEF ReceiveData, ReceiverGoto, Breaks
<1>12. ASSUME HandleMessage PROVE ThreadsOK'
  BY <1>12 DEF HandleMessage, Answer, ReceiverGoto, PushBegin
<1>13. ASSUME SendReply PROVE ThreadsOK'
  BY <1>13 DEF SendReply, ReceiverGoto, PushEnd
<1>14. ASSUME FindAcked PROVE ThreadsOK'
  BY <1>14 DEF FindAcked, Answer, ReceiverGoto, PushBegin
<1>15. ASSUME EraseAcked PROVE ThreadsOK'
  BY <1>15 DEF EraseAcked, Answer, ReceiverGoto, PushBegin
<1>16. ASSUME ReceiverClose PROVE ThreadsOK'
  BY <1>16 DEF ReceiverClose, ReceiverGoto, Shutdown
\* The sender.
<1>17. ASSUME SenderLoop PROVE ThreadsOK'
  BY <1>17 DEF SenderLoop, SenderGoto
<1>18. ASSUME TakeMain PROVE ThreadsOK'
  BY <1>18 DEF TakeMain, SenderGoto
<1>19. ASSUME TakeSync PROVE ThreadsOK'
  BY <1>19 DEF TakeSync, SenderGoto
<1>20. ASSUME SendData PROVE ThreadsOK'
  BY <1>20 DEF SendData, SenderGoto, Attempted
<1>21. ASSUME PopMain PROVE ThreadsOK'
  BY <1>21 DEF PopMain, SenderGoto, KeepMain
<1>22. ASSUME NextSync PROVE ThreadsOK'
  BY <1>22 DEF NextSync, SenderGoto
<1>23. ASSUME SenderClose PROVE ThreadsOK'
  BY <1>23 DEF SenderClose, SenderGoto, Shutdown
\* An invalid access that ends the process, the peer, and a step of nothing.
<1>24. ASSUME Abort PROVE ThreadsOK'
  BY <1>24 DEF Abort
<1>25. ASSUME PeerAcks PROVE ThreadsOK'
  BY <1>25 DEF PeerAcks, PeerSays
<1>26. ASSUME PeerSends PROVE ThreadsOK'
  BY <1>26 DEF PeerSends, PeerSays
<1>27. ASSUME UNCHANGED vars PROVE ThreadsOK'
  BY <1>27
<1> HIDE DEF TypeOK, ControlOK, ClientInv, StatusFollowsThreads, ThreadsOK,
             UserLabels, ReceiverLabels, SenderLabels, queueVars, pushVars, flagVars,
             receiverVars, senderVars
<1> QED
  BY <1>1, <1>2, <1>3, <1>4, <1>5, <1>6, <1>7, <1>8, <1>9, <1>10, <1>11,
     <1>12, <1>13, <1>14, <1>15, <1>16, <1>17, <1>18, <1>19, <1>20,
     <1>21, <1>22, <1>23, <1>24, <1>25, <1>26, <1>27
  DEF Next, consoleThread, Operator, receiverThread, senderThread, Undefined, MainRace,
      SyncRace, Overread, SenderOverrun, Peer

\* disconnect() is where the threads are, and they are where status says.
LEMMA ThreadsInvStep ==
  ASSUME TypeOK, ClientInv, [Next]_vars
  PROVE  (UserFollowsThreads /\ StatusFollowsThreads)'
<1> USE ClientConstantsOK
    DEF TypeOK, ControlOK, QueuesOK, ClientInv, UserFollowsThreads,
        StatusFollowsThreads, PacketInHand,
        InPush, Pushers, Running, vars, queueVars, pushVars, flagVars, receiverVars,
        senderVars
\* The console's thread and the operator.
<1>1. ASSUME CreateThreads PROVE (UserFollowsThreads /\ StatusFollowsThreads)'
  BY <1>1 DEF CreateThreads, UserGoto
<1>2. ASSUME ConsoleTest PROVE (UserFollowsThreads /\ StatusFollowsThreads)'
  BY <1>2 DEF ConsoleTest, UserGoto
<1>3. ASSUME SendPacket PROVE (UserFollowsThreads /\ StatusFollowsThreads)'
  BY <1>3 DEF SendPacket, UserGoto, PushEnd
<1>4. ASSUME JoinReceiver PROVE (UserFollowsThreads /\ StatusFollowsThreads)'
  BY <1>4 DEF JoinReceiver, UserGoto
<1>5. ASSUME JoinSender PROVE (UserFollowsThreads /\ StatusFollowsThreads)'
  BY <1>5 DEF JoinSender, UserGoto
<1>6. ASSUME ClearQueues PROVE (UserFollowsThreads /\ StatusFollowsThreads)'
  BY <1>6 DEF ClearQueues, UserGoto
<1>7. ASSUME TypeSend PROVE (UserFollowsThreads /\ StatusFollowsThreads)'
  BY <1>7 DEF TypeSend, UserGoto, PushBegin
<1>8. ASSUME TypeOther PROVE (UserFollowsThreads /\ StatusFollowsThreads)'
  BY <1>8 DEF TypeOther, UserGoto
<1>9. ASSUME TypeClose PROVE (UserFollowsThreads /\ StatusFollowsThreads)'
  BY <1>9 DEF TypeClose, UserGoto
\* The receiver.
<1>10. ASSUME ReceiverTest PROVE (UserFollowsThreads /\ StatusFollowsThreads)'
  BY <1>10 DEF ReceiverTest, ReceiverGoto
<1>11. ASSUME ReceiveData PROVE (UserFollowsThreads /\ StatusFollowsThreads)'
  BY <1>11 DEF ReceiveData, ReceiverGoto, Breaks
<1>12. ASSUME HandleMessage PROVE (UserFollowsThreads /\ StatusFollowsThreads)'
  BY <1>12 DEF HandleMessage, Answer, ReceiverGoto, PushBegin
<1>13. ASSUME SendReply PROVE (UserFollowsThreads /\ StatusFollowsThreads)'
  BY <1>13 DEF SendReply, ReceiverGoto, PushEnd
<1>14. ASSUME FindAcked PROVE (UserFollowsThreads /\ StatusFollowsThreads)'
  BY <1>14 DEF FindAcked, Answer, ReceiverGoto, PushBegin
<1>15. ASSUME EraseAcked PROVE (UserFollowsThreads /\ StatusFollowsThreads)'
  BY <1>15 DEF EraseAcked, Answer, ReceiverGoto, PushBegin
<1>16. ASSUME ReceiverClose PROVE (UserFollowsThreads /\ StatusFollowsThreads)'
  BY <1>16 DEF ReceiverClose, ReceiverGoto, Shutdown
\* The sender.
<1>17. ASSUME SenderLoop PROVE (UserFollowsThreads /\ StatusFollowsThreads)'
  BY <1>17 DEF SenderLoop, SenderGoto
<1>18. ASSUME TakeMain PROVE (UserFollowsThreads /\ StatusFollowsThreads)'
  BY <1>18 DEF TakeMain, SenderGoto
<1>19. ASSUME TakeSync PROVE (UserFollowsThreads /\ StatusFollowsThreads)'
  BY <1>19 DEF TakeSync, SenderGoto
<1>20. ASSUME SendData PROVE (UserFollowsThreads /\ StatusFollowsThreads)'
  BY <1>20 DEF SendData, SenderGoto, Attempted
<1>21. ASSUME PopMain PROVE (UserFollowsThreads /\ StatusFollowsThreads)'
  BY <1>21 DEF PopMain, SenderGoto, KeepMain
<1>22. ASSUME NextSync PROVE (UserFollowsThreads /\ StatusFollowsThreads)'
  BY <1>22 DEF NextSync, SenderGoto
<1>23. ASSUME SenderClose PROVE (UserFollowsThreads /\ StatusFollowsThreads)'
  BY <1>23 DEF SenderClose, SenderGoto, Shutdown
\* An invalid access that ends the process, the peer, and a step of nothing.
<1>24. ASSUME Abort PROVE (UserFollowsThreads /\ StatusFollowsThreads)'
  BY <1>24 DEF Abort
<1>25. ASSUME PeerAcks PROVE (UserFollowsThreads /\ StatusFollowsThreads)'
  BY <1>25 DEF PeerAcks, PeerSays
<1>26. ASSUME PeerSends PROVE (UserFollowsThreads /\ StatusFollowsThreads)'
  BY <1>26 DEF PeerSends, PeerSays
<1>27. ASSUME UNCHANGED vars PROVE (UserFollowsThreads /\ StatusFollowsThreads)'
  BY <1>27
<1> HIDE DEF TypeOK, ControlOK, QueuesOK, ClientInv, UserFollowsThreads,
             StatusFollowsThreads,
             PacketInHand, InPush, Pushers, Running, queueVars, pushVars, flagVars,
             receiverVars, senderVars
<1> QED
  BY <1>1, <1>2, <1>3, <1>4, <1>5, <1>6, <1>7, <1>8, <1>9, <1>10, <1>11,
     <1>12, <1>13, <1>14, <1>15, <1>16, <1>17, <1>18, <1>19, <1>20,
     <1>21, <1>22, <1>23, <1>24, <1>25, <1>26, <1>27
  DEF Next, consoleThread, Operator, receiverThread, senderThread, Undefined, MainRace,
      SyncRace, Overread, SenderOverrun, Peer

-----------------------------------------------------------------------------
(* Messages and queues.                                                    *)

\* A message of the peer joins the inbox while that has room.
LEMMA PeerSaysTypes ==
  ASSUME TypeOK, NEW m \in Messages, PeerSays(m)
  PROVE  inbox' \in Seq(Messages) /\ Len(inbox') <= MaxInbox
<1>1. inbox \in Seq(Messages) /\ inbox' = Append(inbox, m) /\ Len(inbox) < MaxInbox
  BY DEF TypeOK, ControlOK, PeerSays
<1>2. Append(inbox, m) \in Seq(Messages) /\ Len(Append(inbox, m)) = Len(inbox) + 1
  BY <1>1, AppendProperties
<1> QED BY <1>1, <1>2, LenProperties, ClientConstantsOK DEF ClientConstantsOK

\* The receiver takes messages in their order; the peer adds at most MaxInbox.
LEMMA MessagesStep == ASSUME TypeOK, ClientInv, [Next]_vars PROVE MessagesOK'
<1> USE ClientConstantsOK
    DEF TypeOK, ControlOK, MessagesOK, Causes, vars, queueVars, pushVars, flagVars,
        receiverVars, senderVars
\* The console's thread and the operator.
<1>1. ASSUME CreateThreads PROVE MessagesOK'
  BY <1>1 DEF CreateThreads, UserGoto
<1>2. ASSUME ConsoleTest PROVE MessagesOK'
  BY <1>2 DEF ConsoleTest, UserGoto
<1>3. ASSUME SendPacket PROVE MessagesOK'
  BY <1>3 DEF SendPacket, UserGoto, PushEnd
<1>4. ASSUME JoinReceiver PROVE MessagesOK'
  BY <1>4 DEF JoinReceiver, UserGoto
<1>5. ASSUME JoinSender PROVE MessagesOK'
  BY <1>5 DEF JoinSender, UserGoto
<1>6. ASSUME ClearQueues PROVE MessagesOK'
  BY <1>6 DEF ClearQueues, UserGoto
<1>7. ASSUME TypeSend PROVE MessagesOK'
  BY <1>7 DEF TypeSend, UserGoto, PushBegin
<1>8. ASSUME TypeOther PROVE MessagesOK'
  BY <1>8 DEF TypeOther, UserGoto
<1>9. ASSUME TypeClose PROVE MessagesOK'
  BY <1>9 DEF TypeClose, UserGoto
\* The receiver.
<1>10. ASSUME ReceiverTest PROVE MessagesOK'
  BY <1>10 DEF ReceiverTest, ReceiverGoto
<1>11. ASSUME ReceiveData PROVE MessagesOK'
  <2>1. CASE inbox # <<>> /\ inbox' = Tail(inbox)
    <3>1. /\ Head(inbox) \in Messages
          /\ Tail(inbox) \in Seq(Messages)
          /\ Len(Tail(inbox)) <= MaxInbox
      BY <2>1, HeadTailProperties DEF ClientConstantsOK
    <3>2. Head(inbox).says \in Packets \cup {Text, Unknown} /\ Head(inbox).asks \in BOOLEAN
      BY <3>1 DEF Messages
    <3> QED BY <1>11, <2>1, <3>1, <3>2 DEF ReceiveData, ReceiverGoto, Breaks
  <2>2. CASE UNCHANGED inbox
    BY <1>11, <2>2 DEF ReceiveData, ReceiverGoto, Breaks
  <2> QED BY <1>11, <2>1, <2>2 DEF ReceiveData
<1>12. ASSUME HandleMessage PROVE MessagesOK'
  BY <1>12 DEF HandleMessage, Answer, ReceiverGoto, PushBegin
<1>13. ASSUME SendReply PROVE MessagesOK'
  BY <1>13 DEF SendReply, ReceiverGoto, PushEnd
<1>14. ASSUME FindAcked PROVE MessagesOK'
  <2>1. ASSUME NEW i \in DOMAIN syncPackets PROVE i \in Nat
    BY LenProperties DEF QueuesOK
  <2> QED BY <1>14, <2>1 DEF FindAcked, Answer, ReceiverGoto, PushBegin
<1>15. ASSUME EraseAcked PROVE MessagesOK'
  BY <1>15 DEF EraseAcked, Answer, ReceiverGoto, PushBegin
<1>16. ASSUME ReceiverClose PROVE MessagesOK'
  BY <1>16 DEF ReceiverClose, ReceiverGoto, Shutdown
\* The sender.
<1>17. ASSUME SenderLoop PROVE MessagesOK'
  BY <1>17 DEF SenderLoop, SenderGoto
<1>18. ASSUME TakeMain PROVE MessagesOK'
  BY <1>18 DEF TakeMain, SenderGoto
<1>19. ASSUME TakeSync PROVE MessagesOK'
  BY <1>19 DEF TakeSync, SenderGoto
<1>20. ASSUME SendData PROVE MessagesOK'
  BY <1>20 DEF SendData, SenderGoto, Attempted
<1>21. ASSUME PopMain PROVE MessagesOK'
  <2>1. UNCHANGED <<peer, inbox, receiverVars>>
    BY <1>21 DEF PopMain, SenderGoto
  <2>2. moved' = moved \/ moved' = (receiver = "erase")
    BY <1>21, Zenon DEF PopMain, KeepMain
  <2>3. (receiver = "erase") \in BOOLEAN
    BY Zenon
  <2> QED BY <2>1, <2>2, <2>3
<1>22. ASSUME NextSync PROVE MessagesOK'
  <2>1. UNCHANGED <<peer, inbox, receiverVars>>
    BY <1>22 DEF NextSync, SenderGoto
  <2>2. moved' = moved \/ moved' = (receiver = "erase")
    BY <1>22, Zenon DEF NextSync
  <2>3. (receiver = "erase") \in BOOLEAN
    BY Zenon
  <2> QED BY <2>1, <2>2, <2>3
<1>23. ASSUME SenderClose PROVE MessagesOK'
  BY <1>23 DEF SenderClose, SenderGoto, Shutdown
\* An invalid access that ends the process, the peer, and a step of nothing.
<1>24. ASSUME Abort PROVE MessagesOK'
  BY <1>24 DEF Abort
<1>25. ASSUME PeerAcks PROVE MessagesOK'
  <2>1. PICK p \in peer.unanswered, b \in BOOLEAN : PeerSays([says |-> p, asks |-> b])
    BY <1>25 DEF PeerAcks
  <2>2. [says |-> p, asks |-> b] \in Messages
    BY <2>1 DEF ClientConstantsOK, Messages
  <2>3. peer' \in [unanswered : SUBSET NeedACK, messages : 0 .. MaxMessages]
    <3>1. PICK q \in peer.unanswered :
             \/ peer' = [peer EXCEPT !.unanswered = @ \ {q}]
             \/ /\ peer.messages < MaxMessages
                /\ peer' = [peer EXCEPT !.unanswered = @ \ {q}, !.messages = @ + 1]
      BY <1>25, Zenon DEF PeerAcks
    <3>2. peer.messages \in 0 .. MaxMessages /\ peer.unanswered \ {q} \in SUBSET NeedACK
      OBVIOUS
    <3>3. CASE peer' = [peer EXCEPT !.unanswered = @ \ {q}]
      BY <3>2, <3>3
    <3>4. CASE /\ peer.messages < MaxMessages
               /\ peer' = [peer EXCEPT !.unanswered = @ \ {q}, !.messages = @ + 1]
      <4>1. peer.messages + 1 \in 0 .. MaxMessages
        BY <3>2, <3>4 DEF ClientConstantsOK
      <4> QED BY <3>2, <3>4, <4>1
    <3> QED BY <3>1, <3>3, <3>4
  <2> QED BY <2>1, <2>2, <2>3, PeerSaysTypes DEF PeerSays
<1>26. ASSUME PeerSends PROVE MessagesOK'
  <2>1. PICK m \in [says : {Text, Unknown}, asks : BOOLEAN] : PeerSays(m)
    BY <1>26 DEF PeerSends
  <2>2. m \in Messages
    BY <2>1 DEF Messages
  <2>3. peer' \in [unanswered : SUBSET NeedACK, messages : 0 .. MaxMessages]
    BY <1>26 DEF PeerSends, ClientConstantsOK
  <2> QED BY <2>1, <2>2, <2>3, PeerSaysTypes DEF PeerSays
<1>27. ASSUME UNCHANGED vars PROVE MessagesOK'
  BY <1>27
<1> HIDE DEF TypeOK, ControlOK, MessagesOK, Causes, queueVars, pushVars, flagVars,
             receiverVars, senderVars
<1> QED
  BY <1>1, <1>2, <1>3, <1>4, <1>5, <1>6, <1>7, <1>8, <1>9, <1>10, <1>11,
     <1>12, <1>13, <1>14, <1>15, <1>16, <1>17, <1>18, <1>19, <1>20,
     <1>21, <1>22, <1>23, <1>24, <1>25, <1>26, <1>27
  DEF Next, consoleThread, Operator, receiverThread, senderThread, Undefined, MainRace,
      SyncRace, Overread, SenderOverrun, Peer

\* A push adds the packet of its thread or, in a race, nothing.
LEMMA PushEndTypes ==
  ASSUME QueuesOK, NEW t \in Pushers, PushEnd(t), InPush(t)
  PROVE  /\ mainPackets' \in Seq(Sendable)
         /\ pushing' \in [Pushers -> Sendable \cup {NoPacket}] /\ raced' \subseteq Pushers
         /\ history' \in [pushed : SUBSET Packets, attempted : SUBSET Sendable,
                          acked : SUBSET Packets, lost : SUBSET Sendable,
                          newest : Sendable \cup {NoPacket}]
<1> USE DEF QueuesOK
<1>1. pushing[t] \in Sendable
  BY DEF InPush
<1>2. Append(mainPackets, pushing[t]) \in Seq(Sendable)
  BY <1>1, AppendElements
<1>3. mainPackets' \in {mainPackets, Append(mainPackets, pushing[t])}
  BY DEF PushEnd
<1>4. \/ history' = [history EXCEPT !.newest = pushing[t]]
      \/ history' = [history EXCEPT !.lost = @ \cup {pushing[t]}]
  BY DEF PushEnd
<1>5. pushing' = [pushing EXCEPT ![t] = NoPacket] /\ raced' \subseteq Pushers
  BY DEF PushEnd
<1>6. mainPackets' \in Seq(Sendable)
  BY <1>2, <1>3
<1>7. pushing' \in [Pushers -> Sendable \cup {NoPacket}]
  BY <1>5
<1>8. history' \in [pushed : SUBSET Packets, attempted : SUBSET Sendable,
                   acked : SUBSET Packets, lost : SUBSET Sendable,
                   newest : Sendable \cup {NoPacket}]
  BY <1>1, <1>4
<1> HIDE DEF QueuesOK
<1> QED BY <1>5, <1>6, <1>7, <1>8

\* The queues hold packets; pop() never meets an empty one.
LEMMA QueuesStep == ASSUME TypeOK, ClientInv, [Next]_vars PROVE QueuesOK'
<1> USE ClientConstantsOK
    DEF TypeOK, QueuesOK, Sendable, Pushers, vars, queueVars, pushVars, flagVars,
        receiverVars, senderVars
\* The console's thread and the operator.
<1>1. ASSUME CreateThreads PROVE QueuesOK'
  BY <1>1 DEF CreateThreads, UserGoto
<1>2. ASSUME ConsoleTest PROVE QueuesOK'
  BY <1>2 DEF ConsoleTest, UserGoto
<1>3. ASSUME SendPacket PROVE QueuesOK'
  <2>1. PushEnd("user") /\ UNCHANGED <<syncPackets, current, retrying>>
        /\ "user" \in Pushers /\ InPush("user")
    BY <1>3 DEF SendPacket, UserGoto, ClientInv, UserFollowsThreads
  <2> QED BY <2>1, PushEndTypes
<1>4. ASSUME JoinReceiver PROVE QueuesOK'
  BY <1>4 DEF JoinReceiver, UserGoto
<1>5. ASSUME JoinSender PROVE QueuesOK'
  BY <1>5 DEF JoinSender, UserGoto
<1>6. ASSUME ClearQueues PROVE QueuesOK'
  BY <1>6, EmptySeq DEF ClearQueues, UserGoto
<1>7. ASSUME TypeSend PROVE QueuesOK'
  <2>1. PICK p \in Packets : /\ pushing' = [pushing EXCEPT !["user"] = p]
                             /\ history' = [history EXCEPT !.pushed = @ \cup {p}]
    BY <1>7 DEF TypeSend, PushBegin
  <2>2. UNCHANGED <<mainPackets, syncPackets, current, retrying, raced>>
    BY <1>7 DEF TypeSend, PushBegin, UserGoto
  <2> QED BY <2>1, <2>2
<1>8. ASSUME TypeOther PROVE QueuesOK'
  BY <1>8 DEF TypeOther, UserGoto
<1>9. ASSUME TypeClose PROVE QueuesOK'
  BY <1>9 DEF TypeClose, UserGoto
\* The receiver.
<1>10. ASSUME ReceiverTest PROVE QueuesOK'
  BY <1>10 DEF ReceiverTest, ReceiverGoto
<1>11. ASSUME ReceiveData PROVE QueuesOK'
  BY <1>11 DEF ReceiveData, ReceiverGoto, Breaks
<1>12. ASSUME HandleMessage PROVE QueuesOK'
  BY <1>12 DEF HandleMessage, Answer, ReceiverGoto, PushBegin
<1>13. ASSUME SendReply PROVE QueuesOK'
  <2>1. PushEnd("receiver") /\ UNCHANGED <<syncPackets, current, retrying>>
        /\ "receiver" \in Pushers /\ InPush("receiver")
    BY <1>13 DEF SendReply, ReceiverGoto, ClientInv, PacketInHand
  <2> QED BY <2>1, PushEndTypes
<1>14. ASSUME FindAcked PROVE QueuesOK'
  BY <1>14 DEF FindAcked, Answer, ReceiverGoto, PushBegin
<1>15. ASSUME EraseAcked PROVE QueuesOK'
  <2>1. receiver = "erase" /\ message \in Packets /\ found > 0 /\ found \in Nat
    BY <1>15 DEF EraseAcked, Answer, ReceiverGoto, PushBegin, ClientInv, ErasesAcked, ControlOK
  <2>2. /\ UNCHANGED <<mainPackets, current, retrying, raced>>
        /\ pushing' \in [Pushers -> Sendable \cup {NoPacket}]
    BY <1>15 DEF EraseAcked, Answer, ReceiverGoto, PushBegin
  <2>3. CASE /\ found <= Len(syncPackets)
             /\ syncPackets' = WithoutAt(syncPackets, found)
             /\ history' = [history EXCEPT !.acked = @ \cup {message},
                                           !.lost = @ \cup ({syncPackets[found]} \ {message})]
    <3>1. found \in 1 .. Len(syncPackets)
      BY <2>1, <2>3, LenProperties
    <3>2. syncPackets[found] \in Sendable /\ WithoutAt(syncPackets, found) \in Seq(Sendable)
      BY <3>1, ElementOfSeq, WithoutAtElements
    <3> QED BY <2>1, <2>2, <2>3, <3>2
  <2>4. CASE history' = [history EXCEPT !.acked = @ \cup {message}] /\ UNCHANGED syncPackets
    BY <2>1, <2>2, <2>4
  <2> QED BY <1>15, <2>3, <2>4, Zenon DEF EraseAcked
<1>16. ASSUME ReceiverClose PROVE QueuesOK'
  BY <1>16 DEF ReceiverClose, ReceiverGoto, Shutdown
\* The sender.
<1>17. ASSUME SenderLoop PROVE QueuesOK'
  BY <1>17 DEF SenderLoop, SenderGoto
<1>18. ASSUME TakeMain PROVE QueuesOK'
  <2>1. mainPackets # <<>> => mainPackets[Len(mainPackets)] \in Sendable
    <3>1. mainPackets # <<>> => Len(mainPackets) \in 1 .. Len(mainPackets)
      BY EmptySeq, LenProperties
    <3> QED BY <3>1, ElementOfSeq
  <2> QED BY <1>18, <2>1 DEF TakeMain, SenderGoto
<1>19. ASSUME TakeSync PROVE QueuesOK'
  <2>1. retrying <= Len(syncPackets) /\ sender = "sync" => syncPackets[retrying] \in Sendable
    <3>1. retrying <= Len(syncPackets) /\ sender = "sync" => retrying \in 1 .. Len(syncPackets)
      BY LenProperties DEF ClientInv, PacketInHand
    <3> QED BY <3>1, ElementOfSeq
  <2> QED BY <1>19, <2>1 DEF TakeSync, SenderGoto
<1>20. ASSUME SendData PROVE QueuesOK'
  BY <1>20 DEF SendData, SenderGoto, Attempted, ClientInv, PacketInHand
<1>21. ASSUME PopMain PROVE QueuesOK'
  <2>1. /\ sender \in {"kept", "sent"} /\ retrying = 0
        /\ current' = NoPacket /\ UNCHANGED <<pushing, retrying>>
        /\ mainPackets' = Tail(mainPackets) /\ raced' \subseteq Pushers
    BY <1>21 DEF PopMain, SenderGoto
  <2>2. current \in Sendable /\ mainPackets # <<>>
    BY <2>1 DEF ClientInv, PacketInHand
  <2>3. Tail(mainPackets) \in Seq(Sendable) /\ Append(syncPackets, current) \in Seq(Sendable)
    BY <2>2, HeadTailProperties, AppendElements
  <2>4. \/ syncPackets' = Append(syncPackets, current) /\ UNCHANGED history
        \/ history' = [history EXCEPT !.lost = @ \cup {current}] /\ UNCHANGED syncPackets
        \/ UNCHANGED <<syncPackets, history>>
    BY <1>21, Zenon DEF PopMain, KeepMain
  <2>5. syncPackets' \in Seq(Sendable)
    BY <2>3, <2>4
  <2>6. history' \in [pushed : SUBSET Packets, attempted : SUBSET Sendable,
                      acked : SUBSET Packets, lost : SUBSET Sendable,
                      newest : Sendable \cup {NoPacket}]
    BY <2>2, <2>4
  <2> QED BY <2>1, <2>2, <2>3, <2>5, <2>6
<1>22. ASSUME NextSync PROVE QueuesOK'
  <2>1. /\ current' = NoPacket /\ UNCHANGED <<pushing, raced, mainPackets>>
        /\ retrying > 0 /\ retrying' \in Nat
    BY <1>22 DEF NextSync, SenderGoto
  <2>2. CASE UNCHANGED <<syncPackets, history>>
    BY <2>1, <2>2
  <2>3. CASE /\ retrying <= Len(syncPackets)
             /\ syncPackets' = WithoutAt(syncPackets, retrying)
             /\ history' = [history EXCEPT !.lost = @ \cup ({syncPackets[retrying]} \ {current})]
    <3>1. retrying \in 1 .. Len(syncPackets)
      BY <2>1, <2>3, LenProperties
    <3>2. syncPackets[retrying] \in Sendable /\ WithoutAt(syncPackets, retrying) \in Seq(Sendable)
      BY <3>1, ElementOfSeq, WithoutAtElements
    <3> QED BY <2>1, <2>3, <3>2
  <2> QED BY <1>22, <2>2, <2>3, Zenon DEF NextSync
<1>23. ASSUME SenderClose PROVE QueuesOK'
  BY <1>23 DEF SenderClose, SenderGoto, Shutdown
\* An invalid access that ends the process, the peer, and a step of nothing.
<1>24. ASSUME Abort PROVE QueuesOK'
  BY <1>24 DEF Abort
<1>25. ASSUME PeerAcks PROVE QueuesOK'
  BY <1>25 DEF PeerAcks, PeerSays
<1>26. ASSUME PeerSends PROVE QueuesOK'
  BY <1>26 DEF PeerSends, PeerSays
<1>27. ASSUME UNCHANGED vars PROVE QueuesOK'
  BY <1>27
<1> HIDE DEF TypeOK, QueuesOK, Sendable, Pushers, queueVars, pushVars, flagVars,
             receiverVars, senderVars
<1> QED
  BY <1>1, <1>2, <1>3, <1>4, <1>5, <1>6, <1>7, <1>8, <1>9, <1>10, <1>11,
     <1>12, <1>13, <1>14, <1>15, <1>16, <1>17, <1>18, <1>19, <1>20,
     <1>21, <1>22, <1>23, <1>24, <1>25, <1>26, <1>27
  DEF Next, consoleThread, Operator, receiverThread, senderThread, Undefined, MainRace,
      SyncRace, Overread, SenderOverrun, Peer

-----------------------------------------------------------------------------
(* The packets in hand.                                                    *)

\* What back() finds is a packet, and not the mark for none.
LEMMA BackIsPacket ==
  ASSUME TypeOK, mainPackets # <<>>
  PROVE  mainPackets[Len(mainPackets)] \in Sendable /\ mainPackets[Len(mainPackets)] # NoPacket
<1>1. Len(mainPackets) \in 1 .. Len(mainPackets)
  BY EmptySeq, LenProperties DEF TypeOK, QueuesOK
<1>2. mainPackets[Len(mainPackets)] \in Sendable
  BY <1>1, ElementOfSeq DEF TypeOK, QueuesOK
<1> QED BY <1>2, ClientConstantsOK DEF Sendable, Reply, NoPacket

\* So is what the walk over syncPackets finds before end().
LEMMA ElementIsPacket ==
  ASSUME TypeOK, retrying > 0, retrying <= Len(syncPackets)
  PROVE  syncPackets[retrying] \in Sendable
<1>1. retrying \in 1 .. Len(syncPackets)
  BY LenProperties DEF TypeOK, QueuesOK
<1> QED BY <1>1, ElementOfSeq DEF TypeOK, QueuesOK

\* So is the message that recv takes from the connection.
LEMMA HeadIsMessage == ASSUME TypeOK, inbox # <<>> PROVE Head(inbox).says # NoPacket
<1>1. inbox \in Seq(Messages)
  BY DEF TypeOK, ControlOK
<1>2. Head(inbox) \in Messages
  BY <1>1, HeadTailProperties
<1> QED BY <1>2, ClientConstantsOK DEF Messages, Text, Unknown, NoPacket

\* A push ends the thread's own push only, and takes no packet out of a queue.
LEMMA PushEndKeeps ==
  ASSUME TypeOK, NEW t \in Pushers, PushEnd(t), InPush(t)
  PROVE  /\ mainPackets # <<>> => mainPackets' # <<>>
         /\ pushing' = [pushing EXCEPT ![t] = NoPacket]
         /\ history'.attempted = history.attempted /\ history'.acked = history.acked
         /\ history.lost \subseteq history'.lost
<1> USE DEF TypeOK, QueuesOK
<1>1. mainPackets' \in {mainPackets, Append(mainPackets, pushing[t])}
  BY DEF PushEnd
<1>2. Append(mainPackets, pushing[t]) # <<>>
  <2>1. pushing[t] \in Sendable
    BY DEF InPush
  <2> QED BY <2>1, AppendProperties, EmptySeq
<1>3. \/ history' = [history EXCEPT !.newest = pushing[t]]
      \/ history' = [history EXCEPT !.lost = @ \cup {pushing[t]}]
  BY DEF PushEnd
<1>4. /\ history'.attempted = history.attempted /\ history'.acked = history.acked
      /\ history.lost \subseteq history'.lost
  BY <1>3
<1> HIDE DEF TypeOK, QueuesOK
<1> QED BY <1>1, <1>2, <1>4 DEF PushEnd

\* A thread at a label that works on a packet has one.
LEMMA HandStep == ASSUME TypeOK, ClientInv, [Next]_vars PROVE PacketInHand'
<1> USE ClientConstantsOK
    DEF TypeOK, ControlOK, QueuesOK, ClientInv, UserFollowsThreads, PacketInHand,
        ErasesAcked,
        InPush, Pushers, Sendable, Reply, Text, Unknown, NoPacket, vars, queueVars,
        pushVars, flagVars, receiverVars, senderVars
\* The console's thread and the operator.
<1>1. ASSUME CreateThreads PROVE PacketInHand'
  BY <1>1 DEF CreateThreads, UserGoto
<1>2. ASSUME ConsoleTest PROVE PacketInHand'
  BY <1>2 DEF ConsoleTest, UserGoto
<1>3. ASSUME SendPacket PROVE PacketInHand'
  <2>1. /\ PushEnd("user") /\ "user" \in Pushers /\ InPush("user")
        /\ UNCHANGED <<syncPackets, sender, current, retrying, moved, found, message>>
    BY <1>3 DEF SendPacket, UserGoto, ClientInv, UserFollowsThreads, PacketInHand, Pushers
  <2>2. /\ mainPackets # <<>> => mainPackets' # <<>>
        /\ pushing' = [pushing EXCEPT !["user"] = NoPacket]
    BY <2>1, PushEndKeeps
  <2> QED BY <1>3, <2>1, <2>2 DEF SendPacket, UserGoto
<1>4. ASSUME JoinReceiver PROVE PacketInHand'
  BY <1>4 DEF JoinReceiver, UserGoto
<1>5. ASSUME JoinSender PROVE PacketInHand'
  BY <1>5 DEF JoinSender, UserGoto
<1>6. ASSUME ClearQueues PROVE PacketInHand'
  BY <1>6 DEF ClearQueues, UserGoto
<1>7. ASSUME TypeSend PROVE PacketInHand'
  BY <1>7 DEF TypeSend, UserGoto, PushBegin
<1>8. ASSUME TypeOther PROVE PacketInHand'
  BY <1>8 DEF TypeOther, UserGoto
<1>9. ASSUME TypeClose PROVE PacketInHand'
  BY <1>9 DEF TypeClose, UserGoto
\* The receiver.
<1>10. ASSUME ReceiverTest PROVE PacketInHand'
  BY <1>10 DEF ReceiverTest, ReceiverGoto
<1>11. ASSUME ReceiveData PROVE PacketInHand'
  <2>hand. PacketInHand
    BY DEF ClientInv
  <2> HIDE ClientConstantsOK
      DEF TypeOK, ControlOK, QueuesOK, ClientInv, UserFollowsThreads, ErasesAcked,
          Sendable, NoPacket
  <2>1. inbox # <<>> => Head(inbox).says # NoPacket
    BY HeadIsMessage
  <2>2. receiver = "recv" /\ UNCHANGED <<sender, current, retrying, mainPackets, pushing>>
    BY <1>11 DEF ReceiveData, ReceiverGoto
  <2>3. receiver' # "reply" /\ (receiver' \in {"handle", "erase"} <=> message' # NoPacket)
    BY <1>11, <2>hand, <2>1, <2>2 DEF ReceiveData, ReceiverGoto, Breaks
  <2> QED BY <2>hand, <2>2, <2>3
<1>12. ASSUME HandleMessage PROVE PacketInHand'
  BY <1>12 DEF HandleMessage, Answer, ReceiverGoto, PushBegin
<1>13. ASSUME SendReply PROVE PacketInHand'
  <2>1. /\ PushEnd("receiver") /\ "receiver" \in Pushers /\ InPush("receiver")
        /\ UNCHANGED <<syncPackets, sender, current, retrying, moved, found, message>>
    BY <1>13 DEF SendReply, ReceiverGoto, ClientInv, UserFollowsThreads, PacketInHand, Pushers
  <2>2. /\ mainPackets # <<>> => mainPackets' # <<>>
        /\ pushing' = [pushing EXCEPT !["receiver"] = NoPacket]
    BY <2>1, PushEndKeeps
  <2> QED BY <1>13, <2>1, <2>2 DEF SendReply, ReceiverGoto
<1>14. ASSUME FindAcked PROVE PacketInHand'
  BY <1>14 DEF FindAcked, Answer, ReceiverGoto, PushBegin
<1>15. ASSUME EraseAcked PROVE PacketInHand'
  BY <1>15 DEF EraseAcked, Answer, ReceiverGoto, PushBegin
<1>16. ASSUME ReceiverClose PROVE PacketInHand'
  BY <1>16 DEF ReceiverClose, ReceiverGoto, Shutdown
\* The sender.
<1>17. ASSUME SenderLoop PROVE PacketInHand'
  BY <1>17 DEF SenderLoop, SenderGoto
<1>18. ASSUME TakeMain PROVE PacketInHand'
  <2>2. sender = "main" /\ retrying \in Nat
    BY <1>18 DEF TakeMain, SenderGoto
  <2>hand. PacketInHand
    BY DEF ClientInv
  <2> HIDE ClientConstantsOK
      DEF TypeOK, ControlOK, QueuesOK, ClientInv, UserFollowsThreads, ErasesAcked,
          Sendable, NoPacket
  <2>3. current = NoPacket /\ retrying = 0
    BY <2>hand, <2>2
  <2>1. mainPackets # <<>> => mainPackets[Len(mainPackets)] # NoPacket
    BY BackIsPacket
  <2>4. UNCHANGED <<receiver, message, pushing, mainPackets>>
    BY <1>18 DEF TakeMain, SenderGoto
  <2>5. CASE mainPackets # <<>>
    <3>1. /\ sender' = "send" /\ current' = mainPackets[Len(mainPackets)] /\ retrying' = 0
      BY <1>18, <2>3, <2>5 DEF TakeMain, SenderGoto
    <3> QED BY <2>hand, <2>1, <2>2, <2>3, <2>4, <2>5, <3>1
  <2>6. CASE mainPackets = <<>>
    <3>1. sender' = "sync" /\ current' = NoPacket /\ retrying' = 1
      BY <1>18, <2>3, <2>6 DEF TakeMain, SenderGoto
    <3> QED BY <2>hand, <2>2, <2>3, <2>4, <3>1
  <2> QED BY <2>5, <2>6
<1>19. ASSUME TakeSync PROVE PacketInHand'
  <2>1. retrying > 0 /\ retrying <= Len(syncPackets) => syncPackets[retrying] \in Sendable
    BY ElementIsPacket
  <2>2. retrying > 0 /\ retrying <= Len(syncPackets) => syncPackets[retrying] # NoPacket
    BY <2>1
  <2>3. sender = "sync" /\ current = NoPacket /\ retrying > 0
    BY <1>19 DEF TakeSync, SenderGoto
  <2>hand. PacketInHand
    BY DEF ClientInv
  <2> HIDE ClientConstantsOK
      DEF TypeOK, ControlOK, QueuesOK, ClientInv, UserFollowsThreads, ErasesAcked,
          Sendable, NoPacket
  <2>4. UNCHANGED <<receiver, message, pushing, mainPackets>>
    BY <1>19 DEF TakeSync, SenderGoto
  <2>5. \/ sender' = "send" /\ retrying' = retrying /\ current' # NoPacket
        \/ sender' = "sleep" /\ retrying' = 0 /\ current' = NoPacket
    BY <1>19, <2>2, <2>3 DEF TakeSync, SenderGoto
  <2> QED BY <2>hand, <2>3, <2>4, <2>5
<1>20. ASSUME SendData PROVE PacketInHand'
  BY <1>20 DEF SendData, SenderGoto, Attempted
<1>21. ASSUME PopMain PROVE PacketInHand'
  <2>1. retrying = 0 /\ sender \in {"kept", "sent"}
    BY <1>21 DEF PopMain, SenderGoto
  <2>hand. PacketInHand
    BY DEF ClientInv
  <2> HIDE ClientConstantsOK
      DEF TypeOK, ControlOK, QueuesOK, ClientInv, UserFollowsThreads, ErasesAcked,
          Sendable, NoPacket
  <2>2. /\ retrying' = 0 /\ sender' = "main" /\ current' = NoPacket
        /\ UNCHANGED <<receiver, message, pushing>>
    BY <1>21, <2>1 DEF PopMain, SenderGoto
  <2> QED BY <2>hand, <2>1, <2>2
<1>22. ASSUME NextSync PROVE PacketInHand'
  <2>1. /\ retrying \in Nat /\ retrying > 0 /\ sender \in {"kept", "sent"}
    BY <1>22 DEF NextSync, SenderGoto
  <2>hand. PacketInHand
    BY DEF ClientInv
  <2> HIDE ClientConstantsOK
      DEF TypeOK, ControlOK, QueuesOK, ClientInv, UserFollowsThreads, ErasesAcked,
          Sendable, NoPacket
  <2>2. retrying' > 0 /\ sender' = "sync" /\ current' = NoPacket
    BY <1>22, <2>1 DEF NextSync, SenderGoto
  <2>3. UNCHANGED <<receiver, message, pushing>>
    BY <1>22 DEF NextSync, SenderGoto
  <2> QED BY <2>hand, <2>1, <2>2, <2>3
<1>23. ASSUME SenderClose PROVE PacketInHand'
  BY <1>23 DEF SenderClose, SenderGoto, Shutdown
\* An invalid access that ends the process, the peer, and a step of nothing.
<1>24. ASSUME Abort PROVE PacketInHand'
  BY <1>24 DEF Abort
<1>25. ASSUME PeerAcks PROVE PacketInHand'
  <2>1. UNCHANGED <<receiver, sender, message, current, retrying, mainPackets, pushing>>
    BY <1>25 DEF PeerAcks, PeerSays
  <2>hand. PacketInHand
    BY DEF ClientInv
  <2> HIDE ClientConstantsOK
      DEF TypeOK, ControlOK, QueuesOK, ClientInv, UserFollowsThreads, ErasesAcked,
          Sendable, NoPacket
  <2> QED BY <2>hand, <2>1
<1>26. ASSUME PeerSends PROVE PacketInHand'
  <2>1. UNCHANGED <<receiver, sender, message, current, retrying, mainPackets, pushing>>
    BY <1>26 DEF PeerSends, PeerSays
  <2>hand. PacketInHand
    BY DEF ClientInv
  <2> HIDE ClientConstantsOK
      DEF TypeOK, ControlOK, QueuesOK, ClientInv, UserFollowsThreads, ErasesAcked,
          Sendable, NoPacket
  <2> QED BY <2>hand, <2>1
<1>27. ASSUME UNCHANGED vars PROVE PacketInHand'
  BY <1>27
<1> HIDE DEF TypeOK, ControlOK, QueuesOK, ClientInv, UserFollowsThreads, PacketInHand,
             ErasesAcked, InPush, Pushers, Sendable, Reply, Text, Unknown, NoPacket,
             queueVars, pushVars, flagVars, receiverVars, senderVars
<1> QED
  BY <1>1, <1>2, <1>3, <1>4, <1>5, <1>6, <1>7, <1>8, <1>9, <1>10, <1>11,
     <1>12, <1>13, <1>14, <1>15, <1>16, <1>17, <1>18, <1>19, <1>20,
     <1>21, <1>22, <1>23, <1>24, <1>25, <1>26, <1>27
  DEF Next, consoleThread, Operator, receiverThread, senderThread, Undefined, MainRace,
      SyncRace, Overread, SenderOverrun, Peer

\* handle_ack's iterator stays on its packet unless the sender moves the elements.
LEMMA ErasesStep == ASSUME TypeOK, ClientInv, [Next]_vars PROVE ErasesAcked'
<1> USE ClientConstantsOK
    DEF TypeOK, ControlOK, QueuesOK, ClientInv, UserFollowsThreads, PacketInHand,
        ErasesAcked, vars, queueVars, pushVars, flagVars, receiverVars, senderVars
\* The console's thread and the operator.
<1>1. ASSUME CreateThreads PROVE ErasesAcked'
  BY <1>1 DEF CreateThreads, UserGoto
<1>2. ASSUME ConsoleTest PROVE ErasesAcked'
  BY <1>2 DEF ConsoleTest, UserGoto
<1>3. ASSUME SendPacket PROVE ErasesAcked'
  BY <1>3 DEF SendPacket, UserGoto
<1>4. ASSUME JoinReceiver PROVE ErasesAcked'
  BY <1>4 DEF JoinReceiver, UserGoto
<1>5. ASSUME JoinSender PROVE ErasesAcked'
  BY <1>5 DEF JoinSender, UserGoto
<1>6. ASSUME ClearQueues PROVE ErasesAcked'
  BY <1>6 DEF ClearQueues, UserGoto
<1>7. ASSUME TypeSend PROVE ErasesAcked'
  BY <1>7 DEF TypeSend, UserGoto, PushBegin
<1>8. ASSUME TypeOther PROVE ErasesAcked'
  BY <1>8 DEF TypeOther, UserGoto
<1>9. ASSUME TypeClose PROVE ErasesAcked'
  BY <1>9 DEF TypeClose, UserGoto
\* The receiver.
<1>10. ASSUME ReceiverTest PROVE ErasesAcked'
  BY <1>10 DEF ReceiverTest, ReceiverGoto
<1>11. ASSUME ReceiveData PROVE ErasesAcked'
  BY <1>11 DEF ReceiveData, ReceiverGoto, Breaks
<1>12. ASSUME HandleMessage PROVE ErasesAcked'
  BY <1>12 DEF HandleMessage, Answer, ReceiverGoto, PushBegin
<1>13. ASSUME SendReply PROVE ErasesAcked'
  BY <1>13 DEF SendReply, ReceiverGoto
<1>14. ASSUME FindAcked PROVE ErasesAcked'
  <2>1. ASSUME NEW i \in DOMAIN syncPackets
        PROVE  i \in Nat /\ i > 0 /\ i <= Len(syncPackets)
    BY LenProperties
  <2>2. CASE receiver' = "erase"
    <3>1. PICK i \in DOMAIN syncPackets : IsFirst(syncPackets, message, i) /\ found' = i
      BY <1>14, <2>2 DEF FindAcked, Answer, ReceiverGoto, PushBegin
    <3>2. message \in Packets /\ message' = message /\ syncPackets' = syncPackets
      BY <1>14, <2>2 DEF FindAcked, Answer, ReceiverGoto, PushBegin
    <3>3. syncPackets[i] = message
      BY <3>1 DEF IsFirst
    <3> QED BY <2>1, <3>1, <3>2, <3>3
  <2> QED BY <2>2
<1>15. ASSUME EraseAcked PROVE ErasesAcked'
  BY <1>15 DEF EraseAcked, Answer, ReceiverGoto, PushBegin
<1>16. ASSUME ReceiverClose PROVE ErasesAcked'
  BY <1>16 DEF ReceiverClose, ReceiverGoto, Shutdown
\* The sender.
<1>17. ASSUME SenderLoop PROVE ErasesAcked'
  BY <1>17 DEF SenderLoop, SenderGoto
<1>18. ASSUME TakeMain PROVE ErasesAcked'
  BY <1>18 DEF TakeMain, SenderGoto
<1>19. ASSUME TakeSync PROVE ErasesAcked'
  BY <1>19 DEF TakeSync, SenderGoto
<1>20. ASSUME SendData PROVE ErasesAcked'
  BY <1>20 DEF SendData, SenderGoto, Attempted
<1>21. ASSUME PopMain PROVE ErasesAcked'
  <2>1. UNCHANGED <<receiver, message, found>>
    BY <1>21 DEF PopMain, SenderGoto
  <2>2. UNCHANGED <<syncPackets, moved>> \/ moved' = (receiver = "erase")
    BY <1>21, Zenon DEF PopMain, KeepMain
  <2> QED BY <2>1, <2>2
<1>22. ASSUME NextSync PROVE ErasesAcked'
  <2>1. UNCHANGED <<receiver, message, found>>
    BY <1>22 DEF NextSync, SenderGoto
  <2>2. UNCHANGED <<syncPackets, moved>> \/ moved' = (receiver = "erase")
    BY <1>22, Zenon DEF NextSync
  <2> QED BY <2>1, <2>2
<1>23. ASSUME SenderClose PROVE ErasesAcked'
  BY <1>23 DEF SenderClose, SenderGoto, Shutdown
\* An invalid access that ends the process, the peer, and a step of nothing.
<1>24. ASSUME Abort PROVE ErasesAcked'
  BY <1>24 DEF Abort
<1>25. ASSUME PeerAcks PROVE ErasesAcked'
  BY <1>25 DEF PeerAcks, PeerSays
<1>26. ASSUME PeerSends PROVE ErasesAcked'
  BY <1>26 DEF PeerSends, PeerSays
<1>27. ASSUME UNCHANGED vars PROVE ErasesAcked'
  BY <1>27
<1> HIDE DEF TypeOK, ControlOK, QueuesOK, ClientInv, UserFollowsThreads, PacketInHand,
             ErasesAcked, queueVars, pushVars, flagVars, receiverVars, senderVars
<1> QED
  BY <1>1, <1>2, <1>3, <1>4, <1>5, <1>6, <1>7, <1>8, <1>9, <1>10, <1>11,
     <1>12, <1>13, <1>14, <1>15, <1>16, <1>17, <1>18, <1>19, <1>20,
     <1>21, <1>22, <1>23, <1>24, <1>25, <1>26, <1>27
  DEF Next, consoleThread, Operator, receiverThread, senderThread, Undefined, MainRace,
      SyncRace, Overread, SenderOverrun, Peer

-----------------------------------------------------------------------------
(* A packet that needs an ACK is kept.                                     *)

\* Once tried, such a packet is in syncPackets or in hand, unless handle_ack or a
\* race of the two threads took it out.
LEMMA KeptStep ==
  ASSUME TypeOK, ClientInv, [Next]_vars
  PROVE  (RetryKept /\ RetriedKept)'
<1> USE DEF TypeOK, QueuesOK, ClientInv, RetryKept, RetriedKept, vars, queueVars,
            pushVars, flagVars, receiverVars, senderVars
\* The console's thread and the operator.
<1>1. ASSUME CreateThreads PROVE (RetryKept /\ RetriedKept)'
  BY <1>1 DEF CreateThreads, UserGoto
<1>2. ASSUME ConsoleTest PROVE (RetryKept /\ RetriedKept)'
  BY <1>2 DEF ConsoleTest, UserGoto
<1>3. ASSUME SendPacket PROVE (RetryKept /\ RetriedKept)'
  <2>1. /\ PushEnd("user") /\ "user" \in Pushers /\ InPush("user")
        /\ UNCHANGED <<syncPackets, current, retrying>> /\ (user' # "closed" => user # "closed")
    BY <1>3 DEF SendPacket, UserGoto, ClientInv, UserFollowsThreads, PacketInHand, Pushers
  <2>2. /\ history'.attempted = history.attempted /\ history'.acked = history.acked
        /\ history.lost \subseteq history'.lost
    BY <2>1, PushEndKeeps
  <2> QED BY <2>1, <2>2
<1>4. ASSUME JoinReceiver PROVE (RetryKept /\ RetriedKept)'
  BY <1>4 DEF JoinReceiver, UserGoto
<1>5. ASSUME JoinSender PROVE (RetryKept /\ RetriedKept)'
  BY <1>5 DEF JoinSender, UserGoto
<1>6. ASSUME ClearQueues PROVE (RetryKept /\ RetriedKept)'
  <2>1. user' = "closed" /\ current' = current /\ sender = "exit" /\ NoPacket \notin NeedACK
    BY <1>6, ClientConstantsOK DEF ClearQueues, UserGoto, UserFollowsThreads
  <2> QED BY <2>1 DEF PacketInHand
<1>7. ASSUME TypeSend PROVE (RetryKept /\ RetriedKept)'
  <2>1. /\ history'.attempted = history.attempted /\ history'.acked = history.acked
        /\ history'.lost = history.lost
    BY <1>7 DEF TypeSend
  <2>2. UNCHANGED <<syncPackets, current, retrying>> /\ user # "closed"
    BY <1>7 DEF TypeSend, UserGoto
  <2> QED BY <2>1, <2>2
<1>8. ASSUME TypeOther PROVE (RetryKept /\ RetriedKept)'
  BY <1>8 DEF TypeOther, UserGoto
<1>9. ASSUME TypeClose PROVE (RetryKept /\ RetriedKept)'
  BY <1>9 DEF TypeClose, UserGoto
\* The receiver.
<1>10. ASSUME ReceiverTest PROVE (RetryKept /\ RetriedKept)'
  BY <1>10 DEF ReceiverTest, ReceiverGoto
<1>11. ASSUME ReceiveData PROVE (RetryKept /\ RetriedKept)'
  BY <1>11 DEF ReceiveData, ReceiverGoto, Breaks
<1>12. ASSUME HandleMessage PROVE (RetryKept /\ RetriedKept)'
  BY <1>12 DEF HandleMessage, Answer, ReceiverGoto, PushBegin
<1>13. ASSUME SendReply PROVE (RetryKept /\ RetriedKept)'
  <2>1. /\ PushEnd("receiver") /\ "receiver" \in Pushers /\ InPush("receiver")
        /\ UNCHANGED <<syncPackets, current, retrying>> /\ (user' # "closed" => user # "closed")
    BY <1>13 DEF SendReply, ReceiverGoto, ClientInv, UserFollowsThreads, PacketInHand, Pushers
  <2>2. /\ history'.attempted = history.attempted /\ history'.acked = history.acked
        /\ history.lost \subseteq history'.lost
    BY <2>1, PushEndKeeps
  <2> QED BY <2>1, <2>2
<1>14. ASSUME FindAcked PROVE (RetryKept /\ RetriedKept)'
  BY <1>14 DEF FindAcked, Answer, ReceiverGoto, PushBegin
<1>15. ASSUME EraseAcked PROVE (RetryKept /\ RetriedKept)'
  <2>1. receiver = "erase" /\ message \in Packets /\ found > 0 /\ found \in Nat
    BY <1>15 DEF EraseAcked, Answer, ReceiverGoto, PushBegin, ErasesAcked, ControlOK
  <2>2. UNCHANGED <<user, current, retrying>>
    BY <1>15 DEF EraseAcked, Answer, ReceiverGoto, PushBegin
  <2>3. CASE /\ found <= Len(syncPackets)
             /\ syncPackets' = WithoutAt(syncPackets, found)
             /\ history' = [history EXCEPT !.acked = @ \cup {message},
                                           !.lost = @ \cup ({syncPackets[found]} \ {message})]
    <3>1. found \in 1 .. Len(syncPackets)
      BY <2>1, <2>3, LenProperties
    <3>2. Elements(syncPackets) \subseteq Elements(syncPackets') \cup {syncPackets[found]}
      BY <2>3, <3>1, WithoutAtElements
    <3>3. /\ history'.attempted = history.attempted
          /\ history'.acked = history.acked \cup {message}
          /\ history'.lost = history.lost \cup ({syncPackets[found]} \ {message})
      BY <2>3
    <3> QED BY <2>2, <3>2, <3>3
  <2>4. CASE history' = [history EXCEPT !.acked = @ \cup {message}] /\ UNCHANGED syncPackets
    <3>1. /\ history'.attempted = history.attempted
          /\ history'.acked = history.acked \cup {message}
          /\ history'.lost = history.lost
      BY <2>4
    <3> QED BY <2>2, <2>4, <3>1
  <2> QED BY <1>15, <2>3, <2>4, Zenon DEF EraseAcked
<1>16. ASSUME ReceiverClose PROVE (RetryKept /\ RetriedKept)'
  BY <1>16 DEF ReceiverClose, ReceiverGoto, Shutdown
\* The sender.
<1>17. ASSUME SenderLoop PROVE (RetryKept /\ RetriedKept)'
  BY <1>17 DEF SenderLoop, SenderGoto
<1>18. ASSUME TakeMain PROVE (RetryKept /\ RetriedKept)'
  <2>1. /\ UNCHANGED <<history, syncPackets, user>>
        /\ current = NoPacket /\ NoPacket \notin NeedACK
    BY <1>18, ClientConstantsOK DEF TakeMain, SenderGoto, PacketInHand
  <2>2. (sender' = "send" /\ retrying' = 0) \/ current' = NoPacket
    BY <1>18, <2>1 DEF TakeMain, SenderGoto, PacketInHand
  <2> QED BY <2>1, <2>2
<1>19. ASSUME TakeSync PROVE (RetryKept /\ RetriedKept)'
  <2>1. /\ UNCHANGED <<history, syncPackets, user>>
        /\ current = NoPacket /\ NoPacket \notin NeedACK
    BY <1>19, ClientConstantsOK DEF TakeSync, SenderGoto, PacketInHand
  <2>2. retrying > 0 /\ retrying <= Len(syncPackets) => syncPackets[retrying] \in Elements(syncPackets)
    BY LenProperties DEF Elements
  <2>3. \/ current' \in Elements(syncPackets) \/ current' = NoPacket
    BY <1>19, <2>1, <2>2 DEF TakeSync, SenderGoto, PacketInHand
  <2> QED BY <2>1, <2>3
<1>20. ASSUME SendData PROVE (RetryKept /\ RetriedKept)'
  <2>1. /\ UNCHANGED <<syncPackets, user, current, retrying>>
        /\ history'.attempted = history.attempted \cup {current}
        /\ history'.acked = history.acked /\ history'.lost = history.lost
    BY <1>20 DEF SendData, SenderGoto, Attempted
  <2> QED BY <2>1
<1>21. ASSUME PopMain PROVE (RetryKept /\ RetriedKept)'
  <2>1. /\ sender \in {"kept", "sent"} /\ UNCHANGED <<user, retrying>> /\ retrying = 0
        /\ current \in Sendable /\ NoPacket \notin NeedACK /\ current' = NoPacket
        /\ sender = "sent" => current \notin NeedACK
    BY <1>21, ClientConstantsOK DEF PopMain, SenderGoto, PacketInHand
  <2>2. CASE syncPackets' = Append(syncPackets, current) /\ UNCHANGED history
    <3>1. Elements(syncPackets') = Elements(syncPackets) \cup {current}
      BY <2>1, <2>2, AppendElements
    <3> QED BY <2>1, <2>2, <3>1
  <2>3. CASE history' = [history EXCEPT !.lost = @ \cup {current}] /\ UNCHANGED syncPackets
    <3>1. /\ history'.attempted = history.attempted /\ history'.acked = history.acked
          /\ history'.lost = history.lost \cup {current}
      BY <2>3
    <3> QED BY <2>1, <2>3, <3>1
  <2>4. CASE sender = "sent" /\ UNCHANGED <<syncPackets, history>>
    BY <2>1, <2>4
  <2> QED BY <1>21, <2>2, <2>3, <2>4, Zenon DEF PopMain, KeepMain, SenderGoto
<1>22. ASSUME NextSync PROVE (RetryKept /\ RetriedKept)'
  <2>1. /\ UNCHANGED user /\ retrying > 0 /\ NoPacket \notin NeedACK /\ current' = NoPacket
        /\ sender = "sent" => current \notin NeedACK
    BY <1>22, ClientConstantsOK DEF NextSync, SenderGoto, PacketInHand
  <2>2. CASE sender = "kept" /\ UNCHANGED <<syncPackets, history>>
    BY <2>1, <2>2
  <2>3. CASE /\ sender = "sent" /\ retrying <= Len(syncPackets)
             /\ syncPackets' = WithoutAt(syncPackets, retrying)
             /\ history' = [history EXCEPT !.lost = @ \cup ({syncPackets[retrying]} \ {current})]
    <3>1. retrying \in 1 .. Len(syncPackets)
      BY <2>1, <2>3, LenProperties
    <3>2. Elements(syncPackets) \subseteq Elements(syncPackets') \cup {syncPackets[retrying]}
      BY <2>3, <3>1, WithoutAtElements
    <3>3. /\ history'.attempted = history.attempted /\ history'.acked = history.acked
          /\ history'.lost = history.lost \cup ({syncPackets[retrying]} \ {current})
      BY <2>3
    <3> QED BY <2>1, <2>3, <3>2, <3>3
  <2> QED BY <1>22, <2>2, <2>3, Zenon DEF NextSync, SenderGoto
<1>23. ASSUME SenderClose PROVE (RetryKept /\ RetriedKept)'
  BY <1>23 DEF SenderClose, SenderGoto, Shutdown
\* An invalid access that ends the process, the peer, and a step of nothing.
<1>24. ASSUME MainRace PROVE (RetryKept /\ RetriedKept)'
  <2>1. UNCHANGED <<history, syncPackets, current, retrying>> /\ user # "closed"
    BY <1>24 DEF MainRace, Abort, ClosedClean
  <2> QED BY <2>1
<1>25. ASSUME SyncRace \/ Overread PROVE (RetryKept /\ RetriedKept)'
  <2>1. UNCHANGED <<history, syncPackets, current, retrying>> /\ user # "closed"
    BY <1>25 DEF SyncRace, Overread, Abort, ClosedClean, ThreadsReturned
  <2> QED BY <2>1
<1>26. ASSUME SenderOverrun PROVE (RetryKept /\ RetriedKept)'
  <2>1. UNCHANGED <<history, syncPackets, current, retrying>> /\ user # "closed"
    BY <1>26 DEF SenderOverrun, Abort, ClosedClean, ThreadsReturned
  <2> QED BY <2>1
<1>27. ASSUME PeerAcks PROVE (RetryKept /\ RetriedKept)'
  BY <1>27 DEF PeerAcks, PeerSays
<1>28. ASSUME PeerSends PROVE (RetryKept /\ RetriedKept)'
  BY <1>28 DEF PeerSends, PeerSays
<1>29. ASSUME UNCHANGED vars PROVE (RetryKept /\ RetriedKept)'
  BY <1>29
<1> HIDE DEF TypeOK, QueuesOK, ClientInv, RetryKept, RetriedKept, queueVars, pushVars,
             flagVars, receiverVars, senderVars
<1> QED
  BY <1>1, <1>2, <1>3, <1>4, <1>5, <1>6, <1>7, <1>8, <1>9, <1>10, <1>11,
     <1>12, <1>13, <1>14, <1>15, <1>16, <1>17, <1>18, <1>19, <1>20,
     <1>21, <1>22, <1>23, <1>24, <1>25, <1>26, <1>27, <1>28, <1>29
  DEF Next, consoleThread, Operator, receiverThread, senderThread, Undefined, Peer

-----------------------------------------------------------------------------
(* The packet pushed last is sent.                                         *)

\* A push puts the newest packet at the back, or loses it in a race; a packet that
\* the sender holds is then no longer the only one.
LEMMA PushEndNewest ==
  ASSUME TypeOK, PacketInHand, NewestAtBack, NewestSent,
         NEW t \in Pushers, PushEnd(t), InPush(t),
         UNCHANGED <<sender, current, retrying>>, user' # "closed" => user # "closed"
  PROVE  (NewestAtBack /\ NewestSent)'
<1> USE DEF TypeOK, QueuesOK, NewestAtBack, NewestSent
<1>1. pushing[t] \in Sendable
  BY DEF InPush
<1>2. CASE /\ mainPackets' = Append(mainPackets, pushing[t])
           /\ history' = [history EXCEPT !.newest = pushing[t]]
  <2>1. /\ mainPackets' # <<>> /\ Len(mainPackets') = Len(mainPackets) + 1
        /\ mainPackets'[Len(mainPackets) + 1] = pushing[t]
    BY <1>1, <1>2, AppendLast
  <2>2. history'.attempted = history.attempted /\ history'.newest = pushing[t]
    BY <1>2
  <2>3. current # NoPacket /\ retrying = 0 => Len(mainPackets) \in Nat /\ Len(mainPackets) > 0
    BY EmptySeq, LenProperties DEF PacketInHand
  <2> QED BY <2>1, <2>2, <2>3
<1>3. CASE history' = [history EXCEPT !.lost = @ \cup {pushing[t]}] /\ UNCHANGED mainPackets
  <2>1. history'.attempted = history.attempted /\ history'.newest = history.newest
    BY <1>3
  <2> QED BY <1>3, <2>1
<1> QED BY <1>2, <1>3, Zenon DEF PushEnd

\* So the sender empties mainPackets only with the newest packet in its hand.
LEMMA NewestStep ==
  ASSUME TypeOK, ClientInv, [Next]_vars
  PROVE  (NewestAtBack /\ NewestSent)'
<1> USE DEF TypeOK, QueuesOK, ClientInv, NewestAtBack, NewestSent, vars, queueVars,
            pushVars, flagVars, receiverVars, senderVars
\* The console's thread and the operator.
<1>1. ASSUME CreateThreads PROVE (NewestAtBack /\ NewestSent)'
  BY <1>1 DEF CreateThreads, UserGoto
<1>2. ASSUME ConsoleTest PROVE (NewestAtBack /\ NewestSent)'
  BY <1>2 DEF ConsoleTest, UserGoto
<1>3. ASSUME SendPacket PROVE (NewestAtBack /\ NewestSent)'
  <2>1. /\ PushEnd("user") /\ "user" \in Pushers /\ InPush("user")
        /\ UNCHANGED <<sender, current, retrying>> /\ (user' # "closed" => user # "closed")
    BY <1>3 DEF SendPacket, UserGoto, UserFollowsThreads, PacketInHand, Pushers
  <2> QED BY <2>1, PushEndNewest
<1>4. ASSUME JoinReceiver PROVE (NewestAtBack /\ NewestSent)'
  BY <1>4 DEF JoinReceiver, UserGoto
<1>5. ASSUME JoinSender PROVE (NewestAtBack /\ NewestSent)'
  BY <1>5 DEF JoinSender, UserGoto
<1>6. ASSUME ClearQueues PROVE (NewestAtBack /\ NewestSent)'
  BY <1>6 DEF ClearQueues, UserGoto
<1>7. ASSUME TypeSend PROVE (NewestAtBack /\ NewestSent)'
  <2>1. history'.attempted = history.attempted /\ history'.newest = history.newest
    BY <1>7 DEF TypeSend
  <2> QED BY <1>7, <2>1 DEF TypeSend, UserGoto
<1>8. ASSUME TypeOther PROVE (NewestAtBack /\ NewestSent)'
  BY <1>8 DEF TypeOther, UserGoto
<1>9. ASSUME TypeClose PROVE (NewestAtBack /\ NewestSent)'
  BY <1>9 DEF TypeClose, UserGoto
\* The receiver.
<1>10. ASSUME ReceiverTest PROVE (NewestAtBack /\ NewestSent)'
  BY <1>10 DEF ReceiverTest, ReceiverGoto
<1>11. ASSUME ReceiveData PROVE (NewestAtBack /\ NewestSent)'
  BY <1>11 DEF ReceiveData, ReceiverGoto, Breaks
<1>12. ASSUME HandleMessage PROVE (NewestAtBack /\ NewestSent)'
  BY <1>12 DEF HandleMessage, Answer, ReceiverGoto, PushBegin
<1>13. ASSUME SendReply PROVE (NewestAtBack /\ NewestSent)'
  <2>1. /\ PushEnd("receiver") /\ "receiver" \in Pushers /\ InPush("receiver")
        /\ UNCHANGED <<sender, current, retrying>> /\ (user' # "closed" => user # "closed")
    BY <1>13 DEF SendReply, ReceiverGoto, UserFollowsThreads, PacketInHand, Pushers
  <2> QED BY <2>1, PushEndNewest
<1>14. ASSUME FindAcked PROVE (NewestAtBack /\ NewestSent)'
  BY <1>14 DEF FindAcked, Answer, ReceiverGoto, PushBegin
<1>15. ASSUME EraseAcked PROVE (NewestAtBack /\ NewestSent)'
  <2>1. history'.attempted = history.attempted /\ history'.newest = history.newest
    BY <1>15 DEF EraseAcked
  <2>2. UNCHANGED <<user, mainPackets, sender, current, retrying>>
    BY <1>15 DEF EraseAcked, Answer, ReceiverGoto, PushBegin
  <2> QED BY <2>1, <2>2
<1>16. ASSUME ReceiverClose PROVE (NewestAtBack /\ NewestSent)'
  BY <1>16 DEF ReceiverClose, ReceiverGoto, Shutdown
\* The sender.
<1>17. ASSUME SenderLoop PROVE (NewestAtBack /\ NewestSent)'
  BY <1>17 DEF SenderLoop, SenderGoto
<1>18. ASSUME TakeMain PROVE (NewestAtBack /\ NewestSent)'
  <2>1. /\ UNCHANGED <<history, mainPackets, user>> /\ sender' \notin {"kept", "sent"}
        /\ sender = "main" /\ current = NoPacket
    BY <1>18 DEF TakeMain, SenderGoto, PacketInHand
  <2>2. current' # NoPacket => current' = mainPackets[Len(mainPackets)]
    BY <1>18, <2>1 DEF TakeMain
  <2> QED BY <2>1, <2>2
<1>19. ASSUME TakeSync PROVE (NewestAtBack /\ NewestSent)'
  <2>1. /\ UNCHANGED <<history, mainPackets, user>> /\ sender' \notin {"kept", "sent"}
        /\ sender = "sync" /\ current = NoPacket /\ retrying > 0
    BY <1>19 DEF TakeSync, SenderGoto, PacketInHand
  <2>2. current' # NoPacket => retrying' = retrying
    BY <1>19, <2>1 DEF TakeSync
  <2> QED BY <2>1, <2>2
<1>20. ASSUME SendData PROVE (NewestAtBack /\ NewestSent)'
  <2>1. /\ history'.attempted = history.attempted \cup {current}
        /\ history'.newest = history.newest
    BY <1>20 DEF SendData, Attempted
  <2>2. UNCHANGED <<user, mainPackets, current, retrying>>
    BY <1>20 DEF SendData, SenderGoto
  <2> QED BY <2>1, <2>2
<1>21. ASSUME PopMain PROVE (NewestAtBack /\ NewestSent)'
  <2>1. /\ sender \in {"kept", "sent"} /\ sender' = "main" /\ UNCHANGED user
        /\ retrying = 0 /\ current' = NoPacket /\ mainPackets' = Tail(mainPackets)
    BY <1>21 DEF PopMain, SenderGoto
  <2>2. \/ UNCHANGED history
        \/ history' = [history EXCEPT !.lost = @ \cup {current}]
    BY <1>21, Zenon DEF PopMain, KeepMain
  <2>3. history'.attempted = history.attempted /\ history'.newest = history.newest
    BY <2>2
  <2>4. current # NoPacket /\ current \in history.attempted /\ mainPackets # <<>>
    BY <2>1 DEF PacketInHand
  <2>5. /\ Len(mainPackets) \in Nat /\ Len(mainPackets) > 0
        /\ Len(mainPackets) = 1 <=> Tail(mainPackets) = <<>>
        /\ Len(mainPackets) > 1 =>
             Tail(mainPackets)[Len(Tail(mainPackets))] = mainPackets[Len(mainPackets)]
    BY <2>4, TailLast
  <2>6. mainPackets' # <<>> => mainPackets'[Len(mainPackets')] = history'.newest
    BY <2>1, <2>3, <2>4, <2>5
  <2>7. mainPackets' = <<>> => history'.newest \in history'.attempted
    BY <2>1, <2>3, <2>4, <2>5
  <2> QED BY <2>1, <2>6, <2>7
<1>22. ASSUME NextSync PROVE (NewestAtBack /\ NewestSent)'
  <2>1. /\ UNCHANGED <<user, mainPackets>> /\ sender' \notin {"kept", "sent"}
        /\ current' = NoPacket
    BY <1>22 DEF NextSync, SenderGoto
  <2>2. history'.attempted = history.attempted /\ history'.newest = history.newest
    BY <1>22 DEF NextSync
  <2> QED BY <2>1, <2>2
<1>23. ASSUME SenderClose PROVE (NewestAtBack /\ NewestSent)'
  BY <1>23 DEF SenderClose, SenderGoto, Shutdown
\* An invalid access that ends the process, the peer, and a step of nothing.
<1>24. ASSUME MainRace PROVE (NewestAtBack /\ NewestSent)'
  <2>1. UNCHANGED <<history, mainPackets, sender, current, retrying>> /\ user # "closed"
    BY <1>24 DEF MainRace, Abort, ClosedClean
  <2> QED BY <2>1
<1>25. ASSUME SyncRace \/ Overread PROVE (NewestAtBack /\ NewestSent)'
  <2>1. UNCHANGED <<history, mainPackets, sender, current, retrying>> /\ user # "closed"
    BY <1>25 DEF SyncRace, Overread, Abort, ClosedClean, ThreadsReturned
  <2> QED BY <2>1
<1>26. ASSUME SenderOverrun PROVE (NewestAtBack /\ NewestSent)'
  <2>1. UNCHANGED <<history, mainPackets, sender, current, retrying>> /\ user # "closed"
    BY <1>26 DEF SenderOverrun, Abort, ClosedClean, ThreadsReturned
  <2> QED BY <2>1
<1>27. ASSUME PeerAcks PROVE (NewestAtBack /\ NewestSent)'
  BY <1>27 DEF PeerAcks, PeerSays
<1>28. ASSUME PeerSends PROVE (NewestAtBack /\ NewestSent)'
  BY <1>28 DEF PeerSends, PeerSays
<1>29. ASSUME UNCHANGED vars PROVE (NewestAtBack /\ NewestSent)'
  BY <1>29
<1> HIDE DEF TypeOK, QueuesOK, ClientInv, NewestAtBack, NewestSent, queueVars, pushVars,
             flagVars, receiverVars, senderVars
<1> QED
  BY <1>1, <1>2, <1>3, <1>4, <1>5, <1>6, <1>7, <1>8, <1>9, <1>10, <1>11,
     <1>12, <1>13, <1>14, <1>15, <1>16, <1>17, <1>18, <1>19, <1>20,
     <1>21, <1>22, <1>23, <1>24, <1>25, <1>26, <1>27, <1>28, <1>29
  DEF Next, consoleThread, Operator, receiverThread, senderThread, Undefined, Peer

-----------------------------------------------------------------------------
(* What disconnect() leaves.                                               *)

\* Once disconnect() has returned nothing is pushed, sent or received any more.
LEMMA ClosedStep == ASSUME TypeOK, ClientInv, [Next]_vars PROVE ClosedClean'
<1> USE DEF ClientInv, ClosedClean, ThreadsReturned, UserFollowsThreads, PacketInHand,
        InPush, Pushers, vars, queueVars, pushVars, flagVars, receiverVars, senderVars
\* The console's thread and the operator.
<1>1. ASSUME CreateThreads PROVE ClosedClean'
  BY <1>1 DEF CreateThreads, UserGoto
<1>2. ASSUME ConsoleTest PROVE ClosedClean'
  BY <1>2 DEF ConsoleTest, UserGoto
<1>3. ASSUME SendPacket PROVE ClosedClean'
  BY <1>3 DEF SendPacket, UserGoto, PushEnd
<1>4. ASSUME JoinReceiver PROVE ClosedClean'
  BY <1>4 DEF JoinReceiver, UserGoto
<1>5. ASSUME JoinSender PROVE ClosedClean'
  BY <1>5 DEF JoinSender, UserGoto
<1>6. ASSUME ClearQueues PROVE ClosedClean'
  BY <1>6 DEF ClearQueues, UserGoto
<1>7. ASSUME TypeSend PROVE ClosedClean'
  BY <1>7 DEF TypeSend, UserGoto, PushBegin
<1>8. ASSUME TypeOther PROVE ClosedClean'
  BY <1>8 DEF TypeOther, UserGoto
<1>9. ASSUME TypeClose PROVE ClosedClean'
  BY <1>9 DEF TypeClose, UserGoto
\* The receiver.
<1>10. ASSUME ReceiverTest PROVE ClosedClean'
  BY <1>10 DEF ReceiverTest, ReceiverGoto
<1>11. ASSUME ReceiveData PROVE ClosedClean'
  BY <1>11 DEF ReceiveData, ReceiverGoto, Breaks
<1>12. ASSUME HandleMessage PROVE ClosedClean'
  BY <1>12 DEF HandleMessage, Answer, ReceiverGoto, PushBegin
<1>13. ASSUME SendReply PROVE ClosedClean'
  BY <1>13 DEF SendReply, ReceiverGoto, PushEnd
<1>14. ASSUME FindAcked PROVE ClosedClean'
  BY <1>14 DEF FindAcked, Answer, ReceiverGoto, PushBegin
<1>15. ASSUME EraseAcked PROVE ClosedClean'
  BY <1>15 DEF EraseAcked, Answer, ReceiverGoto, PushBegin
<1>16. ASSUME ReceiverClose PROVE ClosedClean'
  BY <1>16 DEF ReceiverClose, ReceiverGoto, Shutdown
\* The sender.
<1>17. ASSUME SenderLoop PROVE ClosedClean'
  BY <1>17 DEF SenderLoop, SenderGoto
<1>18. ASSUME TakeMain PROVE ClosedClean'
  BY <1>18 DEF TakeMain, SenderGoto
<1>19. ASSUME TakeSync PROVE ClosedClean'
  BY <1>19 DEF TakeSync, SenderGoto
<1>20. ASSUME SendData PROVE ClosedClean'
  BY <1>20 DEF SendData, SenderGoto, Attempted
<1>21. ASSUME PopMain PROVE ClosedClean'
  BY <1>21 DEF PopMain, SenderGoto, KeepMain
<1>22. ASSUME NextSync PROVE ClosedClean'
  BY <1>22 DEF NextSync, SenderGoto
<1>23. ASSUME SenderClose PROVE ClosedClean'
  BY <1>23 DEF SenderClose, SenderGoto, Shutdown
\* An invalid access that ends the process, the peer, and a step of nothing.
<1>24. ASSUME Abort PROVE ClosedClean'
  BY <1>24 DEF Abort
<1>25. ASSUME PeerAcks PROVE ClosedClean'
  BY <1>25 DEF PeerAcks, PeerSays
<1>26. ASSUME PeerSends PROVE ClosedClean'
  BY <1>26 DEF PeerSends, PeerSays
<1>27. ASSUME UNCHANGED vars PROVE ClosedClean'
  BY <1>27
<1> HIDE DEF ClientInv, ClosedClean, ThreadsReturned, UserFollowsThreads, PacketInHand,
             InPush, Pushers, queueVars, pushVars, flagVars, receiverVars, senderVars
<1> QED
  BY <1>1, <1>2, <1>3, <1>4, <1>5, <1>6, <1>7, <1>8, <1>9, <1>10, <1>11,
     <1>12, <1>13, <1>14, <1>15, <1>16, <1>17, <1>18, <1>19, <1>20,
     <1>21, <1>22, <1>23, <1>24, <1>25, <1>26, <1>27
  DEF Next, consoleThread, Operator, receiverThread, senderThread, Undefined, MainRace,
      SyncRace, Overread, SenderOverrun, Peer

-----------------------------------------------------------------------------
(* The invariant of every behaviour.                                       *)

\* It holds when init is about to create the threads.
LEMMA ClientInitial == ASSUME Init PROVE TypeOK /\ ClientInv
<1>1. ControlOK
  <2>1. started \in BOOLEAN /\ moved \in BOOLEAN /\ asks \in BOOLEAN
    BY Zenon DEF Init
  <2>2. inbox \in Seq(Messages) /\ Len(inbox) <= MaxInbox
    BY EmptySeq, ClientConstantsOK DEF Init
  <2> QED BY <2>1, <2>2, ClientConstantsOK
          DEF Init, ControlOK, UserLabels, ReceiverLabels, SenderLabels, Causes
<1>2. QueuesOK
  BY EmptySeq DEF Init, QueuesOK
<1>3. UserFollowsThreads /\ StatusFollowsThreads /\ PacketInHand
  BY DEF Init, UserFollowsThreads, StatusFollowsThreads, PacketInHand, InPush, Pushers
<1>4. /\ ErasesAcked /\ RetriedKept /\ ClosedClean /\ RetryKept
      /\ NewestAtBack /\ NewestSent
  BY DEF Init, ErasesAcked, RetriedKept, ClosedClean, RetryKept, NewestAtBack, NewestSent
<1> QED BY <1>1, <1>2, <1>3, <1>4 DEF TypeOK, ClientInv

\* A step of any thread, of the operator or of the peer keeps types and invariant.
LEMMA ClientStep == ASSUME TypeOK, ClientInv, [Next]_vars PROVE (TypeOK /\ ClientInv)'
<1>1. ThreadsOK' /\ MessagesOK' /\ QueuesOK'
  BY ThreadsStep, MessagesStep, QueuesStep
<1>2. TypeOK'
  BY <1>1 DEF TypeOK, ControlOK, ThreadsOK, MessagesOK
<1>3. /\ UserFollowsThreads' /\ StatusFollowsThreads' /\ PacketInHand' /\ ErasesAcked'
      /\ RetriedKept' /\ RetryKept' /\ NewestAtBack' /\ NewestSent' /\ ClosedClean'
  BY ThreadsInvStep, HandStep, ErasesStep, KeptStep, NewestStep, ClosedStep
<1> QED BY <1>2, <1>3 DEF ClientInv

\* What the theorems below have in common.
LEMMA ClientAlways == Spec => [](TypeOK /\ ClientInv)
<1>1. Init => TypeOK /\ ClientInv
  BY ClientInitial
<1>2. (TypeOK /\ ClientInv) /\ [Next]_vars => (TypeOK /\ ClientInv)'
  BY ClientStep
<1> QED BY <1>1, <1>2, PTL DEF Spec

\* Every variable of a client's session keeps its type: among them dataSocket's
\* status, which never falls below 0, and the queues, which hold packets only.
THEOREM ClientTypes == Spec => []TypeOK
<1> QED BY ClientAlways, PTL

\* The threads, the packet in each one's hand and the queues agree; handle_ack
\* erases the acknowledged packet unless the sender moved the elements meanwhile.
THEOREM ClientCorrect == Spec => []ClientInv
<1> QED BY ClientAlways, PTL

\* When disconnect() has returned both threads have, and the queues are empty.
THEOREM DisconnectLeavesNothing == Spec => []ClosedClean
<1>1. ClientInv => ClosedClean
  BY DEF ClientInv
<1> QED BY <1>1, ClientAlways, PTL

\* A packet that needs an ACK is kept for a retry until it is acknowledged, or lost
\* in a race of the two threads over syncPackets.
THEOREM RetriesAreKept == Spec => []RetryKept
<1>1. ClientInv => RetryKept
  BY DEF ClientInv
<1> QED BY <1>1, ClientAlways, PTL

\* The sender empties mainPackets only after the packet pushed last was handed to
\* send, for any packets and however the pushes of the two threads come in between.
THEOREM NewestIsHandedToSend == Spec => []NewestSent
<1>1. ClientInv => NewestSent
  BY DEF ClientInv
<1> QED BY <1>1, ClientAlways, PTL

-----------------------------------------------------------------------------
(* A session of the client looks like one of the server's pool.            *)

\* Every step of a session is a step of SessionLifecycle, or none.
LEMMA LifecycleStep ==
  ASSUME TypeOK, ClientInv, [Next]_vars
  PROVE  [Lifecycle!Next]_<<{"this"}, [c \in {"this"} |-> Phase]>>
<1> DEFINE Stays   == Phase' = Phase
           Stops   == Phase = "running" /\ Phase' = "failing"
           Ends    == Phase = "failing" /\ Phase' = "ended"
           Returns == Phase = "ended" /\ Phase' = "disconnected"
<1> SUFFICES Stays \/ Stops \/ Ends \/ Returns
  <2>1. Stops => Lifecycle!Stop("this")
    BY DEF Lifecycle!Stop, Lifecycle!Becomes
  <2>2. Ends => Lifecycle!End("this")
    BY DEF Lifecycle!End, Lifecycle!Becomes
  <2>3. Returns => Lifecycle!Disconnect("this")
    BY DEF Lifecycle!Disconnect, Lifecycle!Becomes
  <2> QED BY <2>1, <2>2, <2>3 DEF Lifecycle!Next
<1> USE DEF ClientInv, StatusFollowsThreads, UserFollowsThreads, ClosedClean,
            ThreadsReturned,
        Phase, Running, vars, queueVars, pushVars, flagVars, receiverVars, senderVars
\* The console's thread and the operator.
<1>1. ASSUME CreateThreads PROVE Stays \/ Stops \/ Ends \/ Returns
  BY <1>1 DEF CreateThreads, UserGoto
<1>2. ASSUME ConsoleTest PROVE Stays \/ Stops \/ Ends \/ Returns
  BY <1>2 DEF ConsoleTest, UserGoto
<1>3. ASSUME SendPacket PROVE Stays \/ Stops \/ Ends \/ Returns
  BY <1>3 DEF SendPacket, UserGoto, PushEnd
<1>4. ASSUME JoinReceiver PROVE Stays \/ Stops \/ Ends \/ Returns
  BY <1>4 DEF JoinReceiver, UserGoto
<1>5. ASSUME JoinSender PROVE Stays \/ Stops \/ Ends \/ Returns
  BY <1>5 DEF JoinSender, UserGoto
<1>6. ASSUME ClearQueues PROVE Stays \/ Stops \/ Ends \/ Returns
  BY <1>6 DEF ClearQueues, UserGoto
<1>7. ASSUME TypeSend PROVE Stays \/ Stops \/ Ends \/ Returns
  BY <1>7 DEF TypeSend, UserGoto, PushBegin
<1>8. ASSUME TypeOther PROVE Stays \/ Stops \/ Ends \/ Returns
  BY <1>8 DEF TypeOther, UserGoto
<1>9. ASSUME TypeClose PROVE Stays \/ Stops \/ Ends \/ Returns
  BY <1>9 DEF TypeClose, UserGoto
\* The receiver.
<1>10. ASSUME ReceiverTest PROVE Stays \/ Stops \/ Ends \/ Returns
  BY <1>10 DEF ReceiverTest, ReceiverGoto
<1>11. ASSUME ReceiveData PROVE Stays \/ Stops \/ Ends \/ Returns
  BY <1>11 DEF ReceiveData, ReceiverGoto, Breaks
<1>12. ASSUME HandleMessage PROVE Stays \/ Stops \/ Ends \/ Returns
  BY <1>12 DEF HandleMessage, Answer, ReceiverGoto, PushBegin
<1>13. ASSUME SendReply PROVE Stays \/ Stops \/ Ends \/ Returns
  BY <1>13 DEF SendReply, ReceiverGoto, PushEnd
<1>14. ASSUME FindAcked PROVE Stays \/ Stops \/ Ends \/ Returns
  BY <1>14 DEF FindAcked, Answer, ReceiverGoto, PushBegin
<1>15. ASSUME EraseAcked PROVE Stays \/ Stops \/ Ends \/ Returns
  BY <1>15 DEF EraseAcked, Answer, ReceiverGoto, PushBegin
<1>16. ASSUME ReceiverClose PROVE Stays \/ Stops \/ Ends \/ Returns
  <2> USE DEF ReceiverClose, ReceiverGoto, Shutdown
  <2>1. /\ receiver = "shutdown" /\ receiver' = "exit" /\ user # "closed"
        /\ UNCHANGED <<user, started, sender>>
    BY <1>16
  <2>2. status \in 0 .. 2 /\ status' \in 0 .. 2 /\ status' <= status
    BY <1>16 DEF TypeOK, ControlOK
  <2>3. Running' => Running
    BY <2>1, <2>2
  <2>4. CASE sender = "exit"
    <3>1. ~Running /\ ~ThreadsReturned /\ ThreadsReturned'
      BY <2>1, <2>4
    <3> HIDE DEF Running, ThreadsReturned
    <3> QED BY <2>1, <2>3, <3>1
  <2>5. CASE sender # "exit"
    <3>1. ~ThreadsReturned /\ ~ThreadsReturned'
      BY <2>1, <2>5
    <3> HIDE DEF Running, ThreadsReturned
    <3> QED BY <2>1, <2>3, <3>1
  <2> QED BY <2>4, <2>5
\* The sender.
<1>17. ASSUME SenderLoop PROVE Stays \/ Stops \/ Ends \/ Returns
  BY <1>17 DEF SenderLoop, SenderGoto
<1>18. ASSUME TakeMain PROVE Stays \/ Stops \/ Ends \/ Returns
  BY <1>18 DEF TakeMain, SenderGoto
<1>19. ASSUME TakeSync PROVE Stays \/ Stops \/ Ends \/ Returns
  BY <1>19 DEF TakeSync, SenderGoto
<1>20. ASSUME SendData PROVE Stays \/ Stops \/ Ends \/ Returns
  BY <1>20 DEF SendData, SenderGoto, Attempted
<1>21. ASSUME PopMain PROVE Stays \/ Stops \/ Ends \/ Returns
  BY <1>21 DEF PopMain, SenderGoto, KeepMain
<1>22. ASSUME NextSync PROVE Stays \/ Stops \/ Ends \/ Returns
  BY <1>22 DEF NextSync, SenderGoto
<1>23. ASSUME SenderClose PROVE Stays \/ Stops \/ Ends \/ Returns
  <2> USE DEF SenderClose, SenderGoto, Shutdown
  <2>1. /\ sender = "shutdown" /\ sender' = "exit" /\ user # "closed"
        /\ UNCHANGED <<user, started, receiver>>
    BY <1>23
  <2>2. status \in 0 .. 2 /\ status' \in 0 .. 2 /\ status' <= status
    BY <1>23 DEF TypeOK, ControlOK
  <2>3. Running' => Running
    BY <2>1, <2>2
  <2>4. CASE receiver = "exit"
    <3>1. ~Running /\ ~ThreadsReturned /\ ThreadsReturned'
      BY <2>1, <2>4
    <3> HIDE DEF Running, ThreadsReturned
    <3> QED BY <2>1, <2>3, <3>1
  <2>5. CASE receiver # "exit"
    <3>1. ~ThreadsReturned /\ ~ThreadsReturned'
      BY <2>1, <2>5
    <3> HIDE DEF Running, ThreadsReturned
    <3> QED BY <2>1, <2>3, <3>1
  <2> QED BY <2>4, <2>5
\* An invalid access that ends the process, the peer, and a step of nothing.
<1>24. ASSUME MainRace PROVE Stays \/ Stops \/ Ends \/ Returns
  BY <1>24 DEF MainRace, Abort, Pushers, InPush
<1>25. ASSUME SyncRace \/ Overread PROVE Stays \/ Stops \/ Ends \/ Returns
  BY <1>25 DEF SyncRace, Overread, Abort, SenderEdits
<1>26. ASSUME SenderOverrun PROVE Stays \/ Stops \/ Ends \/ Returns
  BY <1>26 DEF SenderOverrun, Abort
<1>27. ASSUME PeerAcks PROVE Stays \/ Stops \/ Ends \/ Returns
  BY <1>27 DEF PeerAcks, PeerSays
<1>28. ASSUME PeerSends PROVE Stays \/ Stops \/ Ends \/ Returns
  BY <1>28 DEF PeerSends, PeerSays
<1>29. ASSUME UNCHANGED vars PROVE Stays \/ Stops \/ Ends \/ Returns
  BY <1>29
<1> HIDE DEF ClientInv, StatusFollowsThreads, UserFollowsThreads, ClosedClean,
             ThreadsReturned, Phase, Running, queueVars, pushVars, flagVars,
             receiverVars, senderVars
<1> QED
  BY <1>1, <1>2, <1>3, <1>4, <1>5, <1>6, <1>7, <1>8, <1>9, <1>10, <1>11,
     <1>12, <1>13, <1>14, <1>15, <1>16, <1>17, <1>18, <1>19, <1>20,
     <1>21, <1>22, <1>23, <1>24, <1>25, <1>26, <1>27, <1>28, <1>29
  DEF Next, consoleThread, Operator, receiverThread, senderThread, Undefined, Peer

\* A session of the client stops once, both threads return and disconnect() after
\* them, as SessionLifecycle says.
THEOREM ClientImplementsLifecycle == Spec => ImplementsLifecycle
<1>1. Init => Lifecycle!Init
  BY DEF Init, Lifecycle!Init, Phase, Running
<1>2. TypeOK /\ ClientInv /\ [Next]_vars
        => [Lifecycle!Next]_<<{"this"}, [c \in {"this"} |-> Phase]>>
  BY LifecycleStep
<1> QED BY <1>1, <1>2, ClientAlways, PTL DEF Spec, ImplementsLifecycle, Lifecycle!Spec

=============================================================================
