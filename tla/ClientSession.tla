---------------------------- MODULE ClientSession ----------------------------
(***************************************************************************)
(* A session of the client from createThreads() on: receiverThread,        *)
(* senderThread and disconnect of Client/Client.cpp, the packet handler of *)
(* Handler.cpp, Socket::shutdown and the command loop of Client/main.cpp.  *)
(*                                                                         *)
(* ClientStart shows that init never gets as far at this commit, and       *)
(* nothing connects dataSocket; here it is connected, and every call of    *)
(* recv, send and shutdown may have any of its outcomes.                   *)
(*                                                                         *)
(* No queue has a lock.  mainPackets is pushed into by the console and by  *)
(* the receiver's replies and popped by the sender; syncPackets is grown   *)
(* and walked by the sender while the receiver erases from it.  A race is  *)
(* harmless, or loses an element, or ends the process.                     *)
(***************************************************************************)
EXTENDS PacketFormat, Queues

CONSTANTS
  Packets,      \* the packets pushed by the console, each once
  NeedACK,      \* those whose needACK is set
  Frames,       \* what data_size and recv may say of a message of the peer
  MaxInbox,     \* bound: messages of the peer waiting on dataSocket
  MaxMessages   \* bound: messages of the peer that are no ACK or ask for one

Reply    == "reply"      \* the ACK of handle_packet; it needs no ACK itself
Text     == "text"       \* DT_MSG, DT_AUTH_SERVER, DT_EMPTY
Unknown  == "unknown"    \* any other type, or an ACK that is too short
NoPacket == "no packet"

ASSUME ClientConstantsOK ==
  /\ NeedACK \subseteq Packets
  /\ {Reply, Text, Unknown, NoPacket} \cap Packets = {}
  /\ Frames \subseteq [dataSize : Nat, respSize : Nat]
  /\ MaxInbox \in Nat
  /\ MaxMessages \in Nat

VARIABLES
  user,         \* what the console's thread does next
  receiver,     \* what receiverThread does next
  sender,       \* what senderThread does next
  started,      \* Client::started
  status,       \* dataSocket.status; authSocket.status stays 2
  peer,         \* delivered packets to acknowledge, messages that MaxMessages bounds
  inbox,        \* messages waiting on dataSocket; a packet stands for its ACK
  message,      \* the message the receiver handles, or NoPacket
  asks,         \* its needACK
  found,        \* acked_packet of handle_ack: an index of syncPackets, 0 none
  moved,        \* syncPackets changed since then
  cause,        \* ghost: why the receiver broke off its loop
  mainPackets,  \* Client::mainPackets
  syncPackets,  \* Client::syncPackets
  current,      \* the sender's packet, or NoPacket
  retrying,     \* 0 in the loop over mainPackets, else packetIt in syncPackets
  pushing,      \* the packet each thread is pushing into mainPackets
  raced,        \* the threads whose push ran beside another use
  history       \* ghost: pushed, attempted and acked packets, ones lost in a race,
                \* and the one that a push left in mainPackets last

receiverVars == <<message, asks, found, cause>>
senderVars   == <<current, retrying>>
pushVars     == <<pushing, raced>>
flagVars     == <<started, status>>
queueVars    == <<mainPackets, syncPackets>>
vars == <<user, receiver, sender, flagVars, peer, inbox, receiverVars, moved, queueVars,
          senderVars, pushVars, history>>

Pushers == {"user", "receiver"}

Running == started /\ status = 2
Alive   == user # "aborted"

\* An invalid access ends the process.
Abort ==
  /\ Alive
  /\ user' = "aborted"
  /\ UNCHANGED <<receiver, sender, flagVars, peer, inbox, receiverVars, moved, queueVars,
                 senderVars, pushVars, history>>

-----------------------------------------------------------------------------
(* sendPacket: mainPackets.push, by the console and by handle_packet.      *)

InPush(t) == pushing[t] # NoPacket

PushBegin(t, p) == pushing' = [pushing EXCEPT ![t] = p] /\ UNCHANGED raced

\* Beside another push or a pop the new element may be left out of the size.
PushEnd(t) ==
  LET others == {u \in Pushers \ {t} : InPush(u)}
  IN  /\ \/ /\ mainPackets' = Append(mainPackets, pushing[t])
            /\ history' = [history EXCEPT !.newest = pushing[t]]
         \/ /\ t \in raced \/ others # {}
            /\ history' = [history EXCEPT !.lost = @ \cup {pushing[t]}]
            /\ UNCHANGED mainPackets
      /\ pushing' = [pushing EXCEPT ![t] = NoPacket]
      /\ raced' = (raced \ {t}) \cup others

-----------------------------------------------------------------------------
(* The console's thread: the end of init, the command loop and disconnect. *)

UserGoto(from, to) ==
  /\ user = from
  /\ user' = to
  /\ UNCHANGED <<status, peer, inbox, receiverVars, senderVars, moved>>

CreateThreads ==
  /\ \/ UserGoto("spawn_receiver", "spawn_sender") /\ receiver' = "loop" /\ UNCHANGED sender
     \/ UserGoto("spawn_sender", "test") /\ sender' = "loop" /\ UNCHANGED receiver
  /\ UNCHANGED <<started, queueVars, pushVars, history>>

\* The loop tests isRunning() before each command only; disconnect() follows it.
ConsoleTest ==
  /\ IF Running
     THEN UserGoto("test", "typing") /\ UNCHANGED started
     ELSE UserGoto("test", "join_receiver") /\ started' = FALSE
  /\ UNCHANGED <<receiver, sender, queueVars, pushVars, history>>

\* What the operator types: send, any other word, close.
TypeSend ==
  /\ UserGoto("typing", "push")
  /\ \E p \in Packets \ history.pushed :
       /\ PushBegin("user", p)
       /\ history' = [history EXCEPT !.pushed = @ \cup {p}]
  /\ UNCHANGED <<receiver, sender, started, queueVars>>

TypeOther ==
  /\ UserGoto("typing", "test")
  /\ UNCHANGED <<receiver, sender, started, queueVars, pushVars, history>>

TypeClose ==
  /\ UserGoto("typing", "join_receiver")
  /\ started' = FALSE
  /\ UNCHANGED <<receiver, sender, queueVars, pushVars, history>>

SendPacket ==
  /\ UserGoto("push", "test")
  /\ PushEnd("user")
  /\ UNCHANGED <<receiver, sender, started, syncPackets>>

JoinReceiver ==
  /\ receiver = "exit"
  /\ UserGoto("join_receiver", "join_sender")
  /\ UNCHANGED <<receiver, sender, started, queueVars, pushVars, history>>

\* Mutant: disconnect does not join the sender.
BugJoinSender ==
  /\ UserGoto("join_sender", "clear")
  /\ UNCHANGED <<receiver, sender, started, queueVars, pushVars, history>>

JoinSender ==
  /\ sender = "exit"
  /\ UserGoto("join_sender", "clear")
  /\ UNCHANGED <<receiver, sender, started, queueVars, pushVars, history>>

\* Both sockets are closed, and the queues emptied.
ClearQueues ==
  /\ UserGoto("clear", "closed")
  /\ mainPackets' = <<>>
  /\ syncPackets' = <<>>
  /\ UNCHANGED <<receiver, sender, started, pushVars, history>>

-----------------------------------------------------------------------------
(* receiverThread: handlePacketIn, receiveData and Handler::handle_packet. *)

ReceiverGoto(from, to) ==
  /\ Alive
  /\ receiver = from
  /\ receiver' = to
  /\ UNCHANGED <<user, sender, started, peer, senderVars>>

\* The loops of receiverThread and of receiveData test isRunning() each.
ReceiverTest ==
  /\ \/ ReceiverGoto("loop", IF Running THEN "test" ELSE "shutdown")
     \/ ReceiverGoto("test", IF Running THEN "recv" ELSE "loop")
  /\ UNCHANGED <<status, inbox, receiverVars, moved, queueVars, pushVars, history>>

Breaks(why) == cause' = why /\ UNCHANGED <<message, asks, found>>

\* A message is stored, and then refused unless it fits; WSAETIMEDOUT;
\* WSAEMSGSIZE; and every error, the end of the connection among them.
ReceiveData ==
  /\ \/ /\ inbox # <<>>
        /\ inbox' = Tail(inbox)
        /\ \E f \in Frames :
             \/ /\ SizeAccepted(f)
                /\ ReceiverGoto("recv", "handle")
                /\ message' = Head(inbox).says
                /\ asks' = Head(inbox).asks
                /\ UNCHANGED <<found, cause>>
             \/ ~SizeAccepted(f) /\ ReceiverGoto("recv", "shutdown") /\ Breaks("error")
     \/ ReceiverGoto("recv", "test") /\ UNCHANGED <<inbox, receiverVars>>
     \/ ReceiverGoto("recv", "loop") /\ UNCHANGED <<inbox, receiverVars>>
     \/ ReceiverGoto("recv", "shutdown") /\ Breaks("lost") /\ UNCHANGED inbox
  /\ UNCHANGED <<status, moved, queueVars, pushVars, history>>

\* The end of handle_packet: a message that asks for an ACK is answered, whatever
\* came of it, an unknown one and an ACK too.
Answer(from, to) ==
  /\ IF asks THEN ReceiverGoto(from, "reply") /\ PushBegin("receiver", Reply)
             ELSE ReceiverGoto(from, to) /\ UNCHANGED pushVars
  /\ message' = NoPacket
  /\ asks' = FALSE

\* A message that is no ACK is printed, or refused.
HandleMessage ==
  /\ message \in {Text, Unknown}
  /\ cause' = IF message = Unknown THEN "error" ELSE cause
  /\ Answer("handle", IF message = Unknown THEN "shutdown" ELSE "loop")
  /\ UNCHANGED <<status, inbox, found, moved, queueVars, history>>

SendReply ==
  /\ ReceiverGoto("reply", IF cause = "none" THEN "loop" ELSE "shutdown")
  /\ PushEnd("receiver")
  /\ UNCHANGED <<status, inbox, receiverVars, moved, syncPackets>>

\* Mutant: the comparison of find_if is inverted.
BugIsFirst(q, p, i) == q[i] # p /\ \A j \in 1 .. i - 1 : q[j] = p

\* What find_if answers: the first element with the acknowledged ID.
IsFirst(q, p, i) == q[i] = p /\ \A j \in 1 .. i - 1 : q[j] # p

\* handle_ack up to the comparison with end().
FindAcked ==
  /\ message \in Packets
  /\ \/ \E i \in DOMAIN syncPackets :
          /\ IsFirst(syncPackets, message, i)
          /\ ReceiverGoto("handle", "erase")
          /\ found' = i
          /\ moved' = FALSE
          /\ UNCHANGED <<message, asks, cause, pushVars>>
     \/ /\ message \notin Elements(syncPackets)
        /\ Answer("handle", "shutdown")
        /\ cause' = "error"
        /\ UNCHANGED <<found, moved>>
  /\ UNCHANGED <<status, inbox, queueVars, history>>

\* erase(acked_packet).  When the sender has moved the elements since, it takes
\* whatever is there now, or works on storage that is no longer the vector's.
EraseAcked ==
  /\ Answer("erase", "loop")
  /\ \/ /\ found <= Len(syncPackets)
        /\ syncPackets' = WithoutAt(syncPackets, found)
        /\ history' = [history EXCEPT !.acked = @ \cup {message},
                                      !.lost = @ \cup ({syncPackets[found]} \ {message})]
     \/ /\ moved
        /\ history' = [history EXCEPT !.acked = @ \cup {message}]
        /\ UNCHANGED syncPackets
  /\ found' = 0
  /\ moved' = FALSE
  /\ UNCHANGED <<cause, status, inbox, mainPackets>>

\* Mutant: shutdown counts both directions.
BugShutdown == status' \in {status, status - 2}

\* Socket::shutdown counts the direction only if ::shutdown succeeded.
Shutdown == status' \in {status, IF status > 0 THEN status - 1 ELSE 0}

ReceiverClose ==
  /\ ReceiverGoto("shutdown", "exit")
  /\ Shutdown
  /\ UNCHANGED <<inbox, receiverVars, moved, queueVars, pushVars, history>>

-----------------------------------------------------------------------------
(* senderThread, with handlePacketOut and sendData.                        *)

SenderGoto(from, to) ==
  /\ Alive
  /\ sender = from
  /\ sender' = to
  /\ UNCHANGED <<user, receiver, started, inbox, receiverVars, pushing>>

\* Mutant: the sender's loop tests only the flag.
BugSenderLoop ==
  /\ \/ SenderGoto("loop", IF started THEN "main" ELSE "shutdown")
     \/ SenderGoto("sleep", "loop")
  /\ UNCHANGED <<status, peer, moved, queueVars, senderVars, raced, history>>

SenderLoop ==
  /\ \/ SenderGoto("loop", IF Running THEN "main" ELSE "shutdown")
     \/ SenderGoto("sleep", "loop")
  /\ UNCHANGED <<status, peer, moved, queueVars, senderVars, raced, history>>

\* The loop over mainPackets sends back(), the newest packet, and pops the front.
TakeMain ==
  /\ IF mainPackets # <<>>
     THEN /\ SenderGoto("main", "send")
          /\ current' = mainPackets[Len(mainPackets)]
          /\ UNCHANGED retrying
     ELSE SenderGoto("main", "sync") /\ retrying' = 1 /\ UNCHANGED current
  /\ UNCHANGED <<status, peer, moved, queueVars, raced, history>>

\* The loop over syncPackets ends at end(), wherever that is by now.
TakeSync ==
  /\ \/ /\ retrying <= Len(syncPackets)
        /\ SenderGoto("sync", "send")
        /\ current' = syncPackets[retrying]
        /\ UNCHANGED retrying
     \/ /\ retrying = Len(syncPackets) + 1
        /\ SenderGoto("sync", "sleep")
        /\ retrying' = 0
        /\ UNCHANGED current
  /\ UNCHANGED <<status, peer, moved, queueVars, raced, history>>

Attempted == history' = [history EXCEPT !.attempted = @ \cup {current}]

\* Mutant: handlePacketOut returns CE_OK for every packet it sent.
BugSendData ==
  /\ \/ SenderGoto("send", "kept") /\ UNCHANGED peer
     \/ SenderGoto("send", "sent") /\ UNCHANGED peer
  /\ Attempted
  /\ UNCHANGED <<status, moved, queueVars, senderVars, raced>>

\* CE_HANDLE_OUT_SEND and CW_NEED_ACK both keep the packet; a packet that was
\* sent may reach the peer.
SendData ==
  /\ \/ SenderGoto("send", "kept") /\ UNCHANGED peer
     \/ /\ SenderGoto("send", IF current \in NeedACK THEN "kept" ELSE "sent")
        /\ peer' = [peer EXCEPT !.unanswered = @ \cup ({current} \cap NeedACK)]
  /\ Attempted
  /\ UNCHANGED <<status, moved, queueVars, senderVars, raced>>

\* push_back beside the receiver's erase may lose the new element.
KeepMain ==
  /\ sender = "kept"
  /\ \/ syncPackets' = Append(syncPackets, current) /\ UNCHANGED history
     \/ /\ receiver = "erase"
        /\ history' = [history EXCEPT !.lost = @ \cup {current}]
        /\ UNCHANGED syncPackets
  /\ moved' = (receiver = "erase")

\* Mutant: the packet that back() found is expected at the back still.
BugPopMain ==
  /\ retrying = 0
  /\ \/ SenderGoto("kept", "main") /\ KeepMain
     \/ SenderGoto("sent", "main") /\ UNCHANGED <<syncPackets, moved, history>>
  /\ mainPackets' = SubSeq(mainPackets, 1, Len(mainPackets) - 1)
  /\ raced' = {t \in Pushers : InPush(t)}
  /\ current' = NoPacket
  /\ UNCHANGED <<status, peer, retrying>>

\* The end of the body of the first loop: pop() takes the front.
PopMain ==
  /\ retrying = 0
  /\ \/ SenderGoto("kept", "main") /\ KeepMain
     \/ SenderGoto("sent", "main") /\ UNCHANGED <<syncPackets, moved, history>>
  /\ mainPackets' = Tail(mainPackets)
  /\ raced' = {t \in Pushers : InPush(t)}
  /\ current' = NoPacket
  /\ UNCHANGED <<status, peer, retrying>>

\* The end of the body of the second loop.  The receiver may have erased an
\* element before packetIt, which then is the next one's position, or end()'s.
NextSync ==
  /\ retrying > 0
  /\ \/ /\ SenderGoto("kept", "sync")
        /\ retrying' = retrying + 1
        /\ UNCHANGED <<syncPackets, moved, history>>
     \/ /\ retrying <= Len(syncPackets)
        /\ SenderGoto("sent", "sync")
        /\ syncPackets' = WithoutAt(syncPackets, retrying)
        /\ history' = [history EXCEPT !.lost = @ \cup ({syncPackets[retrying]} \ {current})]
        /\ moved' = (receiver = "erase")
        /\ UNCHANGED retrying
  /\ current' = NoPacket
  /\ UNCHANGED <<status, peer, mainPackets, raced>>

SenderEdits ==
  \/ sender = "kept" /\ retrying = 0
  \/ sender = "sent" /\ retrying > 0

\* The receiver took an element from under packetIt, which is beyond end() now.
SenderOverrun ==
  /\ \/ sender = "sync" /\ retrying > Len(syncPackets) + 1
     \/ sender = "sent" /\ retrying > Len(syncPackets)
  /\ Abort

SenderClose ==
  /\ SenderGoto("shutdown", "exit")
  /\ Shutdown
  /\ UNCHANGED <<peer, moved, queueVars, senderVars, raced, history>>

-----------------------------------------------------------------------------
(* The races and the reads that end the process.                           *)

\* Two pushes, or empty(), back() or pop() beside a push.
MainRace ==
  /\ \E t \in Pushers :
       /\ InPush(t)
       /\ \/ \E u \in Pushers \ {t} : InPush(u)
          \/ sender = "main"
          \/ sender \in {"kept", "sent"} /\ retrying = 0
  /\ Abort

\* push_back or erase beside handle_ack's find_if or erase.
SyncRace ==
  /\ \/ receiver = "handle" /\ message \in Packets /\ SenderEdits
     \/ receiver = "erase" /\ (moved \/ SenderEdits \/ sender = "sync")
  /\ Abort

\* recv may return fewer bytes than the headers have, and a message is accepted
\* only when data_size is all that recv returned, headers included: the headers,
\* the text printed or the acknowledged ID may lie past the packet's end.
Overread == receiver = "handle" /\ Abort

-----------------------------------------------------------------------------
(* The server at the other end, over a connection that keeps the order.    *)

PeerSays(m) ==
  /\ Alive
  /\ Len(inbox) < MaxInbox
  /\ inbox' = Append(inbox, m)
  /\ UNCHANGED <<user, receiver, sender, flagVars, receiverVars, moved, queueVars,
                 senderVars, pushVars, history>>

\* Each packet delivered is acknowledged at most once, a repeated one again.
PeerAcks ==
  \E p \in peer.unanswered :
    \/ /\ PeerSays([says |-> p, asks |-> FALSE])
       /\ peer' = [peer EXCEPT !.unanswered = @ \ {p}]
    \/ /\ peer.messages < MaxMessages
       /\ PeerSays([says |-> p, asks |-> TRUE])
       /\ peer' = [peer EXCEPT !.unanswered = @ \ {p}, !.messages = @ + 1]

PeerSends ==
  /\ peer.messages < MaxMessages
  /\ \E m \in [says : {Text, Unknown}, asks : BOOLEAN] : PeerSays(m)
  /\ peer' = [peer EXCEPT !.messages = @ + 1]

-----------------------------------------------------------------------------
\* init is about to call createThreads().
Init ==
  /\ user = "spawn_receiver"
  /\ receiver = "none" /\ sender = "none"
  /\ started = TRUE /\ status = 2
  /\ peer = [unanswered |-> {}, messages |-> 0]
  /\ inbox = <<>>
  /\ message = NoPacket /\ asks = FALSE /\ found = 0 /\ moved = FALSE /\ cause = "none"
  /\ mainPackets = <<>> /\ syncPackets = <<>>
  /\ current = NoPacket /\ retrying = 0
  /\ pushing = [t \in Pushers |-> NoPacket]
  /\ raced = {}
  /\ history = [pushed |-> {}, attempted |-> {}, acked |-> {}, lost |-> {},
                newest |-> NoPacket]

\* What the console's thread does without the operator.
consoleThread == CreateThreads \/ ConsoleTest \/ SendPacket \/ JoinReceiver
                   \/ JoinSender \/ ClearQueues
Operator == TypeSend \/ TypeOther \/ TypeClose

receiverThread == ReceiverTest \/ ReceiveData \/ HandleMessage \/ SendReply
                    \/ FindAcked \/ EraseAcked \/ ReceiverClose

senderThread == SenderLoop \/ TakeMain \/ TakeSync \/ SendData \/ PopMain \/ NextSync
                  \/ SenderOverrun \/ SenderClose

Undefined == MainRace \/ SyncRace \/ Overread

Peer == PeerAcks \/ PeerSends

Next == consoleThread \/ Operator \/ receiverThread \/ senderThread \/ Undefined \/ Peer

Spec == Init /\ [][Next]_vars

\* Threads are scheduled, and recv and send return within the socket's timeouts.
FairSpec ==
  /\ Spec
  /\ WF_vars(consoleThread)
  /\ WF_vars(receiverThread)
  /\ WF_vars(senderThread)

-----------------------------------------------------------------------------
(* What is checked.                                                        *)

UserLabels == {"spawn_receiver", "spawn_sender", "test", "typing", "push",
               "join_receiver", "join_sender", "clear", "closed", "aborted"}
ReceiverLabels == {"none", "loop", "test", "recv", "handle", "erase", "reply",
                   "shutdown", "exit"}
SenderLabels == {"none", "loop", "main", "sync", "sleep", "send", "kept", "sent",
                 "shutdown", "exit"}
Causes == {"none", "lost", "error"}
Sendable == Packets \cup {Reply}
Messages == [says : Packets \cup {Text, Unknown}, asks : BOOLEAN]

ControlOK ==
  /\ user \in UserLabels /\ receiver \in ReceiverLabels /\ sender \in SenderLabels
  /\ started \in BOOLEAN /\ status \in 0 .. 2
  /\ peer \in [unanswered : SUBSET NeedACK, messages : 0 .. MaxMessages]
  /\ inbox \in Seq(Messages) /\ Len(inbox) <= MaxInbox
  /\ message \in Packets \cup {Text, Unknown, NoPacket} /\ asks \in BOOLEAN
  /\ found \in Nat /\ moved \in BOOLEAN /\ cause \in Causes

QueuesOK ==
  /\ mainPackets \in Seq(Sendable) /\ syncPackets \in Seq(Sendable)
  /\ current \in Sendable \cup {NoPacket} /\ retrying \in Nat
  /\ pushing \in [Pushers -> Sendable \cup {NoPacket}] /\ raced \subseteq Pushers
  /\ history \in [pushed : SUBSET Packets, attempted : SUBSET Sendable,
                  acked : SUBSET Packets, lost : SUBSET Sendable,
                  newest : Sendable \cup {NoPacket}]

TypeOK == ControlOK /\ QueuesOK

ThreadsReturned == receiver = "exit" /\ sender = "exit"

\* After disconnect() no thread is left, nothing is being pushed, and no packet
\* waits for the next session.
ClosedClean ==
  user = "closed" =>
    /\ ThreadsReturned /\ ~started
    /\ mainPackets = <<>> /\ syncPackets = <<>>
    /\ \A t \in Pushers : ~InPush(t)

\* handlePacketOut keeps a packet that needs an ACK: once tried it stays in
\* syncPackets until handle_ack takes it out, or a race of the two threads does,
\* and never because send worked.
RetryKept ==
  user # "closed" =>
    history.attempted \cap NeedACK
      \subseteq history.acked \cup history.lost \cup Elements(syncPackets) \cup {current}

\* Although back() is what is sent and the front what is popped, with the console
\* and the receiver pushing in between, the sender comes to the end of its loop over
\* mainPackets only when the packet pushed last was handed to send.
NewestSent ==
  user # "closed" /\ mainPackets = <<>> =>
    history.newest \in history.attempted \cup {NoPacket}

\* disconnect() joins the threads in order.
UserFollowsThreads ==
  /\ user = "spawn_receiver" => receiver = "none" /\ sender = "none"
  /\ user = "spawn_sender" => sender = "none"
  /\ user \in {"join_receiver", "join_sender", "clear", "closed"} => ~started
  /\ user \in {"join_sender", "clear", "closed"} => receiver = "exit"
  /\ user \in {"clear", "closed"} => sender = "exit"
  /\ InPush("user") => user \in {"push", "aborted"}
  /\ user = "push" => InPush("user")

\* A direction is counted as closed by its own thread, as that returns, and the
\* sender returns from a session that has stopped.
StatusFollowsThreads ==
  /\ receiver # "exit" /\ sender # "exit" => status = 2
  /\ receiver # "exit" \/ sender # "exit" => status >= 1
  /\ sender \in {"shutdown", "exit"} => ~Running

\* pop() finds a packet; the receiver answers one message at a time.
PacketInHand ==
  /\ sender \in {"send", "kept", "sent"} <=> current # NoPacket
  /\ sender = "sent" => current \notin NeedACK
  /\ current # NoPacket /\ retrying = 0 => mainPackets # <<>>
  /\ sender = "sync" => retrying > 0
  /\ retrying > 0 => sender \in {"sync", "send", "kept", "sent"}
  /\ receiver = "reply" <=> InPush("receiver")
  /\ receiver \in {"handle", "erase"} <=> message # NoPacket

\* handle_ack erases the acknowledged packet, however the sender grows and walks
\* syncPackets meanwhile, unless it changed it between find_if and erase.
ErasesAcked ==
  receiver = "erase" =>
    /\ message \in Packets /\ found > 0
    /\ ~moved => found <= Len(syncPackets) /\ syncPackets[found] = message

\* A packet under way from syncPackets is still there, unless handle_ack or a race
\* took it out since the sender read it.
RetriedKept ==
  retrying > 0 /\ current \in NeedACK =>
    current \in history.acked \cup history.lost \cup Elements(syncPackets)

\* The packet pushed last stays at the back of mainPackets.  What pop() takes when
\* it empties the queue is the packet the sender holds, which send was given.
NewestAtBack ==
  /\ mainPackets # <<>> => mainPackets[Len(mainPackets)] = history.newest
  /\ current # NoPacket /\ retrying = 0 /\ Len(mainPackets) = 1 => mainPackets[1] = current
  /\ sender \in {"kept", "sent"} => current \in history.attempted

\* The inductive invariant of ClientProofs.
ClientInv ==
  /\ UserFollowsThreads /\ StatusFollowsThreads /\ PacketInHand /\ ErasesAcked
  /\ RetriedKept /\ ClosedClean /\ RetryKept /\ NewestAtBack /\ NewestSent

\* A session of the client, too, looks like SessionLifecycle: it stops once, both
\* threads return, and disconnect() returns after them.
Phase == IF user = "closed" THEN "disconnected"
         ELSE IF Running THEN "running"
         ELSE IF ThreadsReturned THEN "ended" ELSE "failing"
Lifecycle == INSTANCE SessionLifecycle WITH
               Clients <- {"this"},
               pool    <- {"this"},
               session <- [c \in {"this"} |-> Phase]
ImplementsLifecycle == Lifecycle!Spec

\* When isRunning() turns FALSE, by close or by a shutdown that was counted, both
\* threads return, whatever the packets in the queues.
StoppedSessionEnds == ~Running ~> ThreadsReturned \/ user = "aborted"

\* The comments in receiverThread: it breaks for a critical error or a lost
\* connection, and after a packet that failed it goes on receiving.
BreaksOnlyWhenLost == cause \in {"none", "lost"}

=============================================================================
