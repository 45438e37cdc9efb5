-------------------------- MODULE ConnectedClient ---------------------------
(***************************************************************************)
(* One session of the server, Server/ConnectedClient.cpp: its receiver and *)
(* sender threads, its two sockets and its packet queues, and the code     *)
(* that uses it from outside under Server::clients_mutex, one call at a    *)
(* time: createThreads, sendPacket (by send and send_all) and disconnect   *)
(* (by the cleaner, the clean command and the destructor).                 *)
(*                                                                         *)
(* No queue of a session has a lock.  A push into mainPackets beside the   *)
(* sender's use of it, and two threads in receivedPackets.push_back, are   *)
(* data races: the outcomes taken are none, an element the queue's size    *)
(* does not count, and an invalid access that ends the process.            *)
(***************************************************************************)
EXTENDS Queues

CONSTANTS
  Packets,   \* the packets pushed into mainPackets, each once
  NeedACK,   \* those whose needACK is set
  MaxInbox   \* bound: messages of the peer waiting on readSocket

NoPacket == "no packet"

ASSUME ConstantsOK ==
  /\ NeedACK \subseteq Packets
  /\ NoPacket \notin Packets
  /\ MaxInbox \in Nat

VARIABLES
  user,          \* what the code outside does next
  receiver,      \* what receiverThread does next
  sender,        \* what senderThread does next
  started,       \* ConnectedClient::started
  disconnected,  \* ConnectedClient::disconnected
  readSocket,    \* "open", "closed" while the member still names it, "invalid"
  writeSocket,   \* the same
  inbox,         \* messages waiting on readSocket
  mainPackets,   \* ConnectedClient::mainPackets
  syncPackets,   \* ConnectedClient::syncPackets
  current,       \* the sender's packet, or NoPacket
  retrying,      \* 0 in the loop over mainPackets, else packetIt in syncPackets
  pushing,       \* the packet of the sendPacket under way, or NoPacket
  raced,         \* a pop ran beside that push
  history        \* ghost: what was pushed, lost, handed to send, confirmed

queueVars  == <<mainPackets, syncPackets, current, retrying>>
pushVars   == <<pushing, raced>>
socketVars == <<readSocket, writeSocket, inbox>>
flagVars   == <<started, disconnected>>
vars == <<user, receiver, sender, flagVars, socketVars, queueVars, pushVars, history>>

UserLabels == {"spawn_receiver", "spawn_sender", "idle", "chosen", "push",
               "join_receiver", "join_sender", "clear"}
ReceiverLabels == {"none", "loop", "test", "recv", "store", "shutdown", "reset", "exit"}
SenderLabels == {"none", "loop", "main", "send", "test", "recv", "store", "confirmed",
                 "unconfirmed", "sync", "sleep", "shutdown", "reset", "exit"}
SocketStates == {"open", "closed", "invalid"}

\* isRunning() reads the flag and the two members, not the handles' state.
Running == started /\ readSocket # "invalid" /\ writeSocket # "invalid"

Alive == user # "aborted"

\* An invalid access ends the process.
Abort ==
  /\ user' = "aborted"
  /\ UNCHANGED <<receiver, sender, flagVars, socketVars, queueVars, pushVars, history>>

-----------------------------------------------------------------------------
(* The code outside.                                                       *)

SpawnReceiver ==
  /\ user = "spawn_receiver"
  /\ user' = "spawn_sender"
  /\ receiver' = "loop"
  /\ UNCHANGED <<sender, flagVars, socketVars, queueVars, pushVars, history>>

SpawnSender ==
  /\ user = "spawn_sender"
  /\ user' = "idle"
  /\ sender' = "loop"
  /\ UNCHANGED <<receiver, flagVars, socketVars, queueVars, pushVars, history>>

\* findClient and processClientsByPair take running sessions; Server::send then
\* lets the operator type before it pushes.
ChooseSession ==
  /\ user = "idle"
  /\ Running
  /\ user' = "chosen"
  /\ UNCHANGED <<receiver, sender, flagVars, socketVars, queueVars, pushVars, history>>

SendPacketBegin ==
  /\ user = "chosen"
  /\ \E p \in Packets \ Elements(history.pushed) :
       /\ pushing' = p
       /\ history' = [history EXCEPT !.pushed = Append(@, p)]
  /\ raced' = FALSE
  /\ user' = "push"
  /\ UNCHANGED <<receiver, sender, flagVars, socketVars, queueVars>>

\* std::queue::push returns.  Beside a pop the two updates of the size may leave
\* the new element out of it.
SendPacketEnd ==
  /\ user = "push"
  /\ \/ mainPackets' = Append(mainPackets, pushing) /\ UNCHANGED history
     \/ /\ raced
        /\ history' = [history EXCEPT !.lost = @ \cup {pushing}]
        /\ UNCHANGED mainPackets
  /\ pushing' = NoPacket
  /\ raced' = FALSE
  /\ user' = "idle"
  /\ UNCHANGED <<receiver, sender, flagVars, socketVars, syncPackets, current, retrying>>

\* disconnect(), by the cleaner for a session that stopped running and by the
\* destructor for any; a second call returns at once.
Disconnect ==
  /\ user = "idle"
  /\ started /\ ~disconnected
  /\ started' = FALSE
  /\ user' = "join_receiver"
  /\ UNCHANGED <<receiver, sender, disconnected, socketVars, queueVars, pushVars, history>>

JoinReceiver ==
  /\ user = "join_receiver"
  /\ receiver = "exit"
  /\ user' = "join_sender"
  /\ UNCHANGED <<receiver, sender, flagVars, socketVars, queueVars, pushVars, history>>

\* Mutant: disconnect does not join the sender.
BugJoinSender ==
  /\ user = "join_sender"
  /\ user' = "clear"
  /\ UNCHANGED <<receiver, sender, flagVars, socketVars, queueVars, pushVars, history>>

JoinSender ==
  /\ user = "join_sender"
  /\ sender = "exit"
  /\ user' = "clear"
  /\ UNCHANGED <<receiver, sender, flagVars, socketVars, queueVars, pushVars, history>>

ClearQueues ==
  /\ user = "clear"
  /\ mainPackets' = <<>>
  /\ syncPackets' = <<>>
  /\ disconnected' = TRUE
  /\ user' = "idle"
  /\ UNCHANGED <<receiver, sender, started, socketVars, current, retrying, pushVars, history>>

-----------------------------------------------------------------------------
(* receiverThread, with handlePacketIn and receiveData(packet, false).     *)

ReceiverGoto(from, to) ==
  /\ Alive
  /\ receiver = from
  /\ receiver' = to
  /\ UNCHANGED <<user, sender, flagVars, queueVars, pushVars, history>>

\* The loops of receiverThread and of receiveData test isRunning() each; the
\* inner one returns no packet, a warning, and the outer one tests again.
ReceiverTest ==
  /\ \/ ReceiverGoto("loop", IF Running THEN "test" ELSE "shutdown")
     \/ ReceiverGoto("test", IF Running THEN "recv" ELSE "loop")
  /\ UNCHANGED socketVars

ReceiverRecv ==
  \/ inbox > 0 /\ inbox' = inbox - 1 /\ UNCHANGED <<readSocket, writeSocket>>
       /\ ReceiverGoto("recv", "store")
  \/ ReceiverGoto("recv", "test") /\ UNCHANGED socketVars      \* WSAETIMEDOUT
  \/ ReceiverGoto("recv", "loop") /\ UNCHANGED socketVars      \* WSAEMSGSIZE
  \/ ReceiverGoto("recv", "shutdown") /\ UNCHANGED socketVars  \* closed, reset, other

\* receivedPackets.push_back, which the sender's wait for an ACK calls too, and
\* any_packet_handler, which prints the text of the message.
ReceiverStore ==
  \/ ReceiverGoto("store", "loop") /\ UNCHANGED socketVars
  \/ Alive /\ receiver = "store" /\ sender = "store" /\ Abort

\* Mutant: the receiver returns without the assignment.
BugReceiverClose ==
  \/ /\ ReceiverGoto("shutdown", "reset")
     /\ readSocket' = "closed"
     /\ UNCHANGED <<writeSocket, inbox>>
  \/ ReceiverGoto("reset", "exit") /\ UNCHANGED socketVars

\* closesocket, and then the assignment that isRunning() sees.
ReceiverClose ==
  \/ /\ ReceiverGoto("shutdown", "reset")
     /\ readSocket' = "closed"
     /\ UNCHANGED <<writeSocket, inbox>>
  \/ /\ ReceiverGoto("reset", "exit")
     /\ readSocket' = "invalid"
     /\ UNCHANGED <<writeSocket, inbox>>

-----------------------------------------------------------------------------
(* senderThread, with handlePacketOut, sendData and, for the ACK,          *)
(* receiveData(packet, true).                                              *)

SenderGoto(from, to) ==
  /\ Alive
  /\ sender = from
  /\ sender' = to
  /\ UNCHANGED <<user, receiver, flagVars, readSocket, writeSocket, pushing>>

\* Mutant: the sender's loop tests only the flag.
BugSenderLoop ==
  /\ \/ SenderGoto("loop", IF started THEN "main" ELSE "shutdown")
     \/ SenderGoto("sleep", "loop")
  /\ UNCHANGED <<inbox, queueVars, raced, history>>

SenderLoop ==
  /\ \/ SenderGoto("loop", IF Running THEN "main" ELSE "shutdown")
     \/ SenderGoto("sleep", "loop")
  /\ UNCHANGED <<inbox, queueVars, raced, history>>

\* The loop over mainPackets does not test isRunning().  It sends back(), the
\* newest packet, and will pop the oldest.
TakeMain ==
  /\ IF mainPackets # <<>>
     THEN /\ SenderGoto("main", "send")
          /\ current' = mainPackets[Len(mainPackets)]
          /\ UNCHANGED retrying
     ELSE /\ SenderGoto("main", "sync")
          /\ retrying' = 1
          /\ UNCHANGED current
  /\ UNCHANGED <<inbox, mainPackets, syncPackets, raced, history>>

TakeSync ==
  /\ IF retrying <= Len(syncPackets)
     THEN /\ SenderGoto("sync", "send")
          /\ current' = syncPackets[retrying]
          /\ UNCHANGED retrying
     ELSE /\ SenderGoto("sync", "sleep")
          /\ retrying' = 0
          /\ UNCHANGED current
  /\ UNCHANGED <<inbox, mainPackets, syncPackets, raced, history>>

Attempted == history' = [history EXCEPT !.attempted = @ \cup {current}]

\* sendData: the call fails whenever the socket or the peer wants it to.
SendData ==
  /\ \/ SenderGoto("send", "unconfirmed")
     \/ /\ writeSocket = "open"
        /\ SenderGoto("send", IF current \in NeedACK THEN "test" ELSE "confirmed")
  /\ Attempted
  /\ UNCHANGED <<inbox, queueVars, raced>>

\* The wait for the ACK.  When the session no longer runs receiveData returns
\* no packet, which counts as unconfirmed.
AckTest ==
  /\ SenderGoto("test", IF Running THEN "recv" ELSE "unconfirmed")
  /\ UNCHANGED <<inbox, queueVars, raced, history>>

\* Mutant: the wait for the ACK does not wait for a message.
BugAckRecv ==
  /\ \/ /\ readSocket = "open"
        /\ inbox' = inbox - 1
        /\ SenderGoto("recv", "store")
     \/ SenderGoto("recv", "unconfirmed") /\ UNCHANGED inbox
  /\ UNCHANGED <<queueVars, raced, history>>

\* Any message confirms, whatever it is and whichever thread it was meant for.
\* A timeout, a closed connection and every error leave the packet unconfirmed.
AckRecv ==
  /\ \/ /\ readSocket = "open" /\ inbox > 0
        /\ inbox' = inbox - 1
        /\ SenderGoto("recv", "store")
     \/ SenderGoto("recv", "unconfirmed") /\ UNCHANGED inbox
  /\ UNCHANGED <<queueVars, raced, history>>

AckStore ==
  \/ SenderGoto("store", "confirmed") /\ UNCHANGED <<inbox, queueVars, raced, history>>
  \/ Alive /\ sender = "store" /\ receiver = "store" /\ Abort

\* Mutant: the newest packet is popped.
BugPopMain(outcome) ==
  /\ retrying = 0
  /\ SenderGoto(outcome, "main")
  /\ syncPackets' = IF outcome = "confirmed" THEN syncPackets ELSE Append(syncPackets, current)
  /\ mainPackets' = SubSeq(mainPackets, 1, Len(mainPackets) - 1)
  /\ raced' = (user = "push")
  /\ UNCHANGED <<inbox, retrying>>

\* The end of the body of the first loop: pop() takes the front.
PopMain(outcome) ==
  /\ retrying = 0
  /\ SenderGoto(outcome, "main")
  /\ syncPackets' = IF outcome = "confirmed" THEN syncPackets ELSE Append(syncPackets, current)
  /\ mainPackets' = Tail(mainPackets)
  /\ raced' = (user = "push")
  /\ UNCHANGED <<inbox, retrying>>

\* Mutant: the retried packet is erased whatever handlePacketOut returned.
BugNextSync(outcome) ==
  /\ retrying > 0
  /\ SenderGoto(outcome, "sync")
  /\ syncPackets' = WithoutAt(syncPackets, retrying)
  /\ UNCHANGED <<inbox, mainPackets, raced, retrying>>

\* The end of the body of the second loop.
NextSync(outcome) ==
  /\ retrying > 0
  /\ SenderGoto(outcome, "sync")
  /\ IF outcome = "confirmed"
     THEN syncPackets' = WithoutAt(syncPackets, retrying) /\ UNCHANGED retrying
     ELSE retrying' = retrying + 1 /\ UNCHANGED syncPackets
  /\ UNCHANGED <<inbox, mainPackets, raced>>

Confirmed == history' = [history EXCEPT !.confirmed = @ \cup {current}]

PacketHandled ==
  /\ \/ (PopMain("confirmed") \/ NextSync("confirmed")) /\ Confirmed
     \/ (PopMain("unconfirmed") \/ NextSync("unconfirmed")) /\ UNCHANGED history
  /\ current' = NoPacket

\* empty(), back() and pop() beside a push.
QueueRace ==
  /\ Alive
  /\ user = "push"
  /\ \/ sender = "main"
     \/ sender \in {"confirmed", "unconfirmed"} /\ retrying = 0
  /\ Abort

\* Both handlers print getDataSize() bytes of the message, which is what its header
\* says and may be more than recv returned: an invalid read that may end the process.
Overread == Alive /\ "store" \in {receiver, sender} /\ Abort

SenderClose ==
  /\ Alive
  /\ \/ sender = "shutdown" /\ sender' = "reset" /\ writeSocket' = "closed"
     \/ sender = "reset" /\ sender' = "exit" /\ writeSocket' = "invalid"
  /\ UNCHANGED <<user, receiver, flagVars, readSocket, inbox, queueVars, pushVars, history>>

-----------------------------------------------------------------------------
\* The peer's data arrives while the handle is open.
PeerSends ==
  /\ Alive
  /\ readSocket = "open"
  /\ inbox < MaxInbox
  /\ inbox' = inbox + 1
  /\ UNCHANGED <<user, receiver, sender, flagVars, readSocket, writeSocket,
                 queueVars, pushVars, history>>

\* setSocket has given the session its sockets and createThreads its flags.
Init ==
  /\ user = "spawn_receiver"
  /\ receiver = "none"
  /\ sender = "none"
  /\ started = TRUE
  /\ disconnected = FALSE
  /\ readSocket = "open"
  /\ writeSocket = "open"
  /\ inbox = 0
  /\ mainPackets = <<>>
  /\ syncPackets = <<>>
  /\ current = NoPacket
  /\ retrying = 0
  /\ pushing = NoPacket
  /\ raced = FALSE
  /\ history = [pushed |-> <<>>, lost |-> {}, attempted |-> {}, confirmed |-> {}]

\* What the code outside does once it has begun.
UserWork == SpawnReceiver \/ SpawnSender \/ SendPacketEnd
              \/ JoinReceiver \/ JoinSender \/ ClearQueues
UserCalls == ChooseSession \/ SendPacketBegin \/ Disconnect

receiverThread == ReceiverTest \/ ReceiverRecv \/ ReceiverStore \/ ReceiverClose

senderThread == SenderLoop \/ TakeMain \/ TakeSync \/ SendData \/ AckTest \/ AckRecv
                  \/ AckStore \/ PacketHandled \/ QueueRace \/ SenderClose

Next == UserWork \/ UserCalls \/ receiverThread \/ senderThread \/ Overread \/ PeerSends

Spec == Init /\ [][Next]_vars

\* Threads are scheduled; recv and send return, by SO_RCVTIMEO and SO_SNDTIMEO.
FairSpec == Spec /\ WF_vars(UserWork) /\ WF_vars(receiverThread) /\ WF_vars(senderThread)

-----------------------------------------------------------------------------
(* What is checked.                                                        *)

ControlOK ==
  /\ user \in UserLabels \cup {"aborted"}
  /\ receiver \in ReceiverLabels
  /\ sender \in SenderLabels
  /\ started \in BOOLEAN /\ disconnected \in BOOLEAN /\ raced \in BOOLEAN
  /\ readSocket \in SocketStates /\ writeSocket \in SocketStates
  /\ inbox \in 0 .. MaxInbox

QueuesOK ==
  /\ mainPackets \in Seq(Packets) /\ syncPackets \in Seq(Packets)
  /\ current \in Packets \cup {NoPacket} /\ pushing \in Packets \cup {NoPacket}
  /\ retrying \in Nat

HistoryOK ==
  history \in [pushed : Seq(Packets), lost : SUBSET Packets,
               attempted : SUBSET Packets, confirmed : SUBSET Packets]

TypeOK == ControlOK /\ QueuesOK /\ HistoryOK

\* The session as the code outside sees it is that of SessionLifecycle: when one
\* thread goes the other follows, and disconnect() returns after both.
ThreadsReturned == receiver = "exit" /\ sender = "exit"
Phase == IF disconnected THEN "disconnected"
         ELSE IF Running THEN "running"
         ELSE IF ThreadsReturned THEN "ended" ELSE "failing"
Lifecycle == INSTANCE SessionLifecycle WITH
               Clients <- {"this"},
               pool    <- {"this"},
               session <- [c \in {"this"} |-> Phase]
ImplementsLifecycle == Lifecycle!Spec

\* After disconnect() no thread is left that could use the queues or the
\* sockets, and the queues are empty.
DisconnectedClean ==
  disconnected =>
    /\ ThreadsReturned
    /\ readSocket = "invalid" /\ writeSocket = "invalid"
    /\ mainPackets = <<>> /\ syncPackets = <<>>

\* A packet that was handed to send is in syncPackets, for the sender to try again,
\* until handlePacketOut returns success for it (a message confirmed it, or it needs
\* no ACK and send took it) or disconnect() clears it.
RetryKeepsPacket ==
  ~disconnected =>
    history.attempted \subseteq history.confirmed \cup Elements(syncPackets) \cup {current}

\* The newest packet that sendPacket left in the queue: what was pushed after it
\* was lost in a race or is still being pushed.
Newest(p) ==
  /\ p \notin history.lost \cup {pushing}
  /\ \E i \in DOMAIN history.pushed :
       /\ history.pushed[i] = p
       /\ \A j \in DOMAIN history.pushed :
            j > i => history.pushed[j] \in history.lost \cup {pushing}

\* Although back() and pop() name different packets, the sender leaves its loop
\* over mainPackets only when the newest packet was handed to send.
NewestAttempted ==
  mainPackets = <<>> /\ ~disconnected =>
    \A p \in Packets : Newest(p) => p \in history.attempted

\* Where the sender is with a packet in hand.
InHand == {"send", "test", "recv", "store", "confirmed", "unconfirmed"}

\* A socket member is INVALID_SOCKET exactly when its thread has returned, and
\* names a closed handle for one step before that.
SocketsFollowThreads ==
  /\ receiver = "exit" <=> readSocket = "invalid"
  /\ sender = "exit" <=> writeSocket = "invalid"

\* createThreads runs first, and disconnect() waits as it goes.
UserFollowsThreads ==
  /\ user = "spawn_receiver" => receiver = "none" /\ sender = "none"
  /\ user = "spawn_sender" => sender = "none"
  /\ user \in {"join_receiver", "join_sender", "clear"} => ~started /\ ~disconnected
  /\ user \in {"join_sender", "clear"} => receiver = "exit"
  /\ user = "clear" => sender = "exit"
  /\ disconnected => user = "idle" /\ ~started
  /\ pushing # NoPacket => user \in {"push", "aborted"}
  /\ user = "push" => pushing # NoPacket

\* The packet in hand is in the queue the sender took it from.
PacketInHand ==
  /\ sender \in InHand => current \in Packets
  /\ sender \notin InHand => current = NoPacket
  /\ sender \in InHand /\ retrying = 0 => mainPackets # <<>>
  /\ sender \in InHand /\ retrying > 0 =>
       retrying <= Len(syncPackets) /\ syncPackets[retrying] = current
  /\ sender = "sync" => retrying > 0
  /\ sender \in {"main", "loop", "sleep", "shutdown", "reset", "exit", "none"} => retrying = 0

\* What the threads and the queues of SessionInv rest on.
ThreadsInv ==
  /\ SocketsFollowThreads /\ UserFollowsThreads /\ PacketInHand
  /\ DisconnectedClean /\ RetryKeepsPacket

\* A packet sent from the back of mainPackets is the one that pop() removes when
\* it is the only one: pushes since then have made the queue longer.
OnlyPacketInHand ==
  sender \in InHand /\ retrying = 0 /\ Len(mainPackets) = 1 => mainPackets[1] = current

HandedToSend == sender \in InHand \ {"send"} => current \in history.attempted

\* The push under way is of the packet pushed last, and no other push loses it.
PushedLast ==
  /\ history.lost \subseteq Elements(history.pushed)
  /\ pushing # NoPacket =>
       /\ history.pushed # <<>> /\ history.pushed[Len(history.pushed)] = pushing
       /\ pushing \notin history.lost

\* The newest packet is at the back of mainPackets until the queue is empty.
NewestAtBack ==
  ~disconnected =>
    \A p \in Packets : Newest(p) =>
      IF mainPackets = <<>> THEN p \in history.attempted ELSE p = mainPackets[Len(mainPackets)]

\* The inductive invariant of SessionProofs.
SessionInv == ThreadsInv /\ OnlyPacketInHand /\ HandedToSend /\ PushedLast /\ NewestAtBack

\* When a session stops running, for whatever reason, both threads return, and
\* so the cleaner's disconnect() does.
StoppedSessionEnds == ~Running ~> ThreadsReturned \/ user = "aborted"

\* Each packet in the queue is sent before it is removed: what sendPacket took is
\* still queued, or was handed to send.  (Packets lost in a race not counted.)
EveryPacketAttempted ==
  ~disconnected =>
    Elements(history.pushed) \ (history.lost \cup {pushing})
      \subseteq history.attempted \cup Elements(mainPackets)

=============================================================================
