----------------------------- MODULE EchoServer -----------------------------
(***************************************************************************)
(* ServerAsio/main.cpp: one thread accepts, and a detached thread for each *)
(* connection reads into a buffer of MAX_LEN bytes and writes back what it *)
(* read.  The i-th byte that a peer sends has the value i, so that the     *)
(* bytes echoed show where they came from; 0 is a byte never written.      *)
(*                                                                         *)
(* remote_endpoint() and write() throw when the connection is gone, and    *)
(* nothing in a session's thread catches it: the process ends.             *)
(***************************************************************************)
EXTENDS Naturals, Sequences

CONSTANTS
  Peers,     \* the connections, each made at most once
  MAX_LEN,   \* the size of the buffer
  MaxBytes,  \* bound: bytes a peer sends
  Window     \* bytes a connection holds in each direction

ASSUME EchoConstantsOK ==
  /\ MAX_LEN \in Nat \ {0}
  /\ MaxBytes \in Nat
  /\ Window \in Nat \ {0}

VARIABLES
  server,   \* "accept", "start" with a connection accepted, or "aborted"
  sock,     \* the connection whose thread is being started, or NoPeer
  peer,     \* each peer: "none", "open", "finished" (no more to send), "reset"
  thread,   \* what the session of each peer does next
  sent,     \* bytes each peer has sent
  taken,    \* of these, those that read_some returned
  data,     \* the buffer of each session
  length,   \* what read_some returned last
  done,     \* of these, the bytes that write has handed over
  echoed,   \* the bytes written back, in order
  answered  \* of these, the number the peer has read

NoPeer == "no peer"
peerVars == <<peer, sent, answered>>
vars == <<server, sock, peerVars, thread, taken, data, length, done, echoed>>

Smaller(a, b) == IF a < b THEN a ELSE b
Goto(p, from, to) == thread[p] = from /\ thread' = [thread EXCEPT ![p] = to]

\* An exception leaves a thread: std::terminate, for every session.
Terminate ==
  /\ server' = "aborted"
  /\ UNCHANGED <<sock, peerVars, thread, taken, data, length, done, echoed>>

-----------------------------------------------------------------------------
(* server() *)

Accept(p) ==
  /\ server = "accept"
  /\ peer[p] # "none" /\ thread[p] = "none"
  /\ server' = "start"
  /\ sock' = p
  /\ UNCHANGED <<peerVars, thread, taken, data, length, done, echoed>>

Detach ==
  /\ server = "start"
  /\ Goto(sock, "none", "hello")
  /\ server' = "accept"
  /\ sock' = NoPeer
  /\ UNCHANGED <<peerVars, taken, data, length, done, echoed>>

-----------------------------------------------------------------------------
(* session() *)

Connected(p) == server # "aborted" /\ peer[p] # "reset"
Throws(p, from) == server # "aborted" /\ thread[p] = from /\ peer[p] = "reset" /\ Terminate

\* The three messages name the remote end.  A reset of the connection may or may
\* not have made it unknown.
Names(p) ==
  \/ /\ server # "aborted"
     /\ \/ Goto(p, "hello", "read")
        \/ Goto(p, "message", "write")
        \/ Goto(p, "farewell", "closed")
     /\ UNCHANGED <<server, sock, peerVars, taken, data, length, done, echoed>>
  \/ \E from \in {"hello", "message", "farewell"} : Throws(p, from)

\* Mutant: a read takes all that came, however large the buffer.
BugReadSome(p) ==
  /\ Connected(p)
  /\ Goto(p, "read", "message")
  /\ \E n \in 1 .. sent[p] - taken[p] :
       /\ data' = [data EXCEPT ![p] = [i \in 1 .. MAX_LEN |-> IF i <= n THEN taken[p] + i ELSE 0]]
       /\ length' = [length EXCEPT ![p] = n]
       /\ taken' = [taken EXCEPT ![p] = @ + n]
  /\ UNCHANGED <<server, sock, peerVars, done, echoed>>

\* read_some returns at least one byte of those that came and at most MAX_LEN;
\* the buffer is a new one each time, with any bytes beyond them.
ReadSome(p) ==
  /\ Connected(p)
  /\ Goto(p, "read", "message")
  /\ \E n \in 1 .. Smaller(MAX_LEN, sent[p] - taken[p]) :
       /\ data' = [data EXCEPT ![p] = [i \in 1 .. MAX_LEN |-> IF i <= n THEN taken[p] + i ELSE 0]]
       /\ length' = [length EXCEPT ![p] = n]
       /\ taken' = [taken EXCEPT ![p] = @ + n]
  /\ UNCHANGED <<server, sock, peerVars, done, echoed>>

\* Mutant: an error does not break off the loop.
BugReadEnds(p) ==
  /\ server # "aborted"
  /\ \/ peer[p] = "reset" /\ Goto(p, "read", "hello")
     \/ peer[p] = "finished" /\ taken[p] = sent[p] /\ Goto(p, "read", "farewell")
  /\ UNCHANGED <<server, sock, peerVars, taken, data, length, done, echoed>>

\* Mutant: eof is answered before the bytes that came with it.
BugEof(p) ==
  /\ server # "aborted"
  /\ Goto(p, "read", "farewell")
  /\ peer[p] \in {"reset", "finished"}
  /\ UNCHANGED <<server, sock, peerVars, taken, data, length, done, echoed>>

\* eof after the last byte, or an error, which may come before it.
ReadEnds(p) ==
  /\ server # "aborted"
  /\ Goto(p, "read", "farewell")
  /\ \/ peer[p] = "reset"
     \/ peer[p] = "finished" /\ taken[p] = sent[p]
  /\ UNCHANGED <<server, sock, peerVars, taken, data, length, done, echoed>>

\* Mutant: the whole buffer is written.
BugToWrite(p) == data[p]

\* asio::buffer(data, length): the first length bytes.
ToWrite(p) == SubSeq(data[p], 1, length[p])

\* Mutant: write_some, which may leave a rest.
BugWrite(p) ==
  /\ Connected(p)
  /\ Goto(p, "write", "read")
  /\ \E n \in 1 .. Smaller(Len(ToWrite(p)), Window - Len(echoed[p]) + answered[p]) :
       echoed' = [echoed EXCEPT ![p] = @ \o SubSeq(ToWrite(p), 1, n)]
  /\ UNCHANGED <<server, sock, peerVars, taken, data, length, done>>

\* asio::write hands over what there is room for until all of it is written.
Write(p) ==
  \/ /\ Connected(p)
     /\ thread[p] = "write"
     /\ \E n \in 1 .. Smaller(Len(ToWrite(p)) - done[p], Window - Len(echoed[p]) + answered[p]) :
          /\ echoed' = [echoed EXCEPT ![p] = @ \o SubSeq(ToWrite(p), done[p] + 1, done[p] + n)]
          /\ IF done[p] + n = Len(ToWrite(p))
             THEN Goto(p, "write", "read") /\ done' = [done EXCEPT ![p] = 0]
             ELSE done' = [done EXCEPT ![p] = @ + n] /\ UNCHANGED thread
     /\ UNCHANGED <<server, sock, peerVars, taken, data, length>>
  \/ Throws(p, "write")

session(p) == Names(p) \/ ReadSome(p) \/ ReadEnds(p) \/ Write(p)

-----------------------------------------------------------------------------
(* The peers. *)

PeerStep(p) == server # "aborted" /\ UNCHANGED <<server, sock, thread, taken, data, length, done, echoed>>

Connect(p) ==
  PeerStep(p) /\ peer[p] = "none" /\ peer' = [peer EXCEPT ![p] = "open"] /\ UNCHANGED <<sent, answered>>

Send(p) ==
  /\ PeerStep(p)
  /\ peer[p] = "open" /\ sent[p] < MaxBytes /\ sent[p] - taken[p] < Window
  /\ sent' = [sent EXCEPT ![p] = @ + 1]
  /\ UNCHANGED <<peer, answered>>

Receive(p) ==
  /\ PeerStep(p)
  /\ peer[p] \in {"open", "finished"} /\ answered[p] < Len(echoed[p])
  /\ answered' = [answered EXCEPT ![p] = Len(echoed[p])]
  /\ UNCHANGED <<peer, sent>>

\* A peer that has no more to send says so; a connection may break at any time.
Leave(p) ==
  /\ PeerStep(p)
  /\ \/ peer[p] = "open" /\ peer' = [peer EXCEPT ![p] = "finished"]
     \/ peer[p] \in {"open", "finished"} /\ peer' = [peer EXCEPT ![p] = "reset"]
  /\ UNCHANGED <<sent, answered>>

-----------------------------------------------------------------------------
Init ==
  /\ server = "accept" /\ sock = NoPeer
  /\ peer = [p \in Peers |-> "none"]
  /\ thread = [p \in Peers |-> "none"]
  /\ sent = [p \in Peers |-> 0] /\ taken = [p \in Peers |-> 0]
  /\ data = [p \in Peers |-> [i \in 1 .. MAX_LEN |-> 0]]
  /\ length = [p \in Peers |-> 0] /\ done = [p \in Peers |-> 0]
  /\ echoed = [p \in Peers |-> <<>>]
  /\ answered = [p \in Peers |-> 0]

acceptor == (\E p \in Peers : Accept(p)) \/ Detach

Next == acceptor \/ \E p \in Peers : session(p) \/ Connect(p) \/ Send(p) \/ Receive(p) \/ Leave(p)

Spec == Init /\ [][Next]_vars

\* Threads run and accept returns a connection that waits; a peer reads its
\* answers.  Nothing is assumed of when a peer sends or leaves.
FairSpec ==
  /\ Spec
  /\ WF_vars(Detach)
  /\ \A p \in Peers : WF_vars(Accept(p)) /\ WF_vars(session(p)) /\ WF_vars(Receive(p))

-----------------------------------------------------------------------------
(* What is checked.                                                        *)

TypeOK ==
  /\ server \in {"accept", "start", "aborted"}
  /\ sock \in Peers \cup {NoPeer}
  /\ peer \in [Peers -> {"none", "open", "finished", "reset"}]
  /\ thread \in [Peers -> {"none", "hello", "read", "message", "write", "farewell", "closed"}]
  /\ sent \in [Peers -> 0 .. MaxBytes] /\ taken \in [Peers -> 0 .. MaxBytes]
  /\ data \in [Peers -> [1 .. MAX_LEN -> 0 .. MaxBytes]]
  /\ length \in [Peers -> 0 .. MAX_LEN] /\ done \in [Peers -> 0 .. MAX_LEN]
  /\ echoed \in [Peers -> Seq(0 .. MaxBytes)]
  /\ answered \in [Peers -> 0 .. MaxBytes]

\* An echo: however the reads cut the stream and the writes cut what was read,
\* a peer gets back its own bytes, each once and in their order, and no byte that
\* read_some did not put into the buffer.
EchoesInOrder ==
  \A p \in Peers :
    /\ Len(echoed[p]) <= taken[p]
    /\ \A i \in DOMAIN echoed[p] : echoed[p][i] = i

\* A session that ends without a reset has echoed all that it was sent.
ClosedIsComplete ==
  \A p \in Peers : thread[p] = "closed" /\ peer[p] # "reset" => Len(echoed[p]) = sent[p]

\* Where a session is in the stream: between read_some and the end of write the
\* buffer holds the bytes that are not echoed yet, and otherwise all are.
InBuffer(p) ==
  IF thread[p] \in {"message", "write"}
  THEN /\ length[p] > 0 /\ done[p] < length[p]
       /\ thread[p] = "message" => done[p] = 0
       /\ Len(echoed[p]) = taken[p] - length[p] + done[p]
       /\ \A i \in 1 .. length[p] : data[p][i] = taken[p] - length[p] + i
  ELSE done[p] = 0 /\ Len(echoed[p]) = taken[p]

StreamInv(p) ==
  /\ InBuffer(p)
  /\ \A i \in DOMAIN echoed[p] : echoed[p][i] = i
  /\ taken[p] <= sent[p] /\ answered[p] <= Len(echoed[p])
  /\ thread[p] \in {"farewell", "closed"} /\ peer[p] # "reset"
       => peer[p] = "finished" /\ taken[p] = sent[p]

\* The inductive invariant of EchoProofs.
EchoInv ==
  /\ server = "start" => sock \in Peers
  /\ \A p \in Peers : StreamInv(p)

\* Seen from its peer, a session is the stream of EchoStream: it is given back in
\* pieces of any size, each once, and not after the connection broke or was closed.
Link(p) == IF thread[p] = "closed" THEN "closed"
           ELSE IF peer[p] = "reset" THEN "broken" ELSE "up"
Echo == INSTANCE EchoStream WITH link <- [p \in Peers |-> Link(p)]
ImplementsStream == Echo!Spec

\* A peer that finishes and reads its answers is served to the end, and a broken
\* connection gives its thread back, unless some reset ended the process.
EverySessionEnds ==
  \A p \in Peers : peer[p] \in {"finished", "reset"} ~> thread[p] = "closed" \/ server = "aborted"

=============================================================================
