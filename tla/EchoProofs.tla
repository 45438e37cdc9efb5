----------------------------- MODULE EchoProofs ------------------------------
(* Theorems about EchoServer, for any number of connections, any buffer    *)
(* and any amount of bytes.                                                *)
EXTENDS EchoServer, SequenceTheorems, TLAPS

-----------------------------------------------------------------------------
(* A piece of the buffer.                                                  *)

\* asio::buffer(data, length) is the bytes that were read.
LEMMA BytesToWrite ==
  ASSUME TypeOK, NEW p \in Peers
  PROVE  /\ ToWrite(p) \in Seq(0 .. MaxBytes)
         /\ Len(ToWrite(p)) = length[p]
         /\ \A i \in 1 .. length[p] : ToWrite(p)[i] = data[p][i]
<1>1. length[p] \in 0 .. MAX_LEN /\ MAX_LEN \in Nat /\ length[p] \in Nat
  BY EchoConstantsOK DEF TypeOK, EchoConstantsOK
<1>2. \A i \in 1 .. length[p] : data[p][i] \in 0 .. MaxBytes
  BY <1>1 DEF TypeOK
<1> QED BY <1>1, <1>2, SubSeqProperties DEF ToWrite

\* Writing the next n of these bytes goes on with the stream where it was.
LEMMA StreamGoesOn ==
  ASSUME NEW stream \in Seq(0 .. MaxBytes), \A i \in DOMAIN stream : stream[i] = i,
         NEW bytes \in Seq(0 .. MaxBytes), NEW from \in Nat, NEW n \in Nat, n > 0,
         from + n <= Len(bytes),
         \A i \in 1 .. Len(bytes) : bytes[i] = Len(stream) - from + i
  PROVE  LET longer == stream \o SubSeq(bytes, from + 1, from + n)
         IN  /\ longer \in Seq(0 .. MaxBytes)
             /\ Len(longer) = Len(stream) + n
             /\ \A i \in DOMAIN longer : longer[i] = i
<1> DEFINE piece == SubSeq(bytes, from + 1, from + n)
<1>1. Len(bytes) \in Nat /\ Len(stream) \in Nat /\ DOMAIN stream = 1 .. Len(stream)
  BY LenProperties
<1>2. \A i \in from + 1 .. from + n : i \in 1 .. Len(bytes) /\ bytes[i] \in 0 .. MaxBytes
  <2>1. \A i \in 1 .. Len(bytes) : bytes[i] \in 0 .. MaxBytes
    BY ElementOfSeq
  <2> QED BY <1>1, <2>1
<1>3. piece \in Seq(0 .. MaxBytes) /\ Len(piece) = n
  <2>1. /\ piece \in Seq(0 .. MaxBytes)
        /\ Len(piece) = IF from + 1 <= from + n THEN from + n - (from + 1) + 1 ELSE 0
    BY <1>2, SubSeqProperties
  <2> QED BY <2>1
<1>4. \A i \in 1 .. n : piece[i] = Len(stream) + i
  <2>1. \A i \in 1 .. from + n - (from + 1) + 1 : piece[i] = bytes[from + 1 + i - 1]
    BY <1>2, SubSeqProperties
  <2> TAKE i \in 1 .. n
  <2>2. from + 1 + i - 1 = from + i /\ from + i \in 1 .. Len(bytes)
    BY <1>1
  <2>3. i \in 1 .. from + n - (from + 1) + 1
    OBVIOUS
  <2> HIDE DEF piece
  <2>4. piece[i] = bytes[from + i]
    BY <2>1, <2>2, <2>3
  <2>5. bytes[from + i] = Len(stream) - from + (from + i)
    BY <2>2
  <2> QED BY <1>1, <2>4, <2>5
<1> HIDE DEF piece
<1>5. /\ stream \o piece \in Seq(0 .. MaxBytes)
      /\ Len(stream \o piece) = Len(stream) + n
      /\ \A i \in 1 .. Len(stream) + n :
           (stream \o piece)[i] = IF i <= Len(stream) THEN stream[i] ELSE piece[i - Len(stream)]
  BY <1>3, ConcatProperties
<1>6. ASSUME NEW i \in 1 .. Len(stream) + n PROVE (stream \o piece)[i] = i
  <2>1. CASE i <= Len(stream)
    <3>1. i \in 1 .. Len(stream)
      BY <1>1, <2>1
    <3> QED BY <1>1, <1>5, <2>1, <3>1
  <2>2. CASE ~(i <= Len(stream))
    <3>1. i - Len(stream) \in 1 .. n
      BY <1>1, <2>2
    <3>2. (stream \o piece)[i] = piece[i - Len(stream)]
      BY <1>5, <2>2
    <3>3. piece[i - Len(stream)] = Len(stream) + (i - Len(stream))
      BY <1>4, <3>1
    <3> QED BY <1>1, <3>2, <3>3
  <2> QED BY <2>1, <2>2
<1>7. DOMAIN (stream \o piece) = 1 .. Len(stream) + n
  BY <1>5, LenProperties
<1> QED BY <1>5, <1>6, <1>7 DEF piece

\* A session writes the next n bytes of its buffer: what it has echoed is still
\* the beginning of the stream.
LEMMA PieceEchoed ==
  ASSUME TypeOK, EchoInv, NEW p \in Peers, thread[p] = "write",
         NEW n \in 1 .. Smaller(Len(ToWrite(p)) - done[p], Window - Len(echoed[p]) + answered[p])
  PROVE  LET longer == echoed[p] \o SubSeq(ToWrite(p), done[p] + 1, done[p] + n)
         IN  /\ n \in Nat /\ n > 0 /\ done[p] + n <= length[p] /\ done[p] + n \in 0 .. MAX_LEN
             /\ longer \in Seq(0 .. MaxBytes)
             /\ Len(longer) = Len(echoed[p]) + n
             /\ \A i \in DOMAIN longer : longer[i] = i
<1>1. /\ ToWrite(p) \in Seq(0 .. MaxBytes)
      /\ Len(ToWrite(p)) = length[p]
      /\ \A i \in 1 .. length[p] : ToWrite(p)[i] = data[p][i]
  BY BytesToWrite
<1>2. /\ length[p] \in Nat /\ done[p] \in Nat /\ taken[p] \in Nat /\ answered[p] \in Nat
      /\ echoed[p] \in Seq(0 .. MaxBytes) /\ Len(echoed[p]) \in Nat /\ Window \in Nat
  BY EchoConstantsOK, LenProperties DEF TypeOK, EchoConstantsOK
<1>3. n \in Nat /\ n > 0 /\ done[p] + n <= length[p]
  <2>1. Smaller(length[p] - done[p], Window - Len(echoed[p]) + answered[p]) <= length[p] - done[p]
    BY <1>2 DEF Smaller
  <2>2. Smaller(length[p] - done[p], Window - Len(echoed[p]) + answered[p]) \in Int
    BY <1>2 DEF Smaller
  <2> HIDE DEF Smaller
  <2>3. n \in 1 .. Smaller(length[p] - done[p], Window - Len(echoed[p]) + answered[p])
    BY <1>1
  <2> QED BY <1>2, <2>1, <2>2, <2>3
<1>4. done[p] + n \in 0 .. MAX_LEN
  <2>1. length[p] \in 0 .. MAX_LEN /\ MAX_LEN \in Nat
    BY EchoConstantsOK DEF TypeOK, EchoConstantsOK
  <2> QED BY <1>2, <1>3, <2>1
<1>5. /\ \A i \in DOMAIN echoed[p] : echoed[p][i] = i
      /\ Len(echoed[p]) = taken[p] - length[p] + done[p]
      /\ \A i \in 1 .. length[p] : data[p][i] = taken[p] - length[p] + i
  BY DEF EchoInv, StreamInv, InBuffer
<1>6. \A i \in 1 .. Len(ToWrite(p)) : ToWrite(p)[i] = Len(echoed[p]) - done[p] + i
  <2> TAKE i \in 1 .. Len(ToWrite(p))
  <2>1. i \in 1 .. length[p] /\ i \in Nat
    BY <1>1, <1>2
  <2>2. ToWrite(p)[i] = taken[p] - length[p] + i
    BY <1>1, <1>5, <2>1
  <2>3. Len(echoed[p]) - done[p] = taken[p] - length[p]
    BY <1>2, <1>5, SMTT(30)
  <2> QED BY <2>2, <2>3
<1> DEFINE longer == echoed[p] \o SubSeq(ToWrite(p), done[p] + 1, done[p] + n)
<1>7. done[p] + n <= Len(ToWrite(p)) /\ \A i \in DOMAIN echoed[p] : echoed[p][i] = i
  BY <1>1, <1>3, <1>5
<1>8. /\ longer \in Seq(0 .. MaxBytes)
      /\ Len(longer) = Len(echoed[p]) + n
      /\ \A i \in DOMAIN longer : longer[i] = i
  BY <1>1, <1>2, <1>3, <1>6, <1>7, StreamGoesOn
<1> HIDE DEF longer
<1> QED BY <1>3, <1>8, <1>4 DEF longer

\* read_some returns no more than there is in the stream, and than MAX_LEN.
LEMMA ReadInBounds ==
  ASSUME TypeOK, NEW p \in Peers, NEW n \in 1 .. Smaller(MAX_LEN, sent[p] - taken[p])
  PROVE  /\ n \in Nat /\ n > 0 /\ n \in 0 .. MAX_LEN /\ taken[p] \in Nat
         /\ taken[p] + n <= sent[p] /\ taken[p] + n <= MaxBytes /\ taken[p] + n \in 0 .. MaxBytes
<1>1. /\ sent[p] \in 0 .. MaxBytes /\ taken[p] \in 0 .. MaxBytes
      /\ MAX_LEN \in Nat /\ MaxBytes \in Nat
  BY EchoConstantsOK DEF TypeOK, EchoConstantsOK
<1>2. /\ Smaller(MAX_LEN, sent[p] - taken[p]) <= MAX_LEN
      /\ Smaller(MAX_LEN, sent[p] - taken[p]) <= sent[p] - taken[p]
      /\ Smaller(MAX_LEN, sent[p] - taken[p]) \in Int
  BY <1>1 DEF Smaller
<1> HIDE DEF Smaller
<1> QED BY <1>1, <1>2

\* No more is echoed than was read, and no more read than sent.
LEMMA EchoedInBounds ==
  ASSUME TypeOK, EchoInv, NEW p \in Peers
  PROVE  /\ Len(echoed[p]) <= taken[p] /\ taken[p] <= sent[p]
         /\ Len(echoed[p]) \in 0 .. MaxBytes
<1>1. /\ echoed[p] \in Seq(0 .. MaxBytes) /\ sent[p] \in 0 .. MaxBytes /\ MaxBytes \in Nat
      /\ taken[p] \in 0 .. MaxBytes
      /\ length[p] \in 0 .. MAX_LEN /\ done[p] \in 0 .. MAX_LEN /\ MAX_LEN \in Nat
  BY EchoConstantsOK DEF TypeOK, EchoConstantsOK
<1>2. Len(echoed[p]) \in Nat
  BY <1>1, LenProperties
<1> QED BY <1>1, <1>2 DEF EchoInv, StreamInv, InBuffer

\* Only MaxBytes bounds what a peer sends.
LEMMA OneMore ==
  \A n \in 0 .. MaxBytes : n < MaxBytes => n + 1 \in 0 .. MaxBytes
BY EchoConstantsOK DEF EchoConstantsOK

-----------------------------------------------------------------------------
(* The types.                                                              *)

\* The bytes read and written stay within the stream and the buffer.
LEMMA EchoTypesStep == ASSUME TypeOK, EchoInv, [Next]_vars PROVE TypeOK'
<1> USE EchoConstantsOK DEF EchoConstantsOK, TypeOK, vars, peerVars
\* The acceptor.
<1>1. ASSUME NEW p \in Peers, Accept(p) PROVE TypeOK'
  BY <1>1 DEF Accept
<1>2. ASSUME Detach PROVE TypeOK'
  BY <1>2 DEF Detach, Goto
\* The session of one peer.
<1>3. ASSUME NEW p \in Peers, Names(p) PROVE TypeOK'
  BY <1>3 DEF Names, Goto, Throws, Terminate
<1>4. ASSUME NEW p \in Peers, ReadSome(p) PROVE TypeOK'
  <2>1. PICK n \in 1 .. Smaller(MAX_LEN, sent[p] - taken[p]) :
          /\ data' = [data EXCEPT ![p] = [i \in 1 .. MAX_LEN |-> IF i <= n THEN taken[p] + i ELSE 0]]
          /\ length' = [length EXCEPT ![p] = n]
          /\ taken' = [taken EXCEPT ![p] = @ + n]
    BY <1>4 DEF ReadSome
  <2>2. /\ n \in 0 .. MAX_LEN /\ n \in Nat /\ taken[p] \in Nat /\ taken[p] + n <= MaxBytes
        /\ taken[p] + n \in 0 .. MaxBytes
    BY ReadInBounds
  <2>3. \A i \in 1 .. MAX_LEN : (IF i <= n THEN taken[p] + i ELSE 0) \in 0 .. MaxBytes
    BY <2>2, SMTT(30)
  <2>4. [i \in 1 .. MAX_LEN |-> IF i <= n THEN taken[p] + i ELSE 0] \in [1 .. MAX_LEN -> 0 .. MaxBytes]
    BY <2>3
  <2>5. data' \in [Peers -> [1 .. MAX_LEN -> 0 .. MaxBytes]]
    BY <2>1, <2>4
  <2>6. length' \in [Peers -> 0 .. MAX_LEN] /\ taken' \in [Peers -> 0 .. MaxBytes]
    BY <2>1, <2>2
  <2> QED BY <1>4, <2>5, <2>6 DEF ReadSome, Goto
<1>5. ASSUME NEW p \in Peers, ReadEnds(p) PROVE TypeOK'
  BY <1>5 DEF ReadEnds, Goto
<1>6. ASSUME NEW p \in Peers, Write(p) PROVE TypeOK'
  <2>1. CASE Throws(p, "write")
    BY <2>1 DEF Throws, Terminate
  <2>2. CASE ~Throws(p, "write")
    <3>1. thread[p] = "write"
      BY <1>6, <2>2 DEF Write
    <3>2. PICK n \in 1 .. Smaller(Len(ToWrite(p)) - done[p], Window - Len(echoed[p]) + answered[p]) :
            /\ echoed' = [echoed EXCEPT ![p] = @ \o SubSeq(ToWrite(p), done[p] + 1, done[p] + n)]
            /\ IF done[p] + n = Len(ToWrite(p))
               THEN Goto(p, "write", "read") /\ done' = [done EXCEPT ![p] = 0]
               ELSE done' = [done EXCEPT ![p] = @ + n] /\ UNCHANGED thread
      BY <1>6, <2>2 DEF Write
    <3>3. /\ n \in Nat /\ done[p] + n \in 0 .. MAX_LEN
          /\ echoed[p] \o SubSeq(ToWrite(p), done[p] + 1, done[p] + n) \in Seq(0 .. MaxBytes)
      BY <3>1, PieceEchoed
    <3>4. echoed' \in [Peers -> Seq(0 .. MaxBytes)]
      BY <3>2, <3>3
    <3>5. done' \in [Peers -> 0 .. MAX_LEN]
      <4>1. 0 \in 0 .. MAX_LEN
        OBVIOUS
      <4>2. done' = [done EXCEPT ![p] = 0] \/ done' = [done EXCEPT ![p] = @ + n]
        BY <3>2, Zenon
      <4> QED BY <3>3, <4>1, <4>2
    <3>6. thread' \in [Peers -> {"none", "hello", "read", "message", "write", "farewell", "closed"}]
      <4>1. thread' = thread \/ thread' = [thread EXCEPT ![p] = "read"]
        BY <3>2, Zenon DEF Goto
      <4> QED BY <4>1
    <3> QED BY <1>6, <2>2, <3>4, <3>5, <3>6 DEF Write
  <2> QED BY <2>1, <2>2
\* The peers, and a step of nothing.
<1>7. ASSUME NEW p \in Peers, Connect(p) PROVE TypeOK'
  BY <1>7 DEF Connect, PeerStep
<1>8. ASSUME NEW p \in Peers, Send(p) PROVE TypeOK'
  <2>1. sent[p] < MaxBytes
    BY <1>8 DEF Send
  <2>2. sent[p] + 1 \in 0 .. MaxBytes
    BY <2>1, OneMore
  <2>3. sent' \in [Peers -> 0 .. MaxBytes]
    BY <1>8, <2>2 DEF Send
  <2> QED BY <1>8, <2>3 DEF Send, PeerStep
<1>9. ASSUME NEW p \in Peers, Receive(p) PROVE TypeOK'
  <2>1. Len(echoed[p]) \in 0 .. MaxBytes
    BY EchoedInBounds
  <2> QED BY <1>9, <2>1 DEF Receive, PeerStep
<1>10. ASSUME NEW p \in Peers, Leave(p) PROVE TypeOK'
  BY <1>10 DEF Leave, PeerStep
<1>11. ASSUME UNCHANGED vars PROVE TypeOK'
  BY <1>11
<1> HIDE DEF TypeOK, peerVars
<1> QED
  BY <1>1, <1>2, <1>3, <1>4, <1>5, <1>6, <1>7, <1>8, <1>9, <1>10, <1>11
  DEF Next, acceptor, session

-----------------------------------------------------------------------------
(* Where the sessions are.                                                 *)

\* What is true of one connection stays so while others move.
LEMMA OthersKeepTheirs ==
  ASSUME EchoInv, NEW q \in Peers,
         UNCHANGED <<peer[q], sent[q], answered[q], thread[q], taken[q], data[q],
                     length[q], done[q], echoed[q]>>
  PROVE  StreamInv(q)'
BY DEF EchoInv, StreamInv, InBuffer

\* A step of one connection leaves the others alone.
LEMMA OnePeerMoves ==
  ASSUME EchoInv, NEW p \in Peers, StreamInv(p)', server' = "start" => sock' \in Peers,
         \A q \in Peers \ {p} :
           UNCHANGED <<peer[q], sent[q], answered[q], thread[q], taken[q], data[q],
                       length[q], done[q], echoed[q]>>
  PROVE  EchoInv'
<1>1. ASSUME NEW q \in Peers PROVE StreamInv(q)'
  <2>1. CASE q = p
    BY <2>1
  <2>2. CASE q # p
    BY <2>2, OthersKeepTheirs
  <2> QED BY <2>1, <2>2
<1> QED BY <1>1 DEF EchoInv

\* Every step of the acceptor, of a session and of a peer keeps the invariant.
LEMMA EchoInvStep == ASSUME TypeOK, EchoInv, [Next]_vars PROVE EchoInv'
\* The acceptor.
<1>1. ASSUME NEW p \in Peers, Accept(p) PROVE EchoInv'
  <2>1. \A q \in Peers : StreamInv(q)'
    BY <1>1, OthersKeepTheirs DEF Accept, peerVars
  <2> QED BY <1>1, <2>1 DEF Accept, EchoInv
<1>2. ASSUME Detach PROVE EchoInv'
  <2>1. PICK p \in Peers : p = sock /\ server' = "accept"
    BY <1>2 DEF Detach, EchoInv
  <2>2. /\ thread[p] = "none" /\ thread'[p] = "hello"
        /\ \A q \in Peers \ {p} : UNCHANGED thread[q]
    BY <1>2, <2>1 DEF Detach, Goto, TypeOK
  <2>3. UNCHANGED <<peer, sent, answered, taken, data, length, done, echoed>>
    BY <1>2 DEF Detach, peerVars
  <2>4. StreamInv(p)'
    BY <2>1, <2>2, <2>3 DEF EchoInv, StreamInv, InBuffer
  <2> QED BY <2>1, <2>2, <2>3, <2>4, OnePeerMoves
\* The session of one peer.
<1>3. ASSUME Terminate PROVE EchoInv'
  <2>1. \A q \in Peers : StreamInv(q)'
    BY <1>3, OthersKeepTheirs DEF Terminate, peerVars
  <2> QED BY <1>3, <2>1 DEF Terminate, EchoInv
<1>4. ASSUME NEW p \in Peers, Names(p), ~Terminate PROVE EchoInv'
  <2>1. /\ \/ thread[p] = "hello" /\ thread' = [thread EXCEPT ![p] = "read"]
           \/ thread[p] = "message" /\ thread' = [thread EXCEPT ![p] = "write"]
           \/ thread[p] = "farewell" /\ thread' = [thread EXCEPT ![p] = "closed"]
        /\ UNCHANGED <<server, sock, peer, sent, answered, taken, data, length, done, echoed>>
    BY <1>4 DEF Names, Throws, Goto, peerVars
  <2>2. /\ \/ thread[p] = "hello" /\ thread'[p] = "read"
           \/ thread[p] = "message" /\ thread'[p] = "write"
           \/ thread[p] = "farewell" /\ thread'[p] = "closed"
        /\ \A q \in Peers \ {p} : UNCHANGED thread[q]
    BY <2>1 DEF TypeOK
  <2>3. StreamInv(p)'
    BY <2>1, <2>2 DEF EchoInv, StreamInv, InBuffer
  <2>4. server' = "start" => sock' \in Peers
    BY <2>1 DEF EchoInv
  <2> QED BY <2>1, <2>2, <2>3, <2>4, OnePeerMoves
<1>5. ASSUME NEW p \in Peers, ReadSome(p) PROVE EchoInv'
  <2>1. PICK n \in 1 .. Smaller(MAX_LEN, sent[p] - taken[p]) :
          /\ data' = [data EXCEPT ![p] = [i \in 1 .. MAX_LEN |-> IF i <= n THEN taken[p] + i ELSE 0]]
          /\ length' = [length EXCEPT ![p] = n]
          /\ taken' = [taken EXCEPT ![p] = @ + n]
    BY <1>5 DEF ReadSome
  <2>2. /\ n \in Nat /\ n > 0 /\ n \in 0 .. MAX_LEN /\ taken[p] \in Nat
        /\ taken[p] + n <= sent[p]
    BY ReadInBounds
  <2>3. /\ thread[p] = "read" /\ thread'[p] = "message"
        /\ UNCHANGED <<server, sock, peer, sent, answered, done, echoed>>
        /\ \A q \in Peers \ {p} : UNCHANGED thread[q]
    BY <1>5 DEF ReadSome, Goto, TypeOK, peerVars
  <2>4. /\ length'[p] = n /\ taken'[p] = taken[p] + n
        /\ data'[p] = [i \in 1 .. MAX_LEN |-> IF i <= n THEN taken[p] + i ELSE 0]
        /\ \A q \in Peers \ {p} : UNCHANGED <<data[q], length[q], taken[q]>>
    BY <2>1 DEF TypeOK
  <2>5. \A i \in 1 .. n : data'[p][i] = taken[p] + i
    <3>1. \A i \in 1 .. n : i \in 1 .. MAX_LEN /\ i <= n
      BY <2>2, EchoConstantsOK DEF EchoConstantsOK
    <3> QED BY <2>4, <3>1
  <2>6. done[p] = 0 /\ Len(echoed[p]) = taken[p]
    BY <2>3 DEF EchoInv, StreamInv, InBuffer
  <2>7. InBuffer(p)'
    <3>1. taken'[p] - length'[p] = taken[p]
      BY <2>2, <2>4
    <3>2. \A i \in 1 .. length'[p] : data'[p][i] = taken'[p] - length'[p] + i
      BY <2>4, <2>5, <3>1
    <3>3. Len(echoed'[p]) = taken'[p] - length'[p] + done'[p]
      BY <2>2, <2>3, <2>6, <3>1
    <3> QED BY <2>2, <2>3, <2>4, <2>6, <3>2, <3>3 DEF InBuffer
  <2>8. StreamInv(p)'
    BY <2>2, <2>3, <2>4, <2>7 DEF EchoInv, StreamInv
  <2>9. server' = "start" => sock' \in Peers
    BY <2>3 DEF EchoInv
  <2> QED BY <2>3, <2>4, <2>8, <2>9, OnePeerMoves
<1>6. ASSUME NEW p \in Peers, ReadEnds(p) PROVE EchoInv'
  <2>1. /\ thread[p] = "read" /\ thread'[p] = "farewell"
        /\ UNCHANGED <<server, sock, peer, sent, answered, taken, data, length, done, echoed>>
        /\ \A q \in Peers \ {p} : UNCHANGED thread[q]
        /\ peer[p] # "reset" => peer[p] = "finished" /\ taken[p] = sent[p]
    BY <1>6 DEF ReadEnds, Goto, TypeOK, peerVars
  <2>2. StreamInv(p)'
    BY <2>1 DEF EchoInv, StreamInv, InBuffer
  <2>3. server' = "start" => sock' \in Peers
    BY <2>1 DEF EchoInv
  <2> QED BY <2>1, <2>2, <2>3, OnePeerMoves
<1>7. ASSUME NEW p \in Peers, Write(p), ~Terminate PROVE EchoInv'
  <2>1. /\ thread[p] = "write"
        /\ UNCHANGED <<server, sock, peer, sent, answered, taken, data, length>>
    BY <1>7 DEF Write, Throws, peerVars
  <2>2. PICK n \in 1 .. Smaller(Len(ToWrite(p)) - done[p], Window - Len(echoed[p]) + answered[p]) :
          /\ echoed' = [echoed EXCEPT ![p] = @ \o SubSeq(ToWrite(p), done[p] + 1, done[p] + n)]
          /\ IF done[p] + n = Len(ToWrite(p))
             THEN Goto(p, "write", "read") /\ done' = [done EXCEPT ![p] = 0]
             ELSE done' = [done EXCEPT ![p] = @ + n] /\ UNCHANGED thread
    BY <1>7 DEF Write, Throws
  <2>3. /\ n \in Nat /\ n > 0 /\ done[p] + n <= length[p]
        /\ Len(echoed'[p]) = Len(echoed[p]) + n
        /\ \A i \in DOMAIN echoed'[p] : echoed'[p][i] = i
    <3>1. echoed'[p] = echoed[p] \o SubSeq(ToWrite(p), done[p] + 1, done[p] + n)
      BY <2>2 DEF TypeOK
    <3> QED BY <2>1, <3>1, PieceEchoed
  <2>4. \/ done[p] + n = length[p] /\ thread'[p] = "read" /\ done'[p] = 0
        \/ done[p] + n # length[p] /\ thread'[p] = "write" /\ done'[p] = done[p] + n
    BY <2>1, <2>2, BytesToWrite DEF TypeOK, Goto
  <2>5. \A q \in Peers \ {p} : UNCHANGED <<thread[q], done[q], echoed[q]>>
    BY <2>2 DEF TypeOK, Goto
  <2>6. /\ length[p] > 0 /\ done[p] < length[p]
        /\ Len(echoed[p]) = taken[p] - length[p] + done[p]
        /\ \A i \in 1 .. length[p] : data[p][i] = taken[p] - length[p] + i
        /\ taken[p] <= sent[p] /\ answered[p] <= Len(echoed[p])
    BY <2>1 DEF EchoInv, StreamInv, InBuffer
  <2>7. /\ length[p] \in Nat /\ done[p] \in Nat /\ taken[p] \in Nat /\ answered[p] \in Nat
        /\ Len(echoed[p]) \in Nat
    BY EchoConstantsOK, LenProperties DEF TypeOK, EchoConstantsOK
  <2>8. InBuffer(p)' /\ answered[p] <= Len(echoed'[p])
    <3> UNCHANGED <<taken, data, length, answered>>
      BY <2>1
    <3>1. Len(echoed'[p]) = taken[p] - length[p] + done[p] + n
      BY <2>3, <2>6, <2>7
    <3>2. answered[p] <= Len(echoed'[p])
      BY <2>3, <2>6, <2>7
    <3>n. n \in Nat /\ n > 0 /\ done[p] + n <= length[p]
      BY <2>3
    <3>3. CASE done[p] + n = length[p] /\ thread'[p] = "read" /\ done'[p] = 0
      <4>1. Len(echoed'[p]) = taken[p]
        BY <2>7, <3>n, <3>1, <3>3
      <4> QED BY <3>2, <3>3, <4>1 DEF InBuffer
    <3>4. CASE done[p] + n # length[p] /\ thread'[p] = "write" /\ done'[p] = done[p] + n
      <4>1. done[p] + n < length[p]
        BY <2>7, <3>n, <3>4
      <4>2. taken[p] - length[p] + done[p] + n = taken[p] - length[p] + (done[p] + n)
        BY <2>7, <3>n
      <4>3. done'[p] < length[p] /\ Len(echoed'[p]) = taken[p] - length[p] + done'[p]
        BY <3>1, <3>4, <4>1, <4>2
      <4> QED BY <2>6, <3>2, <3>4, <4>3 DEF InBuffer
    <3> QED BY <2>4, <3>3, <3>4
  <2>9. StreamInv(p)'
    BY <2>1, <2>3, <2>4, <2>6, <2>8 DEF StreamInv
  <2>10. server' = "start" => sock' \in Peers
    BY <2>1 DEF EchoInv
  <2> QED BY <2>1, <2>5, <2>9, <2>10, OnePeerMoves
\* The peers, and a step of nothing.
<1>8. ASSUME NEW p \in Peers, Connect(p) PROVE EchoInv'
  <2>1. /\ UNCHANGED <<server, sock, thread, taken, data, length, done, echoed>>
        /\ \A q \in Peers \ {p} : UNCHANGED <<peer[q], sent[q], answered[q]>>
    BY <1>8 DEF Connect, PeerStep, TypeOK
  <2>2. /\ peer[p] = "none" /\ peer'[p] = "open"
        /\ UNCHANGED <<sent, answered>>
    BY <1>8 DEF Connect, TypeOK
  <2>3. StreamInv(p)'
    BY <2>1, <2>2 DEF EchoInv, StreamInv, InBuffer
  <2>4. server' = "start" => sock' \in Peers
    BY <2>1 DEF EchoInv
  <2> QED BY <2>1, <2>2, <2>3, <2>4, OnePeerMoves
<1>9. ASSUME NEW p \in Peers, Send(p) PROVE EchoInv'
  <2>1. /\ UNCHANGED <<server, sock, thread, taken, data, length, done, echoed>>
        /\ \A q \in Peers \ {p} : UNCHANGED <<peer[q], sent[q], answered[q]>>
    BY <1>9 DEF Send, PeerStep, TypeOK
  <2>2. /\ peer[p] = "open" /\ sent'[p] = sent[p] + 1
        /\ sent[p] \in Nat /\ taken[p] \in Nat
        /\ UNCHANGED <<peer, answered>>
    BY <1>9 DEF Send, TypeOK
  <2>3. StreamInv(p)'
    BY <2>1, <2>2 DEF EchoInv, StreamInv, InBuffer
  <2>4. server' = "start" => sock' \in Peers
    BY <2>1 DEF EchoInv
  <2> QED BY <2>1, <2>2, <2>3, <2>4, OnePeerMoves
<1>10. ASSUME NEW p \in Peers, Receive(p) PROVE EchoInv'
  <2>1. /\ UNCHANGED <<server, sock, thread, taken, data, length, done, echoed>>
        /\ \A q \in Peers \ {p} : UNCHANGED <<peer[q], sent[q], answered[q]>>
    BY <1>10 DEF Receive, PeerStep, TypeOK
  <2>2. /\ answered'[p] = Len(echoed[p])
        /\ UNCHANGED <<peer, sent>>
    BY <1>10 DEF Receive, TypeOK
  <2>3. StreamInv(p)'
    BY <2>1, <2>2, EchoedInBounds DEF EchoInv, StreamInv, InBuffer
  <2>4. server' = "start" => sock' \in Peers
    BY <2>1 DEF EchoInv
  <2> QED BY <2>1, <2>2, <2>3, <2>4, OnePeerMoves
<1>11. ASSUME NEW p \in Peers, Leave(p) PROVE EchoInv'
  <2>1. /\ UNCHANGED <<server, sock, thread, taken, data, length, done, echoed>>
        /\ \A q \in Peers \ {p} : UNCHANGED <<peer[q], sent[q], answered[q]>>
    BY <1>11 DEF Leave, PeerStep, TypeOK
  <2>2. /\ \/ peer[p] = "open" /\ peer'[p] = "finished"
           \/ peer'[p] = "reset"
        /\ UNCHANGED <<sent, answered>>
    BY <1>11 DEF Leave, TypeOK
  <2>3. StreamInv(p)'
    BY <2>1, <2>2 DEF EchoInv, StreamInv, InBuffer
  <2>4. server' = "start" => sock' \in Peers
    BY <2>1 DEF EchoInv
  <2> QED BY <2>1, <2>2, <2>3, <2>4, OnePeerMoves
<1>12. ASSUME UNCHANGED vars PROVE EchoInv'
  <2>1. \A q \in Peers : StreamInv(q)'
    BY <1>12, OthersKeepTheirs DEF vars, peerVars
  <2> QED BY <1>12, <2>1 DEF vars, EchoInv
<1> QED
  BY <1>1, <1>2, <1>3, <1>4, <1>5, <1>6, <1>7, <1>8, <1>9, <1>10, <1>11, <1>12
  DEF Next, acceptor, session

-----------------------------------------------------------------------------
(* The invariant of every behaviour.                                       *)

\* Nothing is connected at first.
LEMMA EchoInitial == ASSUME Init PROVE TypeOK /\ EchoInv
<1>1. TypeOK
  <2>1. MAX_LEN \in Nat /\ MaxBytes \in Nat /\ 0 \in 0 .. MaxBytes /\ 0 \in 0 .. MAX_LEN
    BY EchoConstantsOK DEF EchoConstantsOK
  <2>2. <<>> \in Seq(0 .. MaxBytes)
    BY EmptySeq
  <2> QED BY <2>1, <2>2 DEF Init, TypeOK
<1>2. ASSUME NEW p \in Peers PROVE StreamInv(p)
  <2>1. echoed[p] = <<>> /\ Len(echoed[p]) = 0 /\ DOMAIN echoed[p] = {}
    BY EmptySeq DEF Init
  <2> QED BY <2>1 DEF Init, StreamInv, InBuffer
<1> QED BY <1>1, <1>2 DEF Init, EchoInv

\* What the theorems below have in common.
LEMMA EchoAlways == Spec => [](TypeOK /\ EchoInv)
<1>1. Init => TypeOK /\ EchoInv
  BY EchoInitial
<1>2. (TypeOK /\ EchoInv) /\ [Next]_vars => (TypeOK /\ EchoInv)'
  BY EchoTypesStep, EchoInvStep
<1> QED BY <1>1, <1>2, PTL DEF Spec

\* Every variable of the echo server keeps its type: no index leaves the buffer.
THEOREM EchoTypes == Spec => []TypeOK
<1> QED BY EchoAlways, PTL

\* Between a read and the end of its write the buffer holds exactly the bytes of
\* the stream that are not echoed yet.
THEOREM EchoCorrect == Spec => []EchoInv
<1> QED BY EchoAlways, PTL

\* Every peer gets back its own bytes, each once and in order.
THEOREM EchoIsThePrefix == Spec => []EchoesInOrder
<1>1. TypeOK /\ EchoInv => EchoesInOrder
  BY EchoedInBounds DEF EchoInv, StreamInv, EchoesInOrder
<1> QED BY <1>1, EchoAlways, PTL

\* A session that was not broken off has echoed everything.
THEOREM NothingIsLeftOut == Spec => []ClosedIsComplete
<1>1. EchoInv => ClosedIsComplete
  BY DEF EchoInv, StreamInv, InBuffer, ClosedIsComplete
<1> QED BY <1>1, EchoAlways, PTL

-----------------------------------------------------------------------------
(* A session seen from its peer is the stream of EchoStream.               *)

Links == [p \in Peers |-> Link(p)]

\* What is echoed, as a function, is a beginning of the stream.
LEMMA EchoedIsStream ==
  ASSUME NEW e \in Seq(0 .. MaxBytes), \A i \in DOMAIN e : e[i] = i
  PROVE  e = Echo!Stream(Len(e))
<1>1. DOMAIN e = 1 .. Len(e) /\ DOMAIN Echo!Stream(Len(e)) = 1 .. Len(e)
  BY LenProperties DEF Echo!Stream
<1>2. \A i \in 1 .. Len(e) : e[i] = Echo!Stream(Len(e))[i]
  BY <1>1 DEF Echo!Stream
<1>3. e = [i \in 1 .. Len(e) |-> e[i]]
  BY LenProperties
<1> QED BY <1>1, <1>2, <1>3 DEF Echo!Stream

\* The link of one connection changes with its own peer and thread only.
LEMMA OneLinkMoves ==
  ASSUME NEW p \in Peers, \A q \in Peers \ {p} : UNCHANGED <<peer[q], thread[q]>>
  PROVE  Links' = [Links EXCEPT ![p] = Link(p)']
<1>1. \A q \in Peers \ {p} : Link(q)' = Link(q)
  BY DEF Link
<1> QED BY <1>1 DEF Links

\* A write gives back a longer beginning of the stream, over a link that holds.
LEMMA WriteEchoes ==
  ASSUME TypeOK, EchoInv, NEW p \in Peers, Write(p), ~Terminate
  PROVE  Echo!Echo(p)
<1>1. PICK n \in 1 .. Smaller(Len(ToWrite(p)) - done[p], Window - Len(echoed[p]) + answered[p]) :
        echoed' = [echoed EXCEPT ![p] = @ \o SubSeq(ToWrite(p), done[p] + 1, done[p] + n)]
  BY DEF Write, Throws
<1>2. /\ thread[p] = "write" /\ peer[p] # "reset" /\ UNCHANGED <<sent, peer>>
      /\ \A q \in Peers : q # p => UNCHANGED thread[q]
      /\ thread'[p] \in {"write", "read"}
  BY DEF Write, Throws, Connected, Goto, peerVars, TypeOK
<1> DEFINE longer == echoed[p] \o SubSeq(ToWrite(p), done[p] + 1, done[p] + n)
<1>3. /\ n \in Nat /\ n > 0 /\ done[p] + n <= length[p]
      /\ longer \in Seq(0 .. MaxBytes) /\ Len(longer) = Len(echoed[p]) + n
      /\ \A i \in DOMAIN longer : longer[i] = i
  BY <1>2, PieceEchoed
<1>4. echoed' = [echoed EXCEPT ![p] = longer]
  BY <1>1
<1> HIDE DEF longer
<1>5. longer = Echo!Stream(Len(longer))
  BY <1>3, EchoedIsStream
<1>6. Len(longer) \in Len(echoed[p]) + 1 .. sent[p]
  <2>1. /\ Len(echoed[p]) = taken[p] - length[p] + done[p] /\ taken[p] <= sent[p]
    BY <1>2 DEF EchoInv, StreamInv, InBuffer
  <2>2. /\ length[p] \in Nat /\ done[p] \in Nat /\ taken[p] \in Nat /\ sent[p] \in Nat
        /\ Len(echoed[p]) \in Nat
    BY EchoConstantsOK, LenProperties DEF TypeOK, EchoConstantsOK
  <2>3. /\ Len(longer) = Len(echoed[p]) + n
        /\ n \in Nat /\ n > 0 /\ done[p] + n <= length[p]
    BY <1>3
  <2>4. Len(echoed[p]) + n <= sent[p]
    <3>1. Len(echoed[p]) + n <= taken[p]
      BY <2>1, <2>2, <2>3
    <3> QED BY <2>1, <2>2, <2>3, <3>1
  <2> QED BY <2>2, <2>3, <2>4
<1>7. Links[p] = "up" /\ Link(p)' = "up"
  BY <1>2 DEF Link, Links
<1>8. Links' = Links
  <2>1. \A q \in Peers : Link(q)' = Link(q)
    BY <1>2, <1>7 DEF Link, Links
  <2> QED BY <2>1 DEF Links
<1> QED BY <1>2, <1>4, <1>5, <1>6, <1>7, <1>8 DEF Echo!Echo, Links

\* Every step is one of EchoStream, or none.
LEMMA StreamStep ==
  ASSUME TypeOK, EchoInv, [Next]_vars
  PROVE  [Echo!Next]_<<sent, echoed, Links>>
<1> DEFINE Unseen == UNCHANGED <<sent, echoed, Links>>
\* The acceptor.
<1>1. ASSUME NEW p \in Peers, Accept(p) PROVE Unseen
  BY <1>1 DEF Accept, peerVars, Links, Link
<1>2. ASSUME Detach PROVE Unseen
  <2>1. UNCHANGED <<sent, echoed, peer>>
    BY <1>2 DEF Detach, peerVars
  <2>2. \A q \in Peers : thread'[q] = "closed" <=> thread[q] = "closed"
    BY <1>2 DEF Detach, Goto, TypeOK
  <2> QED BY <2>1, <2>2 DEF Links, Link
\* The session of one peer.
<1>3. ASSUME Terminate PROVE Unseen
  BY <1>3 DEF Terminate, peerVars, Links, Link
<1>4. ASSUME NEW p \in Peers, Names(p), ~Terminate PROVE Echo!Close(p) \/ Unseen
  <2>1. UNCHANGED <<sent, echoed, peer>>
    BY <1>4 DEF Names, Throws, peerVars
  <2>2. CASE Goto(p, "farewell", "closed")
    <3>1. /\ thread[p] = "farewell" /\ thread'[p] = "closed"
          /\ \A q \in Peers \ {p} : UNCHANGED thread[q]
      BY <2>2 DEF Goto, TypeOK
    <3>2. Links' = [Links EXCEPT ![p] = "closed"]
      BY <2>1, <3>1, OneLinkMoves DEF Link
    <3>3. \/ Links[p] = "up" /\ Len(echoed[p]) = sent[p]
          \/ Links[p] = "broken"
      BY <3>1 DEF Links, Link, EchoInv, StreamInv, InBuffer
    <3> QED BY <2>1, <3>2, <3>3 DEF Echo!Close, Links
  <2>3. CASE Goto(p, "hello", "read") \/ Goto(p, "message", "write")
    <3>1. \A q \in Peers : thread'[q] = "closed" <=> thread[q] = "closed"
      BY <2>3 DEF Goto, TypeOK
    <3> QED BY <2>1, <3>1 DEF Links, Link
  <2> QED BY <1>4, <2>2, <2>3 DEF Names, Throws
<1>5. ASSUME NEW p \in Peers, ReadSome(p) PROVE Unseen
  <2>1. UNCHANGED <<sent, echoed, peer>>
    BY <1>5 DEF ReadSome, peerVars
  <2>2. \A q \in Peers : thread'[q] = "closed" <=> thread[q] = "closed"
    BY <1>5 DEF ReadSome, Goto, TypeOK
  <2> QED BY <2>1, <2>2 DEF Links, Link
<1>6. ASSUME NEW p \in Peers, ReadEnds(p) PROVE Unseen
  <2>1. UNCHANGED <<sent, echoed, peer>>
    BY <1>6 DEF ReadEnds, peerVars
  <2>2. \A q \in Peers : thread'[q] = "closed" <=> thread[q] = "closed"
    BY <1>6 DEF ReadEnds, Goto, TypeOK
  <2> QED BY <2>1, <2>2 DEF Links, Link
<1>7. ASSUME NEW p \in Peers, Write(p), ~Terminate PROVE Echo!Echo(p)
  BY <1>7, WriteEchoes
\* The peers, and a step of nothing.
<1>8. ASSUME NEW p \in Peers, Connect(p) PROVE Unseen
  <2>1. UNCHANGED <<sent, echoed, thread>>
    BY <1>8 DEF Connect, PeerStep
  <2>2. \A q \in Peers : peer'[q] = "reset" <=> peer[q] = "reset"
    BY <1>8 DEF Connect, TypeOK
  <2> QED BY <2>1, <2>2 DEF Links, Link
<1>9. ASSUME NEW p \in Peers, Send(p) PROVE Echo!Send(p)
  <2>1. /\ sent' = [sent EXCEPT ![p] = @ + 1] /\ UNCHANGED <<echoed, thread, peer>>
        /\ peer[p] = "open"
    BY <1>9 DEF Send, PeerStep
  <2>2. Links[p] = "up" /\ Links' = Links
    BY <2>1 DEF Links, Link, EchoInv, StreamInv
  <2> QED BY <2>1, <2>2 DEF Echo!Send, Links
<1>10. ASSUME NEW p \in Peers, Receive(p) PROVE Unseen
  BY <1>10 DEF Receive, PeerStep, Links, Link
<1>11. ASSUME NEW p \in Peers, Leave(p) PROVE Echo!Break(p) \/ Unseen
  <2>1. UNCHANGED <<sent, echoed, thread>> /\ \A q \in Peers \ {p} : UNCHANGED peer[q]
    BY <1>11 DEF Leave, PeerStep, TypeOK
  <2>2. \/ peer[p] # "reset" /\ peer'[p] = "reset"
        \/ peer[p] # "reset" /\ peer'[p] # "reset"
    BY <1>11 DEF Leave, TypeOK
  <2>3. CASE thread[p] = "closed" \/ peer'[p] # "reset"
    <3>1. \A q \in Peers : Link(q)' = Link(q)
      BY <2>1, <2>2, <2>3 DEF Link
    <3> QED BY <2>1, <3>1 DEF Links
  <2>4. CASE thread[p] # "closed" /\ peer'[p] = "reset"
    <3>1. Links[p] = "up" /\ Links' = [Links EXCEPT ![p] = "broken"]
      BY <2>1, <2>2, <2>4, OneLinkMoves DEF Link, Links
    <3> QED BY <2>1, <3>1 DEF Echo!Break, Links
  <2> QED BY <2>3, <2>4
<1>12. ASSUME UNCHANGED vars PROVE Unseen
  BY <1>12 DEF vars, peerVars, Links, Link
<1> HIDE DEF Unseen
<1>13. Unseen \/ \E p \in Peers : \/ Echo!Send(p) \/ Echo!Echo(p)
                                  \/ Echo!Break(p) \/ Echo!Close(p)
  BY <1>1, <1>2, <1>3, <1>4, <1>5, <1>6, <1>7, <1>8, <1>9, <1>10, <1>11, <1>12
  DEF Next, acceptor, session
<1> QED BY <1>13 DEF Unseen, Echo!Next

\* Each session gives its peer's stream back, in order, until the connection breaks
\* or is closed, and closes a connection that holds only when nothing is missing.
THEOREM EchoImplementsStream == Spec => ImplementsStream
<1>1. Init => Echo!Init
  BY DEF Init, Echo!Init, Echo!Stream, Link
<1>2. TypeOK /\ EchoInv /\ [Next]_vars
        => [Echo!Next]_<<sent, echoed, [p \in Peers |-> Link(p)]>>
  BY StreamStep DEF Links
<1> QED BY <1>1, <1>2, EchoAlways, PTL DEF Spec, ImplementsStream, Echo!Spec

=============================================================================
