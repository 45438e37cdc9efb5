-------------------------- MODULE ClientStartProofs --------------------------
(***************************************************************************)
(* Theorems about ClientStart, for all sizes and any number of attempts,   *)
(* and the lemmas about packets that authorize rests on.                   *)
(***************************************************************************)
EXTENDS ClientStart, TLAPS

-----------------------------------------------------------------------------
(* Packets.                                                                *)

\* The constructor leaves the cursor at the end of the payload, which is the data.
LEMMA FactoryPacketFull ==
  ASSUME NEW S, NEW data \in Seq(S)
  PROVE  NewPacket(data) = [dataSize |-> Len(data), offset |-> Len(data), payload |-> data]
<1> DEFINE cells == [i \in 1 .. Len(data) |-> 0]
           empty == [dataSize |-> Len(data), offset |-> 0, payload |-> cells]
           written == [i \in 1 .. empty.dataSize |->
                         IF i \in empty.offset + 1 .. empty.offset + Len(data)
                         THEN data[i - empty.offset] ELSE empty.payload[i]]
<1>1. Len(data) \in Nat
  OBVIOUS
<1>2. AvailableSize(empty, Len(data)) = Len(data)
  BY <1>1 DEF AvailableSize
<1>3. NewPacket(data) = [empty EXCEPT !.payload = written, !.offset = empty.offset + Len(data)]
  BY <1>2, Zenon DEF NewPacket, WriteData
<1>4. written = data
  <2>1. DOMAIN written = 1 .. Len(data)
    OBVIOUS
  <2>2. \A i \in 1 .. Len(data) : written[i] = data[i]
    BY <1>1
  <2> QED
    BY <2>1, <2>2, <1>1
<1>5. empty.offset + Len(data) = Len(data)
  BY <1>1
<1> HIDE DEF written
<1> QED
  BY <1>3, <1>4, <1>5

\* writeData on such a packet changes nothing: availableSize is zero.
LEMMA WriteToFullPacket ==
  ASSUME NEW S, NEW full \in Seq(S), NEW data,
         NEW p, p = [dataSize |-> Len(full), offset |-> Len(full), payload |-> full]
  PROVE  WriteData(p, data) = p
<1> DEFINE written == [i \in 1 .. p.dataSize |->
                         IF i \in p.offset + 1 .. p.offset + 0
                         THEN data[i - p.offset] ELSE p.payload[i]]
<1>1. Len(full) \in Nat
  OBVIOUS
<1>2. AvailableSize(p, Len(data)) = 0
  BY <1>1 DEF AvailableSize
<1>3. WriteData(p, data) = [p EXCEPT !.payload = written, !.offset = p.offset + 0]
  BY <1>2, Zenon DEF WriteData
<1>4. written = full
  <2>1. DOMAIN written = 1 .. Len(full)
    OBVIOUS
  <2>2. \A i \in 1 .. Len(full) : written[i] = full[i]
    BY <1>1
  <2> QED
    BY <2>1, <2>2, <1>1
<1>5. p.offset + 0 = Len(full)
  BY <1>1
<1> HIDE DEF written
<1> QED
  BY <1>3, <1>4, <1>5

-----------------------------------------------------------------------------
(* The start-up of the client.                                             *)

\* What NoSession rests on: dataSocket is created by nothing but an authorisation,
\* which needs it, whatever the attempts left elsewhere.
DataAfterAuth == NoSession /\ dataSocket = NoHandle /\ dataStatus = 0

\* The attempt under way is one of those that start() makes.
AttemptCounted == pc \notin {"gave_up", "exit"} => ctr_reconnect \in Attempts

\* What StartedHasSocket rests on: init resets started before it overwrites the
\* socket of the attempt before, and sets it when the new one is connected.
SocketReady ==
  /\ pc \in {"create", "connect"} => ~started
  /\ pc = "connect" => authSocket \in handles /\ authStatus = 2
  /\ StartedHasSocket

StartInv == TypeOK /\ DataAfterAuth /\ AttemptCounted /\ SocketReady

\* A failed call of init starts another attempt only if one is left.
LEMMA NextAttemptCounted ==
  ASSUME ctr_reconnect \in Attempts, NextAttempt
  PROVE  /\ pc' \in {"init", "gave_up"}
         /\ ctr_reconnect' \in 1 .. MaxAttempts + 1
         /\ pc' = "init" => ctr_reconnect' \in Attempts
BY StartConstantsOK DEF StartConstantsOK, NextAttempt, Attempts

LEMMA AttemptsAreNumbers ==
  ASSUME NEW n \in Attempts
  PROVE  n \in 1 .. MaxAttempts + 1
BY StartConstantsOK DEF StartConstantsOK, Attempts

\* The invariant holds of every state, whichever calls fail.
THEOREM StartInvariant == Spec => []StartInv
<1>1. Init => StartInv
  <2> SUFFICES ASSUME Init PROVE StartInv
    OBVIOUS
  <2>1. 1 \in Attempts
    BY StartConstantsOK DEF StartConstantsOK, Attempts
  <2>2. 1 \in 1 .. MaxAttempts + 1
    BY <2>1, AttemptsAreNumbers
  <2>3. 0 \in Nat /\ 0 \in 0 .. 2 /\ {} \subseteq Attempts /\ FALSE \in BOOLEAN
    OBVIOUS
  <2> QED
    BY <2>1, <2>2, <2>3, Zenon DEF Init, StartInv, TypeOK, DataAfterAuth, NoSession, AttemptCounted,
                                   SocketReady, StartedHasSocket
<1>2. StartInv /\ [Next]_vars => StartInv'
  <2> SUFFICES ASSUME StartInv, [Next]_vars
               PROVE  StartInv'
    OBVIOUS
  <2> USE DEF StartInv, TypeOK, DataAfterAuth, NoSession, AttemptCounted, SocketReady,
              StartedHasSocket, Attempts
  <2>1. CASE TypeLogin
    BY <2>1, StartConstantsOK DEF StartConstantsOK, TypeLogin, authVars, dataVars
  <2>2. CASE TypePass
    BY <2>2, StartConstantsOK DEF StartConstantsOK, TypePass, authVars, dataVars
  <2>3. CASE BeginInit
    BY <2>3, NextAttemptCounted DEF BeginInit, typedVars, authVars, dataVars
  <2>4. CASE CreateAuth
    <3>1. ctr_reconnect \in Attempts /\ handles \cup {ctr_reconnect} \subseteq Attempts
      BY <2>4 DEF CreateAuth
    <3>2. CASE /\ authSocket' = ctr_reconnect /\ authStatus' = 2
               /\ handles' = handles \cup {ctr_reconnect}
               /\ pc' = "connect" /\ UNCHANGED ctr_reconnect
      BY <2>4, <3>1, <3>2 DEF CreateAuth, typedVars, dataVars
    <3>3. CASE NextAttempt /\ authSocket' = NoHandle /\ UNCHANGED <<authStatus, handles>>
      BY <2>4, <3>1, <3>3, NextAttemptCounted DEF CreateAuth, typedVars, dataVars
    <3> QED
      BY <2>4, <3>2, <3>3 DEF CreateAuth
  <2>5. CASE Connect
    BY <2>5, NextAttemptCounted DEF Connect, typedVars, authVars, dataVars
  <2>6. CASE Authorize
    BY <2>6, NextAttemptCounted DEF Authorize, AuthOutcomes, typedVars, authVars, dataVars
  <2>7. CASE Exit
    BY <2>7 DEF Exit, typedVars, authVars, dataVars
  <2>8. CASE UNCHANGED vars
    BY <2>8 DEF vars, typedVars, authVars, dataVars
  <2> QED
    BY <2>1, <2>2, <2>3, <2>4, <2>5, <2>6, <2>7, <2>8 DEF Next, Attempt
<1> QED
  BY <1>1, <1>2, PTL DEF Spec

\* The members of the client keep their types, for any sizes and attempts.
THEOREM StartTypes == Spec => []TypeOK
<1>1. StartInv => TypeOK
  BY DEF StartInv
<1> QED
  BY <1>1, StartInvariant, PTL

\* A client that says it is started has an open authSocket, whichever calls of
\* whichever attempts failed.
THEOREM StartedOnOpenSocket == Spec => []StartedHasSocket
<1>1. StartInv => StartedHasSocket
  BY DEF StartInv, SocketReady
<1> QED
  BY <1>1, StartInvariant, PTL

\* At this commit no attempt of start() leads to a session, whichever calls fail,
\* whatever was typed and however many attempts there are.
THEOREM NoSessionStarts == Spec => []NoSession
<1>1. StartInv => NoSession
  BY DEF StartInv, DataAfterAuth
<1> QED
  BY <1>1, StartInvariant, PTL

\* Whatever was typed, the writes of authorize leave the packet as it was made.
THEOREM AuthorizeStaysInBounds == Spec => []AuthPacketInBounds
<1>1. AuthPacketInBounds
  <2> DEFINE made == NewPacket(AuthHeader)
  <2>1. AuthHeader \in Seq({BitField(login), BitField(pass)})
    BY DEF AuthHeader
  <2>2. made = [dataSize |-> Len(AuthHeader), offset |-> Len(AuthHeader), payload |-> AuthHeader]
    BY <2>1, FactoryPacketFull
  <2> HIDE DEF made
  <2>3. \A data : WriteData(made, data) = made
    BY <2>1, <2>2, WriteToFullPacket
  <2>4. AuthPacket = made
    BY <2>3, Zenon DEF AuthPacket, made
  <2> QED
    BY <2>2, <2>4 DEF AuthPacketInBounds
<1> QED
  BY <1>1, PTL

=============================================================================
