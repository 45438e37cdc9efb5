---------------------------- MODULE ClientStart -----------------------------
(***************************************************************************)
(* The client's main thread up to a session: start() of Client/main.cpp,   *)
(* Client::init and Client::authorize, Socket::init and connect.  Each     *)
(* attempt of start() runs init; a session, once there is one, is          *)
(* ClientSession's.                                                        *)
(***************************************************************************)
EXTENDS PacketFormat

CONSTANTS
  Sizes,        \* lengths of logins and passwords the operator may type
  MaxAttempts   \* the attempts of start(), 5 in the code

ASSUME StartConstantsOK ==
  /\ Sizes \subseteq Nat
  /\ MaxAttempts \in Nat \ {0}

VARIABLES
  pc,             \* what the main thread does next
  ctr_reconnect,  \* the attempt under way
  login, pass,    \* lengths of what was typed
  network,        \* "works": no call fails; "any": each may
  started,        \* Client::started
  authSocket,     \* handle of Client::authSocket, NoHandle for INVALID_SOCKET
  authStatus,     \* authSocket.status
  dataSocket, dataStatus,
  handles         \* handles the process holds; one is named by its attempt

NoHandle == 0

typedVars == <<login, pass, network>>
authVars  == <<authSocket, authStatus>>
dataVars  == <<dataSocket, dataStatus>>
vars == <<pc, ctr_reconnect, typedVars, started, authVars, dataVars, handles>>

MayFail == network = "any"

-----------------------------------------------------------------------------
(* start(): the login, the password and the loop over the attempts.        *)

TypeLogin ==
  /\ pc = "login"
  /\ login' \in Sizes
  /\ pc' = IF login' >= Uint8Max THEN "login" ELSE "pass"
  /\ UNCHANGED <<ctr_reconnect, pass, network, started, authVars, dataVars, handles>>

TypePass ==
  /\ pc = "pass"
  /\ pass' \in Sizes
  /\ pc' = IF pass' >= Uint8Max THEN "login" ELSE "init"
  /\ UNCHANGED <<ctr_reconnect, login, network, started, authVars, dataVars, handles>>

\* Mutant: a failed attempt is not counted.
BugNextAttempt == pc' = "init" /\ UNCHANGED ctr_reconnect

\* init returned an error: the next attempt, or the end of start().
NextAttempt ==
  /\ ctr_reconnect' = ctr_reconnect + 1
  /\ pc' = IF ctr_reconnect < MaxAttempts THEN "init" ELSE "gave_up"

-----------------------------------------------------------------------------
(* Client::init, call by call.  None of its error paths closes a socket or *)
(* resets started.                                                         *)

\* Mutant: the member keeps what the attempt before left in it.
BugBeginInit ==
  /\ pc = "init"
  /\ \/ pc' = "create" /\ UNCHANGED ctr_reconnect
     \/ MayFail /\ NextAttempt
  /\ UNCHANGED <<typedVars, started, authVars, dataVars, handles>>

\* The members, and WSAStartup.
BeginInit ==
  /\ pc = "init"
  /\ started' = FALSE
  /\ \/ pc' = "create" /\ UNCHANGED ctr_reconnect
     \/ MayFail /\ NextAttempt
  /\ UNCHANGED <<typedVars, authVars, dataVars, handles>>

\* Mutant: the count of open directions is added to instead of set.
BugCreateAuth ==
  /\ pc = "create"
  /\ \/ /\ authSocket' = ctr_reconnect
        /\ authStatus' = authStatus + 2
        /\ handles' = handles \cup {ctr_reconnect}
        /\ pc' = "connect"
        /\ UNCHANGED ctr_reconnect
     \/ /\ MayFail
        /\ authSocket' = NoHandle
        /\ NextAttempt
        /\ UNCHANGED <<authStatus, handles>>
  /\ UNCHANGED <<typedVars, started, dataVars>>

\* Mutant: both sockets are created before the authorisation.
BugCreateBoth ==
  /\ pc = "create"
  /\ authSocket' = ctr_reconnect
  /\ dataSocket' = ctr_reconnect
  /\ authStatus' = 2
  /\ dataStatus' = 2
  /\ handles' = handles \cup {ctr_reconnect}
  /\ pc' = "connect"
  /\ UNCHANGED <<ctr_reconnect, typedVars, started>>

\* initSocket: Socket::init overwrites the handle of the attempt before, and its
\* status only when socket() succeeds.  A timeout that cannot be set is a warning.
CreateAuth ==
  /\ pc = "create"
  /\ \/ /\ authSocket' = ctr_reconnect
        /\ authStatus' = 2
        /\ handles' = handles \cup {ctr_reconnect}
        /\ pc' = "connect"
        /\ UNCHANGED ctr_reconnect
     \/ /\ MayFail
        /\ authSocket' = NoHandle
        /\ NextAttempt
        /\ UNCHANGED <<authStatus, handles>>
  /\ UNCHANGED <<typedVars, started, dataVars>>

Connect ==
  /\ pc = "connect"
  /\ \/ started' = TRUE /\ pc' = "authorize" /\ UNCHANGED ctr_reconnect
     \/ MayFail /\ NextAttempt /\ UNCHANGED started
  /\ UNCHANGED <<typedVars, authVars, dataVars, handles>>

\* authorize sends on dataSocket, and send fails on INVALID_SOCKET.  The rest of
\* init, dataSocket and the threads, comes after the server's answer.
AuthOutcomes ==
  IF dataSocket = NoHandle THEN {"failed"}
  ELSE IF MayFail THEN {"failed", "authorized"} ELSE {"authorized"}

Authorize ==
  /\ pc = "authorize"
  /\ \E outcome \in AuthOutcomes :
       IF outcome = "failed"
       THEN NextAttempt /\ UNCHANGED dataVars
       ELSE /\ dataSocket' = ctr_reconnect /\ dataStatus' = 2
            /\ pc' = "session"
            /\ UNCHANGED ctr_reconnect
  /\ UNCHANGED <<typedVars, started, authVars, handles>>

\* main waits for a key; the process then ends and every handle is closed.
Exit ==
  /\ pc = "gave_up"
  /\ pc' = "exit"
  /\ handles' = {}
  /\ UNCHANGED <<ctr_reconnect, typedVars, started, authVars, dataVars>>

-----------------------------------------------------------------------------
\* The instance of Client is static: its members start as zeros.
Init ==
  /\ pc = "login"
  /\ ctr_reconnect = 1
  /\ login = 0 /\ pass = 0
  /\ network \in {"works", "any"}
  /\ started = FALSE
  /\ authSocket = NoHandle /\ authStatus = 0
  /\ dataSocket = NoHandle /\ dataStatus = 0
  /\ handles = {}

Attempt == BeginInit \/ CreateAuth \/ Connect \/ Authorize

Next == TypeLogin \/ TypePass \/ Attempt \/ Exit

Spec == Init /\ [][Next]_vars

\* Every call of init returns; typing is the operator's.
FairSpec == Spec /\ WF_vars(Attempt)

-----------------------------------------------------------------------------
(* What is checked.                                                        *)

Attempts == 1 .. MaxAttempts

TypeOK ==
  /\ pc \in {"login", "pass", "init", "create", "connect", "authorize",
             "session", "gave_up", "exit"}
  /\ ctr_reconnect \in 1 .. MaxAttempts + 1
  /\ login \in Nat /\ pass \in Nat
  /\ network \in {"works", "any"}
  /\ started \in BOOLEAN
  /\ authSocket \in Attempts \cup {NoHandle} /\ dataSocket \in Attempts \cup {NoHandle}
  /\ authStatus \in 0 .. 2 /\ dataStatus \in 0 .. 2
  /\ handles \subseteq Attempts

\* No error path resets started or closes a socket, and Socket::init overwrites the
\* handle, and not the status, when socket() fails.  Still a client that says it is
\* started, between the attempts and after the last too, has an authSocket that is
\* open in both directions, whichever calls of whichever attempts failed.
StartedHasSocket ==
  started /\ pc # "exit" => authSocket \in handles /\ authStatus = 2

\* Whatever calls fail and whatever is typed, no attempt gets past authorize: it
\* needs the dataSocket that init creates only after it.
NoSession == pc # "session"

\* What authorize builds: the header, and the two writes after it.
AuthHeader == <<BitField(login), BitField(pass)>>
AuthPacket ==
  WriteData(WriteData(NewPacket(AuthHeader), [i \in 1 .. login |-> "login"]),
            [i \in 1 .. pass |-> "pass"])

\* Whatever was typed, authorize's writes stay inside the packet, although
\* availableSize answers with the size asked for.
AuthPacketInBounds ==
  pc = "authorize" =>
    AuthPacket.payload = AuthHeader /\ AuthPacket.offset = AuthPacket.dataSize

\* However the calls fail, start() returns or has a session.
StartReturns == pc = "init" ~> pc \in {"session", "gave_up", "exit"}

\* Where no call fails the client is authorised.
ClientAuthorizes == pc = "init" /\ network = "works" ~> pc = "session"

=============================================================================
