----------------------------- MODULE ServerCore -----------------------------
(***************************************************************************)
(* The server process: Server/Server.cpp, Server/Cleaner.cpp and the       *)
(* console loop of Server/main.cpp.  Four threads share clients_mutex and  *)
(* clientPool: "main" reads commands, "first" and "second" both run        *)
(* Server::processIncomeConnection, "cleaner" runs                         *)
(* Cleaner::inactiveClientsCleaner.                                        *)
(*                                                                         *)
(* A session of the pool is seen from outside, as the pool's users see it: *)
(* isRunning() ("running"), a thread of it has gone and isRunning() is     *)
(* FALSE ("failing"), both of its threads have returned ("ended"),         *)
(* isDisconnected() ("disconnected").  A new ConnectedClient whose threads *)
(* were never created has the flags of a disconnected one.                 *)
(***************************************************************************)
EXTENDS Naturals

CONSTANTS
  Clients,     \* keys clientPool may hold
  Commands,    \* the console commands the operator may type
  MaxClients,  \* MAX_CLIENT_COUNT of Server.h, 10 in the code
  MaxBacklog   \* bound: connections waiting in the listen queue

WalkCommands   == {"list", "list_detailed"}  \* printClientsList
PacketCommands == {"send_all", "save"}       \* touch the sessions' packet containers
CleanerCommands == {"clean", "enable_cleaner", "get_cleaner_mode",
                    "change_cleaner_mode", "disable_cleaner"}
AllCommands == WalkCommands \cup PacketCommands \cup CleanerCommands
                 \cup {"send", "close"}

ASSUME ConstantsOK ==
  /\ Commands \subseteq AllCommands
  /\ MaxClients \in Nat
  /\ MaxBacklog \in Nat

VARIABLES
  pc,              \* what each thread does next
  mutex,           \* owner of Server::clients_mutex, Free when unlocked
  todo,            \* clients a thread walking clientPool has still to visit
  active,          \* what getActiveClientsCount has counted, per handler
  started,         \* Server::started
  authSocket,      \* Server::authSocket
  backlog,         \* connections the TCP stack holds for accept()
  joinable,        \* std::thread members that are joinable
  cleanerStarted,  \* Cleaner::started
  mode,            \* Cleaner::mode
  pool,            \* keys present in Server::clientPool
  session          \* how each session looks to the pool's users

netVars     == <<started, authSocket, backlog>>
cleanerVars == <<cleanerStarted, mode>>
poolVars    == <<pool, session>>
lockVars    == <<mutex, todo, active>>
vars == <<pc, lockVars, netVars, joinable, cleanerVars, poolVars>>

Handlers == {"first", "second"}
Workers  == Handlers \cup {"cleaner"}
Threads  == Workers \cup {"main"}
Free     == "free"

\* enum class CleanerMode, and the bytes of the keys "0" and "1" that
\* changeMode's menu names.
OnlyDisconnect == 0
AgressiveMode  == 1
Key0 == 48
Key1 == 49
ModeKeys == {OnlyDisconnect, AgressiveMode, Key0, Key1}

Phases == {"running", "failing", "ended", "disconnected"}

MainLocks == {"walk_lock", "packets_lock", "send_lock", "clean_lock", "clear_lock"}
MainLabels == MainLocks \cup
  {"start", "spawn_first", "spawn_second", "prompt", "walk", "packets", "send",
   "send_data", "clean", "enable", "join_cleaner", "join_first", "join_second",
   "close_cleaner", "clear", "close_socket", "exit", "failed", "aborted", "hung"}
HandlerLabels ==
  {"none", "loop", "count_lock", "count", "full", "poll", "select", "nap",
   "ready", "accept", "touch_lock", "touch", "exit"}
CleanerLabels == {"none", "loop", "clean_lock", "clean", "sleep", "exit"}

\* Where a thread owns clients_mutex and walks or may change the pool.
Critical == {"walk", "packets", "send", "send_data", "clean", "clear", "count", "touch"}
\* Where a thread does not run: before std::thread starts it and after it returned.
Dead == {"none", "exit"}

-----------------------------------------------------------------------------
(* Steps and the mutex.  An uncaught exception or an invalid access ends   *)
(* the whole process: pc["main"] = "aborted" stops every thread.           *)

At(t, label) == pc["main"] # "aborted" /\ pc[t] = label

Goto(t, label) == pc' = [pc EXCEPT ![t] = label]

Lock(t, from, to, visits) ==
  /\ At(t, from)
  /\ mutex = Free
  /\ mutex' = t
  /\ todo' = [todo EXCEPT ![t] = visits]
  /\ Goto(t, to)
  /\ UNCHANGED <<active, netVars, joinable, cleanerVars, poolVars>>

Unlock(t, from, to) ==
  /\ At(t, from)
  /\ todo[t] = {}
  /\ mutex' = Free
  /\ Goto(t, to)
  /\ UNCHANGED <<todo, active, netVars, joinable, cleanerVars, poolVars>>

\* std::mutex::lock() by the thread that owns the mutex is undefined: the
\* library may throw, which nothing catches, or block for good.
Relock ==
  /\ \E label \in MainLocks : At("main", label)
  /\ mutex = "main"
  /\ \E outcome \in {"aborted", "hung"} : Goto("main", outcome)
  /\ UNCHANGED <<lockVars, netVars, joinable, cleanerVars, poolVars>>

-----------------------------------------------------------------------------
(* Server::startServer.                                                    *)

\* initSockets either fails at socket, bind, setsockopt or listen, or leaves
\* the socket listening and sets started.
InitSockets ==
  \/ authSocket' = "open" /\ started' = TRUE /\ Goto("main", "spawn_first")
  \/ Goto("main", "failed") /\ UNCHANGED <<authSocket, started>>

StartServer ==
  /\ At("main", "start")
  /\ InitSockets
  /\ UNCHANGED <<lockVars, backlog, joinable, cleanerVars, poolVars>>

SpawnHandler(h, from, to) ==
  /\ At("main", from)
  /\ pc' = [pc EXCEPT !["main"] = to, ![h] = "loop"]
  /\ joinable' = joinable \cup {h}
  /\ UNCHANGED <<lockVars, netVars, cleanerVars, poolVars>>

-----------------------------------------------------------------------------
(* The console loop of start() in main.cpp.  Typing is the operator's.     *)

Type(command, label) ==
  /\ command \in Commands
  /\ At("main", "prompt")
  /\ Goto("main", label)
  /\ UNCHANGED <<lockVars, netVars, joinable, cleanerVars, poolVars>>

TypeLocking ==
  \/ \E command \in WalkCommands : Type(command, "walk_lock")
  \/ \E command \in PacketCommands : Type(command, "packets_lock")
  \/ Type("send", "send_lock")
  \/ Type("clean", "clean_lock")

\* printMode hands the enum itself to a %s: 0 prints as a null string, 1 is
\* not an address.
TypeGetMode == mode = AgressiveMode /\ Type("get_cleaner_mode", "aborted")

\* changeMode reads one character into a uint8_t and compares the byte.
TypeMode ==
  /\ "change_cleaner_mode" \in Commands
  /\ At("main", "prompt")
  /\ \E key \in ModeKeys : mode' = IF key \in {OnlyDisconnect, AgressiveMode} THEN key ELSE mode
  /\ UNCHANGED <<pc, lockVars, netVars, joinable, cleanerStarted, poolVars>>

\* A joinable std::thread that is assigned to ends the process.  The thread
\* runs before startCleaner sets started.
TypeEnable ==
  /\ "enable_cleaner" \in Commands
  /\ At("main", "prompt")
  /\ ~cleanerStarted
  /\ mode' = OnlyDisconnect
  /\ IF "cleaner" \in joinable
     THEN Goto("main", "aborted") /\ UNCHANGED joinable
     ELSE /\ pc' = [pc EXCEPT !["main"] = "enable", !["cleaner"] = "loop"]
          /\ joinable' = joinable \cup {"cleaner"}
  /\ UNCHANGED <<lockVars, netVars, cleanerStarted, poolVars>>

EnableCleaner ==
  /\ At("main", "enable")
  /\ cleanerStarted' = TRUE
  /\ mode' = OnlyDisconnect
  /\ Goto("main", "prompt")
  /\ UNCHANGED <<lockVars, netVars, joinable, poolVars>>

\* closeCleaner stops the thread and joins it.
TypeDisable ==
  /\ "disable_cleaner" \in Commands
  /\ At("main", "prompt")
  /\ cleanerStarted
  /\ cleanerStarted' = FALSE
  /\ Goto("main", "join_cleaner")
  /\ UNCHANGED <<lockVars, netVars, joinable, mode, poolVars>>

\* Mutant: closeCleaner returns without joining the thread it stopped.
BugNoJoin ==
  /\ At("main", "join_cleaner")
  /\ Goto("main", IF started THEN "prompt" ELSE "clear_lock")
  /\ UNCHANGED <<lockVars, netVars, joinable, cleanerVars, poolVars>>

\* std::thread::join; closeCleaner returns to the console, or to closeServer,
\* which has cleared started before it called it.
JoinCleaner ==
  /\ At("main", "join_cleaner")
  /\ "cleaner" \in joinable => pc["cleaner"] = "exit"
  /\ joinable' = joinable \ {"cleaner"}
  /\ Goto("main", IF started THEN "prompt" ELSE "clear_lock")
  /\ UNCHANGED <<lockVars, netVars, cleanerVars, poolVars>>

-----------------------------------------------------------------------------
(* Walks of the pool under clients_mutex.  The order of the keys does not  *)
(* matter to what is checked, so a walk visits them in any order.          *)

Visited(t, c) == todo' = [todo EXCEPT ![t] = @ \ {c}]

\* processClientsByPair of list and list_detailed reads counters only.
WalkVisit ==
  /\ At("main", "walk")
  /\ \E c \in todo["main"] : Visited("main", c)
  /\ UNCHANGED <<pc, mutex, active, netVars, joinable, cleanerVars, poolVars>>

\* send_all pushes into mainPackets and save iterates the packet containers
\* while the session's own threads use them without a lock: a data race that
\* may end in an invalid access as long as the session has a thread.
PacketsVisit ==
  /\ At("main", "packets")
  /\ \E c \in todo["main"] :
       \/ Visited("main", c) /\ UNCHANGED pc
       \/ /\ session[c] \in {"running", "failing"}
          /\ Goto("main", "aborted")
          /\ UNCHANGED todo
  /\ UNCHANGED <<mutex, active, netVars, joinable, cleanerVars, poolVars>>

\* The sessions that findClient may return, whatever it is asked for: send asks
\* for running ones only.
FindClient == {c \in pool : session[c] = "running"}

\* Server::send reads the receiver with the mutex held.  std::stoi throws for
\* text that starts with no number; when no session matches, send returns and
\* the mutex stays locked.
SendTo ==
  /\ At("main", "send")
  /\ \/ FindClient # {} /\ Goto("main", "send_data")
     \/ Goto("main", "prompt")
     \/ Goto("main", "aborted")
  /\ UNCHANGED <<lockVars, netVars, joinable, cleanerVars, poolVars>>

\* Mutant: send returns with the mutex locked after the push too.
BugSendData ==
  /\ At("main", "send_data")
  /\ Goto("main", "prompt")
  /\ UNCHANGED <<lockVars, netVars, joinable, cleanerVars, poolVars>>

\* The data is typed and pushed into mainPackets, again beside the sender.
SendData ==
  /\ At("main", "send_data")
  /\ \/ mutex' = Free /\ Goto("main", "prompt")
     \/ Goto("main", "aborted") /\ UNCHANGED mutex
  /\ UNCHANGED <<todo, active, netVars, joinable, cleanerVars, poolVars>>

\* Mutant: an inactive session is erased without disconnect().
BugCleanNoJoin(t) ==
  /\ At(t, "clean")
  /\ \E c \in todo[t] :
       /\ Visited(t, c)
       /\ pool' = IF mode = AgressiveMode /\ session[c] = "ended" THEN pool \ {c} ELSE pool
  /\ UNCHANGED <<pc, mutex, active, netVars, joinable, cleanerVars, session>>

\* cleanInactiveClients, by the cleaner and by the "clean" command: a session
\* that neither runs nor is disconnected is disconnected, which joins its
\* threads, and erased in the aggressive mode.
CleanVisit(t) ==
  /\ At(t, "clean")
  /\ \E c \in todo[t] :
       /\ session[c] # "failing"
       /\ Visited(t, c)
       /\ IF session[c] = "ended"
          THEN /\ session' = [session EXCEPT ![c] = "disconnected"]
               /\ pool' = IF mode = AgressiveMode THEN pool \ {c} ELSE pool
          ELSE UNCHANGED poolVars
  /\ UNCHANGED <<pc, mutex, active, netVars, joinable, cleanerVars>>

\* Mutant: cleanInactiveClients walks the pool without clients_mutex.
BugCleanLock(t) ==
  /\ At(t, "clean_lock")
  /\ todo' = [todo EXCEPT ![t] = pool]
  /\ Goto(t, "clean")
  /\ UNCHANGED <<mutex, active, netVars, joinable, cleanerVars, poolVars>>

CleanLock(t) == Lock(t, "clean_lock", "clean", pool)

CleanDone(t) == Unlock(t, "clean", IF t = "main" THEN "prompt" ELSE "sleep")

WalkLock == Lock("main", "walk_lock", "walk", pool)
WalkDone == Unlock("main", "walk", "prompt")

PacketsLock == Lock("main", "packets_lock", "packets", pool)
PacketsDone == Unlock("main", "packets", "prompt")

SendLock == Lock("main", "send_lock", "send", {})

-----------------------------------------------------------------------------
(* Server::closeServer.                                                    *)

TypeClose ==
  /\ "close" \in Commands
  /\ At("main", "prompt")
  /\ started' = FALSE
  /\ Goto("main", "join_first")
  /\ UNCHANGED <<lockVars, authSocket, backlog, joinable, cleanerVars, poolVars>>

\* Mutant: closeServer goes on while the handler runs.
BugJoinHandler(h, from, to) ==
  /\ At("main", from)
  /\ joinable' = joinable \ {h}
  /\ Goto("main", to)
  /\ UNCHANGED <<lockVars, netVars, cleanerVars, poolVars>>

JoinHandler(h, from, to) ==
  /\ At("main", from)
  /\ h \in joinable => pc[h] = "exit"
  /\ joinable' = joinable \ {h}
  /\ Goto("main", to)
  /\ UNCHANGED <<lockVars, netVars, cleanerVars, poolVars>>

CloseCleaner ==
  /\ At("main", "close_cleaner")
  /\ cleanerStarted' = FALSE
  /\ Goto("main", IF cleanerStarted THEN "join_cleaner" ELSE "clear_lock")
  /\ UNCHANGED <<lockVars, netVars, joinable, mode, poolVars>>

ClearLock == Lock("main", "clear_lock", "clear", pool)

\* clientPool.clear() runs each ~ConnectedClient, hence disconnect(): a running
\* session is told to stop, and its threads are joined before it is destroyed.
ClearVisit ==
  /\ At("main", "clear")
  /\ \E c \in todo["main"] :
       \/ /\ session[c] = "running"
          /\ session' = [session EXCEPT ![c] = "failing"]
          /\ UNCHANGED <<pool, todo>>
       \/ /\ session[c] \in {"ended", "disconnected"}
          /\ session' = [session EXCEPT ![c] = "disconnected"]
          /\ pool' = pool \ {c}
          /\ Visited("main", c)
  /\ UNCHANGED <<pc, mutex, active, netVars, joinable, cleanerVars>>

ClearDone == Unlock("main", "clear", "close_socket")

CloseSocket ==
  /\ At("main", "close_socket")
  /\ authSocket' = "invalid"
  /\ Goto("main", "exit")
  /\ UNCHANGED <<lockVars, started, backlog, joinable, cleanerVars, poolVars>>

-----------------------------------------------------------------------------
(* Server::processIncomeConnection, run by both handlers.                  *)

HandlerLoop(h) ==
  /\ At(h, "loop")
  /\ Goto(h, IF started THEN "count_lock" ELSE "exit")
  /\ UNCHANGED <<lockVars, netVars, joinable, cleanerVars, poolVars>>

CountLock(h) == Lock(h, "count_lock", "count", pool)

CountVisit(h) ==
  /\ At(h, "count")
  /\ \E c \in todo[h] :
       /\ Visited(h, c)
       /\ active' = [active EXCEPT ![h] = IF session[c] = "running" THEN @ + 1 ELSE @]
  /\ UNCHANGED <<pc, mutex, netVars, joinable, cleanerVars, poolVars>>

\* Mutant: a handler that finds the server full goes on with the mutex locked.
BugCountLocked(h) ==
  /\ At(h, "count")
  /\ todo[h] = {}
  /\ mutex' = IF active[h] > MaxClients THEN h ELSE Free
  /\ active' = [active EXCEPT ![h] = 0]
  /\ Goto(h, IF active[h] > MaxClients THEN "full" ELSE "poll")
  /\ UNCHANGED <<todo, netVars, joinable, cleanerVars, poolVars>>

\* The handler sleeps only when more than MaxClients sessions run: with exactly
\* MaxClients it goes on to accept one more.
CountDone(h) ==
  /\ At(h, "count")
  /\ todo[h] = {}
  /\ mutex' = Free
  /\ active' = [active EXCEPT ![h] = 0]
  /\ Goto(h, IF active[h] > MaxClients THEN "full" ELSE "poll")
  /\ UNCHANGED <<todo, netVars, joinable, cleanerVars, poolVars>>

\* Mutant: the inner loop does not test isRunning().
BugPoll(h) ==
  /\ At(h, "poll")
  /\ Goto(h, "select")
  /\ UNCHANGED <<lockVars, netVars, joinable, cleanerVars, poolVars>>

\* The inner loop: select with a timeout until it reports a connection.  Two
\* handlers may both see the one connection that waits.
Poll(h) ==
  /\ At(h, "poll")
  /\ Goto(h, IF started THEN "select" ELSE "exit")
  /\ UNCHANGED <<lockVars, netVars, joinable, cleanerVars, poolVars>>

Select(h) ==
  /\ At(h, "select")
  /\ \/ backlog > 0 /\ Goto(h, "ready")
     \/ backlog = 0 /\ Goto(h, "nap")
     \/ Goto(h, "loop")  \* SOCKET_ERROR
  /\ UNCHANGED <<lockVars, netVars, joinable, cleanerVars, poolVars>>

Ready(h) ==
  /\ At(h, "ready")
  /\ Goto(h, IF started THEN "accept" ELSE "exit")
  /\ UNCHANGED <<lockVars, netVars, joinable, cleanerVars, poolVars>>

\* Mutant: accept() does not wait for a connection.
BugAccept(h) ==
  /\ At(h, "accept")
  /\ backlog' = backlog - 1
  /\ \E to \in {"touch_lock", "loop"} : Goto(h, to)
  /\ UNCHANGED <<lockVars, started, authSocket, joinable, cleanerVars, poolVars>>

\* accept() blocks while no connection waits: the listening socket is in the
\* blocking mode and SO_RCVTIMEO bounds receives only.
Accept(h) ==
  /\ At(h, "accept")
  /\ backlog > 0
  /\ backlog' = backlog - 1
  /\ \E to \in {"touch_lock", "loop"} : Goto(h, to)
  /\ UNCHANGED <<lockVars, started, authSocket, joinable, cleanerVars, poolVars>>

\* The accepted socket is dropped: the locked region holds a TODO.
TouchLock(h) == Lock(h, "touch_lock", "touch", {})
TouchDone(h) == Unlock(h, "touch", "loop")

HandlerSleep(h) ==
  /\ \/ At(h, "full") /\ Goto(h, "loop")
     \/ At(h, "nap") /\ Goto(h, "poll")
  /\ UNCHANGED <<lockVars, netVars, joinable, cleanerVars, poolVars>>

-----------------------------------------------------------------------------
(* Cleaner::inactiveClientsCleaner.                                        *)

CleanerLoop ==
  /\ At("cleaner", "loop")
  /\ Goto("cleaner", IF started /\ cleanerStarted THEN "clean_lock" ELSE "exit")
  /\ UNCHANGED <<lockVars, netVars, joinable, cleanerVars, poolVars>>

CleanerSleep ==
  /\ At("cleaner", "sleep")
  /\ Goto("cleaner", "loop")
  /\ UNCHANGED <<lockVars, netVars, joinable, cleanerVars, poolVars>>

-----------------------------------------------------------------------------
(* The environment: the network and the sessions' own threads.             *)

Arrive ==
  /\ pc["main"] # "aborted"
  /\ authSocket = "open"
  /\ backlog < MaxBacklog
  /\ backlog' = backlog + 1
  /\ UNCHANGED <<pc, lockVars, started, authSocket, joinable, cleanerVars, poolVars>>

\* The peer is lost or a call on its sockets fails: one thread leaves its loop.
SessionFails(c) ==
  /\ pc["main"] # "aborted"
  /\ c \in pool
  /\ session[c] = "running"
  /\ session' = [session EXCEPT ![c] = "failing"]
  /\ UNCHANGED <<pc, lockVars, netVars, joinable, cleanerVars, pool>>

\* The other thread sees isRunning() FALSE, after a socket timeout at most.
SessionEnds(c) ==
  /\ pc["main"] # "aborted"
  /\ session[c] = "failing"
  /\ session' = [session EXCEPT ![c] = "ended"]
  /\ UNCHANGED <<pc, lockVars, netVars, joinable, cleanerVars, pool>>

-----------------------------------------------------------------------------
\* A ConnectedClient is destroyed only after both of its threads were joined:
\* what is not in the pool is disconnected.  (The destructor of a joinable
\* std::thread would end the process.)
ErasedSessionsJoined == \A c \in Clients \ pool : session[c] = "disconnected"

\* The code that fills the pool is the TODO of Server.cpp:429: the server starts
\* with any pool.
Init ==
  /\ pc = [t \in Threads |-> IF t = "main" THEN "start" ELSE "none"]
  /\ mutex = Free
  /\ todo = [t \in Threads |-> {}]
  /\ active = [h \in Handlers |-> 0]
  /\ started = FALSE
  /\ authSocket = "invalid"
  /\ backlog = 0
  /\ joinable = {}
  /\ cleanerStarted = FALSE
  /\ mode = OnlyDisconnect
  /\ pool \in SUBSET Clients
  /\ session \in [Clients -> {"running", "disconnected"}]
  /\ ErasedSessionsJoined

\* What main does of its own: all but what the operator types.
MainWork ==
  \/ StartServer
  \/ SpawnHandler("first", "spawn_first", "spawn_second")
  \/ SpawnHandler("second", "spawn_second", "prompt")
  \/ WalkLock \/ WalkVisit \/ WalkDone
  \/ PacketsLock \/ PacketsVisit \/ PacketsDone
  \/ SendLock
  \/ CleanLock("main") \/ CleanVisit("main") \/ CleanDone("main")
  \/ EnableCleaner \/ JoinCleaner
  \/ JoinHandler("first", "join_first", "join_second")
  \/ JoinHandler("second", "join_second", "close_cleaner")
  \/ CloseCleaner
  \/ ClearLock \/ ClearVisit \/ ClearDone
  \/ CloseSocket
  \/ Relock

Operator == TypeLocking \/ TypeGetMode \/ TypeMode \/ TypeEnable \/ TypeDisable
              \/ TypeClose \/ SendTo \/ SendData

HandlerWork(h) ==
  \/ HandlerLoop(h) \/ CountLock(h) \/ CountVisit(h) \/ CountDone(h)
  \/ Poll(h) \/ Select(h) \/ Ready(h) \/ Accept(h)
  \/ TouchLock(h) \/ TouchDone(h) \/ HandlerSleep(h)

CleanerWork ==
  \/ CleanerLoop \/ CleanLock("cleaner") \/ CleanVisit("cleaner")
  \/ CleanDone("cleaner") \/ CleanerSleep

Next ==
  \/ MainWork
  \/ Operator
  \/ \E h \in Handlers : HandlerWork(h)
  \/ CleanerWork
  \/ Arrive
  \/ \E c \in Clients : SessionFails(c) \/ SessionEnds(c)

Spec == Init /\ [][Next]_vars

\* Every thread is scheduled, select and Sleep return, and a session that
\* stopped running ends; the operator and the network owe nothing.
Fairness ==
  /\ WF_vars(MainWork)
  /\ \A h \in Handlers : WF_vars(HandlerWork(h))
  /\ WF_vars(CleanerWork)
  /\ \A c \in Clients : WF_vars(SessionEnds(c))

FairSpec == Spec /\ Fairness

-----------------------------------------------------------------------------
(* What is checked.                                                        *)

TypeOK ==
  /\ pc \in [Threads -> MainLabels \cup HandlerLabels \cup CleanerLabels]
  /\ pc["main"] \in MainLabels
  /\ \A h \in Handlers : pc[h] \in HandlerLabels
  /\ pc["cleaner"] \in CleanerLabels
  /\ mutex \in Threads \cup {Free}
  /\ todo \in [Threads -> SUBSET Clients]
  /\ active \in [Handlers -> Nat]
  /\ started \in BOOLEAN
  /\ authSocket \in {"invalid", "open"}
  /\ backlog \in Nat
  /\ joinable \in SUBSET Workers
  /\ cleanerStarted \in BOOLEAN
  /\ mode \in {OnlyDisconnect, AgressiveMode}
  /\ pool \in SUBSET Clients
  /\ session \in [Clients -> Phases]

\* No walk of clientPool holds an iterator to an element another thread has
\* erased: whatever a thread has still to visit is in the pool.
IteratorsValid == \A t \in Threads : todo[t] \subseteq pool

\* No handler thread is inside select or accept on a socket closeServer has
\* closed, nor about to enter one.
SocketOpenInCall ==
  \A h \in Handlers : pc[h] \notin Dead => authSocket = "open"

\* Each session goes through the phases of SessionLifecycle, whoever of the
\* cleaner, the console and closeServer moves it, and none is erased early.
Lifecycle == INSTANCE SessionLifecycle
ImplementsLifecycle == Lifecycle!Spec

\* When closeServer has returned no thread of the server is left, no thread
\* object is joinable, the pool is empty and the mutex is free.
QuietAfterClose ==
  pc["main"] = "exit" =>
    /\ \A t \in Workers : pc[t] \in Dead
    /\ joinable = {}
    /\ pool = {}
    /\ mutex = Free
    /\ authSocket = "invalid"

\* Whenever the operator can type enable_cleaner with the cleaner off, the old
\* thread object is free to be assigned to: restarting never ends the process.
CleanerRestartSafe ==
  pc["main"] = "prompt" /\ ~cleanerStarted => "cleaner" \notin joinable

\* Who waits for whom: for clients_mutex, or in a join of closeServer or closeCleaner.
Joins == {<<"join_first", "first">>, <<"join_second", "second">>, <<"join_cleaner", "cleaner">>}
WaitsFor(t, u) ==
  \/ pc[t] \in MainLocks \cup {"count_lock", "touch_lock"} /\ mutex = u
  \/ t = "main" /\ <<pc["main"], u>> \in Joins /\ u \in joinable /\ pc[u] # "exit"

\* The console thread owns the mutex and is in no region that unlocks it.
MutexLeaked == mutex = "main" /\ pc["main"] \notin Critical

\* The threads never wait for each other in a circle, unless Server::send left the
\* mutex locked: a chain of waits is at most closeServer, a thread that it joins,
\* and the owner of the mutex, who waits for none of them.
WaitsEnd ==
  ~MutexLeaked =>
    \A t, u \in Threads : WaitsFor(t, u) =>
      \A v \in Threads : WaitsFor(u, v) =>
        \A w \in Threads : ~WaitsFor(v, w)

\* Only Server::send leaves the mutex locked (or the end of the process does).
OnlySendLeaks ==
  [][~MutexLeaked /\ MutexLeaked' => pc["main"] = "send" \/ pc'["main"] = "aborted"]_vars

-----------------------------------------------------------------------------
(* Why those hold: the inductive invariant of ServerProofs, in parts.      *)

\* Where todo may hold something: in a walk, or when the process died in one.
Walking == {"walk", "packets", "clean", "clear", "count", "aborted"}

\* The commands of the console run, and closeServer has not begun.
Serving == {"spawn_first", "spawn_second", "prompt", "enable", "walk_lock", "walk",
            "packets_lock", "packets", "send_lock", "send", "send_data",
            "clean_lock", "clean"}

\* closeServer is past the joins of the handlers.
ClearSteps == {"clear_lock", "clear", "close_socket", "exit"}
HandlersJoined ==
  \/ pc["main"] \in {"close_cleaner"} \cup ClearSteps
  \/ pc["main"] = "join_cleaner" /\ ~started

\* A thread in a critical region owns the mutex; main may own it elsewhere too.
MutexOwned ==
  /\ \A t \in Threads : pc[t] \in Critical => mutex = t
  /\ \A t \in Workers : mutex = t => pc[t] \in Critical

WalkersOnly == \A t \in Threads : pc[t] \notin Walking => todo[t] = {}

\* A thread that runs has a joinable object, and the objects follow main.
ThreadsJoinable ==
  /\ \A t \in Workers : t \notin joinable => pc[t] \in Dead
  /\ pc["main"] \in {"start", "failed", "spawn_first"} => joinable = {}
  /\ pc["main"] = "spawn_second" => "second" \notin joinable
  /\ pc["main"] = "join_second" => "first" \notin joinable
  /\ HandlersJoined => joinable \cap Handlers = {}

ServingStarted == pc["main"] \in Serving => started

SocketOpen == pc["main"] \notin {"start", "failed", "exit"} => authSocket = "open"

\* The cleaner's thread object goes with Cleaner::started, but for the steps
\* between the two assignments.
CleanerJoinable ==
  /\ "cleaner" \in joinable => cleanerStarted \/ pc["main"] \in {"enable", "join_cleaner"}
  /\ pc["main"] \in {"join_cleaner"} \cup ClearSteps => ~cleanerStarted

PoolCleared ==
  /\ pc["main"] = "clear" => pool \subseteq todo["main"]
  /\ pc["main"] \in {"close_socket", "exit"} => pool = {} /\ mutex = Free
  /\ pc["main"] = "exit" => authSocket = "invalid"

\* Who owns what, and which threads there are, at each step of main: what the
\* safety properties follow from, as one invariant.
CoreInv ==
  /\ MutexOwned /\ WalkersOnly /\ ThreadsJoinable /\ ServingStarted
  /\ SocketOpen /\ CleanerJoinable /\ PoolCleared
  /\ IteratorsValid /\ ErasedSessionsJoined

-----------------------------------------------------------------------------
(* Liveness, and what the code does not do.                                *)

\* "close" closes the server.
CloseServer == pc["main"] = "join_first" ~> pc["main"] = "exit"

\* The two ways the code has to hang in closeServer: a handler that lost the
\* race for the one waiting connection sits in accept, or Server::send left
\* the mutex locked.
AcceptStuck == \E h \in Handlers : pc[h] = "accept" /\ backlog = 0

\* closeServer returns unless one of those two lasts: nothing else can hang it.
CloseServerUnlessStuck ==
  CloseServer \/ <>[]AcceptStuck \/ <>[]MutexLeaked

\* While the cleaner is enabled its thread is there to clean "every 5 seconds":
\* started TRUE never goes with a thread that has already left its loop.
EnabledCleanerRuns ==
  pc["main"] = "prompt" /\ cleanerStarted => pc["cleaner"] # "exit"

=============================================================================
