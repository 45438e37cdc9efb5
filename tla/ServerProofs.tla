---------------------------- MODULE ServerProofs ----------------------------
(* Theorems about ServerCore, for any pool, any set of commands and any    *)
(* bounds.                                                                 *)
EXTENDS ServerCore, TLAPS

-----------------------------------------------------------------------------
(* TypeOK needs no other invariant.                                        *)

\* Every step of every thread keeps the variables in their ranges.
LEMMA TypeStep == ASSUME TypeOK, [Next]_vars PROVE TypeOK'
<1> USE ConstantsOK
    DEF TypeOK, At, Goto, vars, netVars, cleanerVars, poolVars, lockVars,
        Threads, Workers, Handlers, Free, Phases, MainLabels, MainLocks,
        HandlerLabels, CleanerLabels, ModeKeys, OnlyDisconnect, AgressiveMode,
        Key0, Key1, AllCommands, WalkCommands, PacketCommands, CleanerCommands
\* startServer.
<1>1. ASSUME StartServer PROVE TypeOK'
  <2>1. CASE authSocket' = "open" /\ started' = TRUE /\ Goto("main", "spawn_first")
    BY <1>1, <2>1 DEF StartServer
  <2>2. CASE Goto("main", "failed") /\ UNCHANGED <<authSocket, started>>
    BY <1>1, <2>2 DEF StartServer
  <2> QED BY <1>1, <2>1, <2>2 DEF StartServer, InitSockets
<1>2. ASSUME SpawnHandler("first", "spawn_first", "spawn_second") PROVE TypeOK'
  BY <1>2 DEF SpawnHandler
<1>3. ASSUME SpawnHandler("second", "spawn_second", "prompt") PROVE TypeOK'
  BY <1>3 DEF SpawnHandler
\* The commands typed.
<1>4. ASSUME TypeLocking PROVE TypeOK'
  <2>1. PICK label \in MainLocks : \E command \in AllCommands : Type(command, label)
    BY <1>4 DEF TypeLocking
  <2> QED BY <2>1 DEF Type
<1>5. ASSUME TypeGetMode PROVE TypeOK'
  BY <1>5 DEF TypeGetMode, Type
<1>6. ASSUME TypeMode PROVE TypeOK'
  BY <1>6 DEF TypeMode
<1>7. ASSUME TypeEnable PROVE TypeOK'
  <2>1. CASE "cleaner" \in joinable
    <3>1. Goto("main", "aborted") /\ UNCHANGED joinable
      BY <1>7, <2>1 DEF TypeEnable
    <3> QED BY <1>7, <3>1 DEF TypeEnable
  <2>2. CASE "cleaner" \notin joinable
    <3>1. pc' = [pc EXCEPT !["main"] = "enable", !["cleaner"] = "loop"]
      BY <1>7, <2>2 DEF TypeEnable
    <3> QED BY <1>7, <2>2, <3>1 DEF TypeEnable
  <2> QED BY <2>1, <2>2
<1>8. ASSUME EnableCleaner PROVE TypeOK'
  BY <1>8 DEF EnableCleaner
<1>9. ASSUME TypeDisable PROVE TypeOK'
  BY <1>9 DEF TypeDisable
<1>10. ASSUME JoinCleaner PROVE TypeOK'
  BY <1>10 DEF JoinCleaner
<1>11. ASSUME TypeClose PROVE TypeOK'
  BY <1>11 DEF TypeClose
\* Walks of the pool.
<1>12. ASSUME WalkLock PROVE TypeOK'
  BY <1>12 DEF WalkLock, Lock
<1>13. ASSUME WalkVisit PROVE TypeOK'
  BY <1>13 DEF WalkVisit, Visited
<1>14. ASSUME WalkDone PROVE TypeOK'
  BY <1>14 DEF WalkDone, Unlock
<1>15. ASSUME PacketsLock PROVE TypeOK'
  BY <1>15 DEF PacketsLock, Lock
<1>16. ASSUME PacketsVisit PROVE TypeOK'
  BY <1>16 DEF PacketsVisit, Visited
<1>17. ASSUME PacketsDone PROVE TypeOK'
  BY <1>17 DEF PacketsDone, Unlock
<1>18. ASSUME SendLock PROVE TypeOK'
  BY <1>18 DEF SendLock, Lock
<1>19. ASSUME SendTo PROVE TypeOK'
  BY <1>19 DEF SendTo
<1>20. ASSUME SendData PROVE TypeOK'
  BY <1>20 DEF SendData
<1>21. ASSUME Relock PROVE TypeOK'
  BY <1>21 DEF Relock
<1>22. ASSUME NEW t \in {"main", "cleaner"}, CleanLock(t) PROVE TypeOK'
  BY <1>22 DEF CleanLock, Lock
<1>23. ASSUME NEW t \in {"main", "cleaner"}, CleanVisit(t) PROVE TypeOK'
  BY <1>23 DEF CleanVisit, Visited
<1>24. ASSUME NEW t \in {"main", "cleaner"}, CleanDone(t) PROVE TypeOK'
  BY <1>24 DEF CleanDone, Unlock
\* closeServer.
<1>25. ASSUME JoinHandler("first", "join_first", "join_second") PROVE TypeOK'
  BY <1>25 DEF JoinHandler
<1>26. ASSUME JoinHandler("second", "join_second", "close_cleaner") PROVE TypeOK'
  BY <1>26 DEF JoinHandler
<1>27. ASSUME CloseCleaner PROVE TypeOK'
  BY <1>27 DEF CloseCleaner
<1>28. ASSUME ClearLock PROVE TypeOK'
  BY <1>28 DEF ClearLock, Lock
<1>29. ASSUME ClearVisit PROVE TypeOK'
  BY <1>29 DEF ClearVisit, Visited
<1>30. ASSUME ClearDone PROVE TypeOK'
  BY <1>30 DEF ClearDone, Unlock
<1>31. ASSUME CloseSocket PROVE TypeOK'
  BY <1>31 DEF CloseSocket
\* The handlers.
<1>32. ASSUME NEW h \in Handlers, HandlerLoop(h) PROVE TypeOK'
  BY <1>32 DEF HandlerLoop
<1>33. ASSUME NEW h \in Handlers, CountLock(h) PROVE TypeOK'
  BY <1>33 DEF CountLock, Lock
<1>34. ASSUME NEW h \in Handlers, CountVisit(h) PROVE TypeOK'
  BY <1>34 DEF CountVisit, Visited
<1>35. ASSUME NEW h \in Handlers, CountDone(h) PROVE TypeOK'
  BY <1>35 DEF CountDone
<1>36. ASSUME NEW h \in Handlers, Poll(h) PROVE TypeOK'
  BY <1>36 DEF Poll
<1>37. ASSUME NEW h \in Handlers, Select(h) PROVE TypeOK'
  BY <1>37 DEF Select
<1>38. ASSUME NEW h \in Handlers, Ready(h) PROVE TypeOK'
  BY <1>38 DEF Ready
<1>39. ASSUME NEW h \in Handlers, Accept(h) PROVE TypeOK'
  BY <1>39 DEF Accept
<1>40. ASSUME NEW h \in Handlers, TouchLock(h) PROVE TypeOK'
  BY <1>40 DEF TouchLock, Lock
<1>41. ASSUME NEW h \in Handlers, TouchDone(h) PROVE TypeOK'
  BY <1>41 DEF TouchDone, Unlock
<1>42. ASSUME NEW h \in Handlers, HandlerSleep(h) PROVE TypeOK'
  BY <1>42 DEF HandlerSleep
\* The cleaner, the network, the sessions and a step of nothing.
<1>43. ASSUME CleanerLoop PROVE TypeOK'
  BY <1>43 DEF CleanerLoop
<1>44. ASSUME CleanerSleep PROVE TypeOK'
  BY <1>44 DEF CleanerSleep
<1>45. ASSUME Arrive PROVE TypeOK'
  BY <1>45 DEF Arrive
<1>46. ASSUME NEW c \in Clients, SessionFails(c) PROVE TypeOK'
  BY <1>46 DEF SessionFails
<1>47. ASSUME NEW c \in Clients, SessionEnds(c) PROVE TypeOK'
  BY <1>47 DEF SessionEnds
<1>48. ASSUME UNCHANGED vars PROVE TypeOK'
  BY <1>48
<1> HIDE DEF TypeOK, At, Goto, netVars, cleanerVars, poolVars, lockVars,
             Threads, Workers, Handlers, Free, Phases, MainLabels, MainLocks,
             HandlerLabels, CleanerLabels, ModeKeys, OnlyDisconnect,
             AgressiveMode, Key0, Key1, AllCommands, WalkCommands,
             PacketCommands, CleanerCommands
<1> QED
  BY <1>1, <1>2, <1>3, <1>4, <1>5, <1>6, <1>7, <1>8, <1>9, <1>10,
     <1>11, <1>12, <1>13, <1>14, <1>15, <1>16, <1>17, <1>18, <1>19,
     <1>20, <1>21, <1>22, <1>23, <1>24, <1>25, <1>26, <1>27, <1>28,
     <1>29, <1>30, <1>31, <1>32, <1>33, <1>34, <1>35, <1>36, <1>37,
     <1>38, <1>39, <1>40, <1>41, <1>42, <1>43, <1>44, <1>45, <1>46,
     <1>47, <1>48
  DEF Next, MainWork, Operator, HandlerWork, CleanerWork

\* The variables always have the values the code can give them.
THEOREM TypeCorrect == Spec => []TypeOK
<1>1. ASSUME Init PROVE TypeOK
  <2>1. /\ pc \in [Threads -> MainLabels \cup HandlerLabels \cup CleanerLabels]
        /\ pc["main"] \in MainLabels
        /\ \A h \in Handlers : pc[h] \in HandlerLabels
        /\ pc["cleaner"] \in CleanerLabels
    BY <1>1 DEF Init, Threads, Workers, Handlers, MainLabels, HandlerLabels,
                CleanerLabels
  <2> QED BY <1>1, <2>1, ConstantsOK DEF Init, TypeOK, Phases
<1> QED BY <1>1, TypeStep, PTL DEF Spec

-----------------------------------------------------------------------------
(* The inductive invariant CoreInv.                                        *)

\* Every step of every thread keeps CoreInv.
LEMMA CoreStep == ASSUME TypeOK, TypeOK', CoreInv, [Next]_vars PROVE CoreInv'
<1> USE ConstantsOK
    DEF CoreInv, MutexOwned, WalkersOnly, ThreadsJoinable, ServingStarted,
        SocketOpen, CleanerJoinable, PoolCleared, IteratorsValid,
        ErasedSessionsJoined, HandlersJoined, Walking, Serving, ClearSteps,
        TypeOK, At, Goto, vars, netVars, cleanerVars, poolVars, lockVars,
        Threads, Workers, Handlers, Free, Phases, MainLabels, MainLocks,
        HandlerLabels, CleanerLabels, Critical, Dead
\* startServer.
<1>1. ASSUME StartServer PROVE CoreInv'
  BY <1>1 DEF StartServer, InitSockets
<1>2. ASSUME SpawnHandler("first", "spawn_first", "spawn_second") PROVE CoreInv'
  BY <1>2 DEF SpawnHandler
<1>3. ASSUME SpawnHandler("second", "spawn_second", "prompt") PROVE CoreInv'
  BY <1>3 DEF SpawnHandler
\* The commands typed.
<1>4. ASSUME TypeLocking PROVE CoreInv'
  BY <1>4 DEF TypeLocking, Type
<1>5. ASSUME TypeGetMode PROVE CoreInv'
  BY <1>5 DEF TypeGetMode, Type
<1>6. ASSUME TypeMode PROVE CoreInv'
  BY <1>6 DEF TypeMode
<1>7. ASSUME TypeEnable PROVE CoreInv'
  BY <1>7 DEF TypeEnable
<1>8. ASSUME EnableCleaner PROVE CoreInv'
  BY <1>8 DEF EnableCleaner
<1>9. ASSUME TypeDisable PROVE CoreInv'
  BY <1>9 DEF TypeDisable
<1>10. ASSUME JoinCleaner PROVE CoreInv'
  <2>1. CASE started
    BY <1>10, <2>1 DEF JoinCleaner
  <2>2. CASE ~started
    BY <1>10, <2>2 DEF JoinCleaner
  <2> QED BY <2>1, <2>2
<1>11. ASSUME TypeClose PROVE CoreInv'
  BY <1>11 DEF TypeClose
\* Walks of the pool.
<1>12. ASSUME WalkLock PROVE CoreInv'
  BY <1>12 DEF WalkLock, Lock
<1>13. ASSUME WalkVisit PROVE CoreInv'
  BY <1>13 DEF WalkVisit, Visited
<1>14. ASSUME WalkDone PROVE CoreInv'
  BY <1>14 DEF WalkDone, Unlock
<1>15. ASSUME PacketsLock PROVE CoreInv'
  BY <1>15 DEF PacketsLock, Lock
<1>16. ASSUME PacketsVisit PROVE CoreInv'
  BY <1>16 DEF PacketsVisit, Visited
<1>17. ASSUME PacketsDone PROVE CoreInv'
  BY <1>17 DEF PacketsDone, Unlock
<1>18. ASSUME SendLock PROVE CoreInv'
  BY <1>18 DEF SendLock, Lock
<1>19. ASSUME SendTo PROVE CoreInv'
  BY <1>19 DEF SendTo
<1>20. ASSUME SendData PROVE CoreInv'
  BY <1>20 DEF SendData
<1>21. ASSUME Relock PROVE CoreInv'
  BY <1>21 DEF Relock
<1>22. ASSUME NEW t \in {"main", "cleaner"}, CleanLock(t) PROVE CoreInv'
  BY <1>22 DEF CleanLock, Lock
<1>23. ASSUME NEW t \in {"main", "cleaner"}, CleanVisit(t) PROVE CoreInv'
  BY <1>23 DEF CleanVisit, Visited
<1>24. ASSUME NEW t \in {"main", "cleaner"}, CleanDone(t) PROVE CoreInv'
  BY <1>24 DEF CleanDone, Unlock
\* closeServer.
<1>25. ASSUME JoinHandler("first", "join_first", "join_second") PROVE CoreInv'
  BY <1>25 DEF JoinHandler
<1>26. ASSUME JoinHandler("second", "join_second", "close_cleaner") PROVE CoreInv'
  BY <1>26 DEF JoinHandler
<1>27. ASSUME CloseCleaner PROVE CoreInv'
  BY <1>27 DEF CloseCleaner
<1>28. ASSUME ClearLock PROVE CoreInv'
  BY <1>28 DEF ClearLock, Lock
<1>29. ASSUME ClearVisit PROVE CoreInv'
  BY <1>29 DEF ClearVisit, Visited
<1>30. ASSUME ClearDone PROVE CoreInv'
  BY <1>30 DEF ClearDone, Unlock
<1>31. ASSUME CloseSocket PROVE CoreInv'
  BY <1>31 DEF CloseSocket
\* The handlers.
<1>32. ASSUME NEW h \in Handlers, HandlerLoop(h) PROVE CoreInv'
  BY <1>32 DEF HandlerLoop
<1>33. ASSUME NEW h \in Handlers, CountLock(h) PROVE CoreInv'
  BY <1>33 DEF CountLock, Lock
<1>34. ASSUME NEW h \in Handlers, CountVisit(h) PROVE CoreInv'
  BY <1>34 DEF CountVisit, Visited
<1>35. ASSUME NEW h \in Handlers, CountDone(h) PROVE CoreInv'
  BY <1>35 DEF CountDone
<1>36. ASSUME NEW h \in Handlers, Poll(h) PROVE CoreInv'
  BY <1>36 DEF Poll
<1>37. ASSUME NEW h \in Handlers, Select(h) PROVE CoreInv'
  BY <1>37 DEF Select
<1>38. ASSUME NEW h \in Handlers, Ready(h) PROVE CoreInv'
  BY <1>38 DEF Ready
<1>39. ASSUME NEW h \in Handlers, Accept(h) PROVE CoreInv'
  BY <1>39 DEF Accept
<1>40. ASSUME NEW h \in Handlers, TouchLock(h) PROVE CoreInv'
  BY <1>40 DEF TouchLock, Lock
<1>41. ASSUME NEW h \in Handlers, TouchDone(h) PROVE CoreInv'
  BY <1>41 DEF TouchDone, Unlock
<1>42. ASSUME NEW h \in Handlers, HandlerSleep(h) PROVE CoreInv'
  BY <1>42 DEF HandlerSleep
\* The cleaner, the network, the sessions and a step of nothing.
<1>43. ASSUME CleanerLoop PROVE CoreInv'
  BY <1>43 DEF CleanerLoop
<1>44. ASSUME CleanerSleep PROVE CoreInv'
  BY <1>44 DEF CleanerSleep
<1>45. ASSUME Arrive PROVE CoreInv'
  BY <1>45 DEF Arrive
<1>46. ASSUME NEW c \in Clients, SessionFails(c) PROVE CoreInv'
  BY <1>46 DEF SessionFails
<1>47. ASSUME NEW c \in Clients, SessionEnds(c) PROVE CoreInv'
  BY <1>47 DEF SessionEnds
<1>48. ASSUME UNCHANGED vars PROVE CoreInv'
  BY <1>48
<1> HIDE DEF CoreInv, MutexOwned, WalkersOnly, ThreadsJoinable,
             ServingStarted, SocketOpen, CleanerJoinable, PoolCleared,
             IteratorsValid, ErasedSessionsJoined, HandlersJoined, Walking,
             Serving, ClearSteps, TypeOK, At, Goto, netVars, cleanerVars,
             poolVars, lockVars, Threads, Workers, Handlers, Free, Phases,
             MainLabels, MainLocks, HandlerLabels, CleanerLabels, Critical,
             Dead
<1> QED
  BY <1>1, <1>2, <1>3, <1>4, <1>5, <1>6, <1>7, <1>8, <1>9, <1>10,
     <1>11, <1>12, <1>13, <1>14, <1>15, <1>16, <1>17, <1>18, <1>19,
     <1>20, <1>21, <1>22, <1>23, <1>24, <1>25, <1>26, <1>27, <1>28,
     <1>29, <1>30, <1>31, <1>32, <1>33, <1>34, <1>35, <1>36, <1>37,
     <1>38, <1>39, <1>40, <1>41, <1>42, <1>43, <1>44, <1>45, <1>46,
     <1>47, <1>48
  DEF Next, MainWork, Operator, HandlerWork, CleanerWork

-----------------------------------------------------------------------------
(* ServerCore implements SessionLifecycle.                                 *)

\* A step of the server is a step of one session's life, or leaves all alone.
LEMMA LifecycleStep ==
  ASSUME TypeOK, CoreInv, [Next]_vars
  PROVE  [Lifecycle!Next]_<<pool, session>>
<1> USE ConstantsOK
    DEF vars, netVars, cleanerVars, poolVars, lockVars
\* startServer.
<1>1. ASSUME StartServer PROVE [Lifecycle!Next]_<<pool, session>>
  BY <1>1 DEF StartServer, InitSockets
<1>2. ASSUME SpawnHandler("first", "spawn_first", "spawn_second") PROVE [Lifecycle!Next]_<<pool, session>>
  BY <1>2 DEF SpawnHandler
<1>3. ASSUME SpawnHandler("second", "spawn_second", "prompt") PROVE [Lifecycle!Next]_<<pool, session>>
  BY <1>3 DEF SpawnHandler
\* The commands typed.
<1>4. ASSUME TypeLocking PROVE [Lifecycle!Next]_<<pool, session>>
  BY <1>4 DEF TypeLocking, Type
<1>5. ASSUME TypeGetMode PROVE [Lifecycle!Next]_<<pool, session>>
  BY <1>5 DEF TypeGetMode, Type
<1>6. ASSUME TypeMode PROVE [Lifecycle!Next]_<<pool, session>>
  BY <1>6 DEF TypeMode
<1>7. ASSUME TypeEnable PROVE [Lifecycle!Next]_<<pool, session>>
  BY <1>7 DEF TypeEnable
<1>8. ASSUME EnableCleaner PROVE [Lifecycle!Next]_<<pool, session>>
  BY <1>8 DEF EnableCleaner
<1>9. ASSUME TypeDisable PROVE [Lifecycle!Next]_<<pool, session>>
  BY <1>9 DEF TypeDisable
<1>10. ASSUME JoinCleaner PROVE [Lifecycle!Next]_<<pool, session>>
  BY <1>10 DEF JoinCleaner
<1>11. ASSUME TypeClose PROVE [Lifecycle!Next]_<<pool, session>>
  BY <1>11 DEF TypeClose
\* Walks of the pool.
<1>12. ASSUME WalkLock PROVE [Lifecycle!Next]_<<pool, session>>
  BY <1>12 DEF WalkLock, Lock
<1>13. ASSUME WalkVisit PROVE [Lifecycle!Next]_<<pool, session>>
  BY <1>13 DEF WalkVisit, Visited
<1>14. ASSUME WalkDone PROVE [Lifecycle!Next]_<<pool, session>>
  BY <1>14 DEF WalkDone, Unlock
<1>15. ASSUME PacketsLock PROVE [Lifecycle!Next]_<<pool, session>>
  BY <1>15 DEF PacketsLock, Lock
<1>16. ASSUME PacketsVisit PROVE [Lifecycle!Next]_<<pool, session>>
  BY <1>16 DEF PacketsVisit, Visited
<1>17. ASSUME PacketsDone PROVE [Lifecycle!Next]_<<pool, session>>
  BY <1>17 DEF PacketsDone, Unlock
<1>18. ASSUME SendLock PROVE [Lifecycle!Next]_<<pool, session>>
  BY <1>18 DEF SendLock, Lock
<1>19. ASSUME SendTo PROVE [Lifecycle!Next]_<<pool, session>>
  BY <1>19 DEF SendTo
<1>20. ASSUME SendData PROVE [Lifecycle!Next]_<<pool, session>>
  BY <1>20 DEF SendData
<1>21. ASSUME Relock PROVE [Lifecycle!Next]_<<pool, session>>
  BY <1>21 DEF Relock
<1>22. ASSUME NEW t \in {"main", "cleaner"}, CleanLock(t) PROVE [Lifecycle!Next]_<<pool, session>>
  BY <1>22 DEF CleanLock, Lock
<1>23. ASSUME NEW t \in {"main", "cleaner"}, CleanVisit(t) PROVE [Lifecycle!Next]_<<pool, session>>
  <2>1. PICK c \in todo[t] :
           IF session[c] = "ended"
           THEN /\ session' = [session EXCEPT ![c] = "disconnected"]
                /\ pool' = IF mode = AgressiveMode THEN pool \ {c} ELSE pool
           ELSE UNCHANGED poolVars
    BY <1>23 DEF CleanVisit
  <2>2. CASE session[c] = "ended"
    <3>1. c \in pool /\ c \in Clients
      BY <1>23 DEF TypeOK, CoreInv, IteratorsValid, Threads, Workers
    <3>2. Lifecycle!Disconnect(c)
      BY <2>1, <2>2, <3>1 DEF Lifecycle!Disconnect, Lifecycle!Becomes
    <3> QED BY <3>1, <3>2 DEF Lifecycle!Next
  <2> QED BY <2>1, <2>2 DEF poolVars
<1>24. ASSUME NEW t \in {"main", "cleaner"}, CleanDone(t) PROVE [Lifecycle!Next]_<<pool, session>>
  BY <1>24 DEF CleanDone, Unlock
\* closeServer.
<1>25. ASSUME JoinHandler("first", "join_first", "join_second") PROVE [Lifecycle!Next]_<<pool, session>>
  BY <1>25 DEF JoinHandler
<1>26. ASSUME JoinHandler("second", "join_second", "close_cleaner") PROVE [Lifecycle!Next]_<<pool, session>>
  BY <1>26 DEF JoinHandler
<1>27. ASSUME CloseCleaner PROVE [Lifecycle!Next]_<<pool, session>>
  BY <1>27 DEF CloseCleaner
<1>28. ASSUME ClearLock PROVE [Lifecycle!Next]_<<pool, session>>
  BY <1>28 DEF ClearLock, Lock
<1>29. ASSUME ClearVisit PROVE [Lifecycle!Next]_<<pool, session>>
  <2>1. PICK c \in todo["main"] :
           \/ /\ session[c] = "running"
              /\ session' = [session EXCEPT ![c] = "failing"]
              /\ UNCHANGED pool
           \/ /\ session[c] \in {"ended", "disconnected"}
              /\ session' = [session EXCEPT ![c] = "disconnected"]
              /\ pool' = pool \ {c}
    BY <1>29 DEF ClearVisit
  <2>2. c \in pool /\ c \in Clients
    BY DEF TypeOK, CoreInv, IteratorsValid, Threads
  <2>3. CASE session[c] = "running"
    <3>1. Lifecycle!Stop(c)
      BY <2>1, <2>2, <2>3 DEF Lifecycle!Stop, Lifecycle!Becomes
    <3> QED BY <2>2, <3>1 DEF Lifecycle!Next
  <2>4. CASE session[c] = "ended"
    <3>1. Lifecycle!Disconnect(c)
      BY <2>1, <2>2, <2>4 DEF Lifecycle!Disconnect, Lifecycle!Becomes
    <3> QED BY <2>2, <3>1 DEF Lifecycle!Next
  <2>5. CASE session[c] = "disconnected"
    <3>1. session' = session
      BY <2>1, <2>5 DEF TypeOK
    <3>2. Lifecycle!Erase(c)
      BY <2>1, <2>2, <2>5, <3>1 DEF Lifecycle!Erase
    <3> QED BY <2>2, <3>2 DEF Lifecycle!Next
  <2> QED BY <2>1, <2>3, <2>4, <2>5
<1>30. ASSUME ClearDone PROVE [Lifecycle!Next]_<<pool, session>>
  BY <1>30 DEF ClearDone, Unlock
<1>31. ASSUME CloseSocket PROVE [Lifecycle!Next]_<<pool, session>>
  BY <1>31 DEF CloseSocket
\* The handlers.
<1>32. ASSUME NEW h \in Handlers, HandlerLoop(h) PROVE [Lifecycle!Next]_<<pool, session>>
  BY <1>32 DEF HandlerLoop
<1>33. ASSUME NEW h \in Handlers, CountLock(h) PROVE [Lifecycle!Next]_<<pool, session>>
  BY <1>33 DEF CountLock, Lock
<1>34. ASSUME NEW h \in Handlers, CountVisit(h) PROVE [Lifecycle!Next]_<<pool, session>>
  BY <1>34 DEF CountVisit, Visited
<1>35. ASSUME NEW h \in Handlers, CountDone(h) PROVE [Lifecycle!Next]_<<pool, session>>
  BY <1>35 DEF CountDone
<1>36. ASSUME NEW h \in Handlers, Poll(h) PROVE [Lifecycle!Next]_<<pool, session>>
  BY <1>36 DEF Poll
<1>37. ASSUME NEW h \in Handlers, Select(h) PROVE [Lifecycle!Next]_<<pool, session>>
  BY <1>37 DEF Select
<1>38. ASSUME NEW h \in Handlers, Ready(h) PROVE [Lifecycle!Next]_<<pool, session>>
  BY <1>38 DEF Ready
<1>39. ASSUME NEW h \in Handlers, Accept(h) PROVE [Lifecycle!Next]_<<pool, session>>
  BY <1>39 DEF Accept
<1>40. ASSUME NEW h \in Handlers, TouchLock(h) PROVE [Lifecycle!Next]_<<pool, session>>
  BY <1>40 DEF TouchLock, Lock
<1>41. ASSUME NEW h \in Handlers, TouchDone(h) PROVE [Lifecycle!Next]_<<pool, session>>
  BY <1>41 DEF TouchDone, Unlock
<1>42. ASSUME NEW h \in Handlers, HandlerSleep(h) PROVE [Lifecycle!Next]_<<pool, session>>
  BY <1>42 DEF HandlerSleep
\* The cleaner, the network, the sessions and a step of nothing.
<1>43. ASSUME CleanerLoop PROVE [Lifecycle!Next]_<<pool, session>>
  BY <1>43 DEF CleanerLoop
<1>44. ASSUME CleanerSleep PROVE [Lifecycle!Next]_<<pool, session>>
  BY <1>44 DEF CleanerSleep
<1>45. ASSUME Arrive PROVE [Lifecycle!Next]_<<pool, session>>
  BY <1>45 DEF Arrive
<1>46. ASSUME NEW c \in Clients, SessionFails(c) PROVE [Lifecycle!Next]_<<pool, session>>
  <2>1. Lifecycle!Stop(c)
    BY <1>46 DEF SessionFails, Lifecycle!Stop, Lifecycle!Becomes
  <2> QED BY <2>1 DEF Lifecycle!Next
<1>47. ASSUME NEW c \in Clients, SessionEnds(c) PROVE [Lifecycle!Next]_<<pool, session>>
  <2>1. c \in pool
    BY <1>47, ConstantsOK DEF SessionEnds, TypeOK, CoreInv, ErasedSessionsJoined
  <2>2. Lifecycle!End(c)
    BY <1>47, <2>1 DEF SessionEnds, Lifecycle!End, Lifecycle!Becomes
  <2> QED BY <2>2 DEF Lifecycle!Next
<1>48. ASSUME UNCHANGED vars PROVE [Lifecycle!Next]_<<pool, session>>
  BY <1>48
<1> HIDE DEF netVars, cleanerVars, poolVars, lockVars
<1> QED
  BY <1>1, <1>2, <1>3, <1>4, <1>5, <1>6, <1>7, <1>8, <1>9, <1>10,
     <1>11, <1>12, <1>13, <1>14, <1>15, <1>16, <1>17, <1>18, <1>19,
     <1>20, <1>21, <1>22, <1>23, <1>24, <1>25, <1>26, <1>27, <1>28,
     <1>29, <1>30, <1>31, <1>32, <1>33, <1>34, <1>35, <1>36, <1>37,
     <1>38, <1>39, <1>40, <1>41, <1>42, <1>43, <1>44, <1>45, <1>46,
     <1>47, <1>48
  DEF Next, MainWork, Operator, HandlerWork, CleanerWork

-----------------------------------------------------------------------------
(* The theorems.                                                           *)

\* CoreInv holds of every behaviour of the server.
THEOREM CoreCorrect == Spec => []CoreInv
<1>1. Init => CoreInv
  <2> SUFFICES ASSUME Init PROVE CoreInv
    OBVIOUS
  <2> QED
    BY ConstantsOK DEF Init, CoreInv, MutexOwned, WalkersOnly, ThreadsJoinable,
       ServingStarted, SocketOpen, CleanerJoinable, PoolCleared, IteratorsValid,
       ErasedSessionsJoined, HandlersJoined, Walking, Serving, ClearSteps,
       Threads, Workers, Handlers, Free, Critical, Dead
<1>2. TypeOK /\ TypeOK' /\ CoreInv /\ [Next]_vars => CoreInv'
  BY CoreStep
<1> QED BY <1>1, <1>2, TypeCorrect, PTL DEF Spec

\* No thread that walks clientPool is left with an iterator to an erased
\* element (IteratorsValid), whoever cleans or clears the pool meanwhile.
THEOREM WalksAreSafe == Spec => []IteratorsValid
<1>1. CoreInv => IteratorsValid
  BY DEF CoreInv
<1> QED BY <1>1, CoreCorrect, PTL

\* closeServer closes authSocket only after both handlers are out of select
\* and accept: the joins, not the flag, are what the argument rests on.
THEOREM SocketOutlivesHandlers == Spec => []SocketOpenInCall
<1>1. CoreInv => SocketOpenInCall
  BY DEF CoreInv, SocketOpenInCall, SocketOpen, ThreadsJoinable, HandlersJoined,
     ClearSteps, Workers, Handlers
<1> QED BY <1>1, CoreCorrect, PTL

\* After closeServer nothing of the server is left running, locked or pooled.
THEOREM CloseIsQuiet == Spec => []QuietAfterClose
<1>1. TypeOK /\ CoreInv => QuietAfterClose
  BY DEF TypeOK, CoreInv, QuietAfterClose, ThreadsJoinable, HandlersJoined,
     CleanerJoinable, PoolCleared, ClearSteps, Workers, Handlers
<1> QED BY <1>1, TypeCorrect, CoreCorrect, PTL

\* enable_cleaner never assigns to a joinable std::thread, however often the
\* cleaner is enabled and disabled.
THEOREM RestartIsSafe == Spec => []CleanerRestartSafe
<1>1. CoreInv => CleanerRestartSafe
  BY DEF CoreInv, CleanerRestartSafe, CleanerJoinable
<1> QED BY <1>1, CoreCorrect, PTL

\* The threads of the server wait for each other in no circle, as long as send has
\* not left the mutex locked: closeServer joins them before it takes the mutex.
THEOREM NoCircularWait == Spec => []WaitsEnd
<1>1. CoreInv => WaitsEnd
  <2> USE DEF Threads, Workers, Handlers, Joins, MainLocks, Critical
  <2> SUFFICES ASSUME CoreInv, ~MutexLeaked,
                      NEW t \in Threads, NEW u \in Threads, NEW v \in Threads,
                      NEW w \in Threads, WaitsFor(t, u), WaitsFor(u, v), WaitsFor(v, w)
               PROVE  FALSE
    BY DEF WaitsEnd
  <2>1. ASSUME NEW x \in Threads, mutex = x, NEW y \in Threads PROVE ~WaitsFor(x, y)
    <3>1. pc[x] \in Critical
      BY <2>1 DEF CoreInv, MutexOwned, MutexLeaked
    <3> QED BY <3>1 DEF WaitsFor
  <2>2. ASSUME NEW x \in Workers, NEW y \in Threads, WaitsFor(x, y) PROVE mutex = y
    BY <2>2 DEF WaitsFor
  <2>3. mutex # u /\ mutex # v
    BY <2>1
  <2>4. u \in Workers
    BY <2>3 DEF WaitsFor
  <2> QED BY <2>2, <2>3, <2>4
<1> QED BY <1>1, CoreCorrect, PTL

\* The console thread comes to own the mutex in its regions only, and leaves each
\* by unlocking it, but for the one in send.
LEMMA LeakStep ==
  ASSUME TypeOK, CoreInv, [Next]_vars, ~MutexLeaked, MutexLeaked'
  PROVE  pc["main"] = "send" \/ pc'["main"] = "aborted"
<1> USE DEF TypeOK, CoreInv, MutexOwned, MutexLeaked, At, Goto, vars, netVars, cleanerVars,
        poolVars, lockVars, Threads, Workers, Handlers, Free, Critical
<1> DEFINE Kept == pc["main"] = "send" \/ pc'["main"] = "aborted"
<1> SUFFICES Kept
  OBVIOUS
\* startServer.
<1>1. ASSUME StartServer PROVE Kept
  BY <1>1 DEF StartServer, InitSockets
<1>2. ASSUME SpawnHandler("first", "spawn_first", "spawn_second") PROVE Kept
  BY <1>2 DEF SpawnHandler
<1>3. ASSUME SpawnHandler("second", "spawn_second", "prompt") PROVE Kept
  BY <1>3 DEF SpawnHandler
\* The commands typed.
<1>4. ASSUME TypeLocking PROVE Kept
  BY <1>4 DEF TypeLocking, Type
<1>5. ASSUME TypeGetMode PROVE Kept
  BY <1>5 DEF TypeGetMode, Type
<1>6. ASSUME TypeMode PROVE Kept
  BY <1>6 DEF TypeMode
<1>7. ASSUME TypeEnable PROVE Kept
  BY <1>7 DEF TypeEnable
<1>8. ASSUME EnableCleaner PROVE Kept
  BY <1>8 DEF EnableCleaner
<1>9. ASSUME TypeDisable PROVE Kept
  BY <1>9 DEF TypeDisable
<1>10. ASSUME JoinCleaner PROVE Kept
  BY <1>10 DEF JoinCleaner
<1>11. ASSUME TypeClose PROVE Kept
  BY <1>11 DEF TypeClose
\* Walks of the pool.
<1>12. ASSUME WalkLock PROVE Kept
  BY <1>12 DEF WalkLock, Lock
<1>13. ASSUME WalkVisit PROVE Kept
  BY <1>13 DEF WalkVisit, Visited
<1>14. ASSUME WalkDone PROVE Kept
  BY <1>14 DEF WalkDone, Unlock
<1>15. ASSUME PacketsLock PROVE Kept
  BY <1>15 DEF PacketsLock, Lock
<1>16. ASSUME PacketsVisit PROVE Kept
  BY <1>16 DEF PacketsVisit, Visited
<1>17. ASSUME PacketsDone PROVE Kept
  BY <1>17 DEF PacketsDone, Unlock
<1>18. ASSUME SendLock PROVE Kept
  BY <1>18 DEF SendLock, Lock
<1>19. ASSUME SendTo PROVE Kept
  BY <1>19 DEF SendTo
<1>20. ASSUME SendData PROVE Kept
  BY <1>20 DEF SendData
<1>21. ASSUME Relock PROVE Kept
  BY <1>21 DEF Relock, MainLocks
<1>22. ASSUME NEW t \in {"main", "cleaner"}, CleanLock(t) PROVE Kept
  BY <1>22 DEF CleanLock, Lock
<1>23. ASSUME NEW t \in {"main", "cleaner"}, CleanVisit(t) PROVE Kept
  BY <1>23 DEF CleanVisit, Visited
<1>24. ASSUME NEW t \in {"main", "cleaner"}, CleanDone(t) PROVE Kept
  BY <1>24 DEF CleanDone, Unlock
\* closeServer.
<1>25. ASSUME JoinHandler("first", "join_first", "join_second") PROVE Kept
  BY <1>25 DEF JoinHandler
<1>26. ASSUME JoinHandler("second", "join_second", "close_cleaner") PROVE Kept
  BY <1>26 DEF JoinHandler
<1>27. ASSUME CloseCleaner PROVE Kept
  BY <1>27 DEF CloseCleaner
<1>28. ASSUME ClearLock PROVE Kept
  BY <1>28 DEF ClearLock, Lock
<1>29. ASSUME ClearVisit PROVE Kept
  BY <1>29 DEF ClearVisit, Visited
<1>30. ASSUME ClearDone PROVE Kept
  BY <1>30 DEF ClearDone, Unlock
<1>31. ASSUME CloseSocket PROVE Kept
  BY <1>31 DEF CloseSocket
\* The handlers.
<1>32. ASSUME NEW g \in Handlers, HandlerLoop(g) PROVE Kept
  BY <1>32 DEF HandlerLoop
<1>33. ASSUME NEW g \in Handlers, CountLock(g) PROVE Kept
  BY <1>33 DEF CountLock, Lock
<1>34. ASSUME NEW g \in Handlers, CountVisit(g) PROVE Kept
  BY <1>34 DEF CountVisit, Visited
<1>35. ASSUME NEW g \in Handlers, CountDone(g) PROVE Kept
  BY <1>35 DEF CountDone
<1>36. ASSUME NEW g \in Handlers, Poll(g) PROVE Kept
  BY <1>36 DEF Poll
<1>37. ASSUME NEW g \in Handlers, Select(g) PROVE Kept
  BY <1>37 DEF Select
<1>38. ASSUME NEW g \in Handlers, Ready(g) PROVE Kept
  BY <1>38 DEF Ready
<1>39. ASSUME NEW g \in Handlers, Accept(g) PROVE Kept
  BY <1>39 DEF Accept
<1>40. ASSUME NEW g \in Handlers, TouchLock(g) PROVE Kept
  BY <1>40 DEF TouchLock, Lock
<1>41. ASSUME NEW g \in Handlers, TouchDone(g) PROVE Kept
  BY <1>41 DEF TouchDone, Unlock
<1>42. ASSUME NEW g \in Handlers, HandlerSleep(g) PROVE Kept
  BY <1>42 DEF HandlerSleep
\* The cleaner, the network, the sessions and a step of nothing.
<1>43. ASSUME CleanerLoop PROVE Kept
  BY <1>43 DEF CleanerLoop
<1>44. ASSUME CleanerSleep PROVE Kept
  BY <1>44 DEF CleanerSleep
<1>45. ASSUME Arrive PROVE Kept
  BY <1>45 DEF Arrive
<1>46. ASSUME NEW c \in Clients, SessionFails(c) PROVE Kept
  BY <1>46 DEF SessionFails
<1>47. ASSUME NEW c \in Clients, SessionEnds(c) PROVE Kept
  BY <1>47 DEF SessionEnds
<1>48. ASSUME UNCHANGED vars PROVE Kept
  BY <1>48
<1> HIDE DEF Kept, TypeOK, CoreInv, MutexOwned, MutexLeaked, At, Goto, netVars,
             cleanerVars, poolVars, lockVars, Threads, Workers, Handlers, Free, Critical
<1> QED
  BY <1>1, <1>2, <1>3, <1>4, <1>5, <1>6, <1>7, <1>8, <1>9, <1>10,
     <1>11, <1>12, <1>13, <1>14, <1>15, <1>16, <1>17, <1>18, <1>19,
     <1>20, <1>21, <1>22, <1>23, <1>24, <1>25, <1>26, <1>27, <1>28,
     <1>29, <1>30, <1>31, <1>32, <1>33, <1>34, <1>35, <1>36, <1>37,
     <1>38, <1>39, <1>40, <1>41, <1>42, <1>43, <1>44, <1>45, <1>46,
     <1>47, <1>48
  DEF Next, MainWork, Operator, HandlerWork, CleanerWork

\* send is the one command that returns with clients_mutex locked: every other
\* walk of the pool and closeServer leave it free, whatever the other threads do.
THEOREM OnlySendKeepsMutex == Spec => OnlySendLeaks
<1>1. TypeOK /\ CoreInv /\ [Next]_vars
        => [~MutexLeaked /\ MutexLeaked' => pc["main"] = "send" \/ pc'["main"] = "aborted"]_vars
  BY LeakStep
<1> QED BY <1>1, TypeCorrect, CoreCorrect, PTL DEF Spec, OnlySendLeaks

\* The phases of every session are those of SessionLifecycle.
THEOREM LifecycleImplemented == Spec => ImplementsLifecycle
<1>1. Init => Lifecycle!Init
  BY DEF Init, Lifecycle!Init
<1>2. TypeOK /\ CoreInv /\ [Next]_vars => [Lifecycle!Next]_<<pool, session>>
  BY LifecycleStep
<1> QED BY <1>1, <1>2, TypeCorrect, CoreCorrect, PTL
        DEF Spec, ImplementsLifecycle, Lifecycle!Spec

=============================================================================
