-------------------------- MODULE SessionLifecycle --------------------------
(***************************************************************************)
(* What a session of clientPool promises to the code that walks the pool:  *)
(* it stops running once, both of its threads then return, disconnect()    *)
(* comes after that, and only a disconnected session leaves the pool.      *)
(* ServerCore implements this for the whole pool, ConnectedClient for the  *)
(* two threads of one session.                                             *)
(***************************************************************************)
CONSTANT Clients  \* keys clientPool may hold

VARIABLES pool,     \* keys present in clientPool
          session   \* how each session looks from outside

Init ==
  /\ pool \in SUBSET Clients
  /\ session \in [Clients -> {"running", "disconnected"}]

Becomes(c, from, to) ==
  /\ c \in pool
  /\ session[c] = from
  /\ session' = [session EXCEPT ![c] = to]

\* isRunning() turns FALSE: a thread left its loop, or disconnect() was called.
Stop(c) == Becomes(c, "running", "failing") /\ UNCHANGED pool

\* The last of the two threads returns.
End(c) == Becomes(c, "failing", "ended") /\ UNCHANGED pool

\* disconnect() returns; the caller may erase the session at once.
Disconnect(c) == Becomes(c, "ended", "disconnected") /\ pool' \in {pool, pool \ {c}}

Erase(c) ==
  /\ c \in pool
  /\ session[c] = "disconnected"
  /\ pool' = pool \ {c}
  /\ UNCHANGED session

Next == \E c \in Clients : Stop(c) \/ End(c) \/ Disconnect(c) \/ Erase(c)

Spec == Init /\ [][Next]_<<pool, session>>

=============================================================================
