----------------------------- MODULE EchoStream ------------------------------
(***************************************************************************)
(* What the echo server promises to each peer: it gives back the stream it *)
(* is sent, in its order and without a byte of its own, takes nothing back *)
(* and adds nothing once the connection is broken or closed, and closes a  *)
(* connection that holds only when all of the stream was given back.       *)
(* EchoServer implements this.                                             *)
(***************************************************************************)
EXTENDS Naturals, Sequences

CONSTANT Peers

VARIABLES sent,    \* how many bytes each peer has sent; the i-th has the value i
          echoed,  \* the bytes given back to each peer
          link     \* "up", "broken", or "closed" by the server

\* The first n bytes of a stream.
Stream(n) == [i \in 1 .. n |-> i]

Init ==
  /\ sent = [p \in Peers |-> 0]
  /\ echoed = [p \in Peers |-> Stream(0)]
  /\ link = [p \in Peers |-> "up"]

Send(p) ==
  /\ link[p] = "up"
  /\ sent' = [sent EXCEPT ![p] = @ + 1]
  /\ UNCHANGED <<echoed, link>>

Echo(p) ==
  /\ link[p] = "up"
  /\ \E n \in Len(echoed[p]) + 1 .. sent[p] : echoed' = [echoed EXCEPT ![p] = Stream(n)]
  /\ UNCHANGED <<sent, link>>

Break(p) ==
  /\ link[p] = "up"
  /\ link' = [link EXCEPT ![p] = "broken"]
  /\ UNCHANGED <<sent, echoed>>

Close(p) ==
  /\ \/ link[p] = "up" /\ Len(echoed[p]) = sent[p]
     \/ link[p] = "broken"
  /\ link' = [link EXCEPT ![p] = "closed"]
  /\ UNCHANGED <<sent, echoed>>

Next == \E p \in Peers : Send(p) \/ Echo(p) \/ Break(p) \/ Close(p)

Spec == Init /\ [][Next]_<<sent, echoed, link>>

=============================================================================
