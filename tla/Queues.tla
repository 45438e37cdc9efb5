------------------------------- MODULE Queues -------------------------------
(* The queues of packets of a session, std::queue and std::vector, as      *)
(* sequences.                                                              *)
EXTENDS Naturals, Sequences

Elements(q) == {q[i] : i \in DOMAIN q}

\* std::vector::erase of one element.
WithoutAt(q, i) == SubSeq(q, 1, i - 1) \o SubSeq(q, i + 1, Len(q))

=============================================================================
