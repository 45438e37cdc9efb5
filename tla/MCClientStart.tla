--------------------------- MODULE MCClientStart ----------------------------
(* ClientStart on small instances: the values of its constants for TLC.    *)
EXTENDS ClientStart

\* None, one, the last size the bit field holds, the first it does not, and the
\* first that start() refuses.
BoundarySizes == {0, 1, 31, 32, Uint8Max}

=============================================================================
