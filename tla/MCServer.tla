------------------------------ MODULE MCServer ------------------------------
(* ServerCore on small instances: the values of its constants for TLC.     *)
EXTENDS ServerCore

\* Every command of the console.
EveryCommand == AllCommands

\* The one command that may keep the mutex, and the one that then hangs.
SendAndClose == {"send", "close"}

=============================================================================
