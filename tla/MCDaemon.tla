------------------------------ MODULE MCDaemon ------------------------------
(* TLC instance: two connections at a time whose clients read what they are *)
(* sent, but need not leave, two request ids, no SIGTERM.                   *)
EXTENDS Daemon
=============================================================================
