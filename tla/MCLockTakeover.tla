--------------------------- MODULE MCLockTakeover ---------------------------
(***************************************************************************)
(* PrivateFile with two processes and two that end: a takeover that is     *)
(* still named for the first lock meets a takeover of the second.          *)
(***************************************************************************)
EXTENDS PrivateFile

CONSTANTS server1, server2, video1
=============================================================================
