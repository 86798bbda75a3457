--------------------------- MODULE MCFollowProcess ---------------------------
(* FollowProcess for TLC: a buffer of two chunks and a pipe of one, so that  *)
(* a command can be blocked on the pipe, fit the buffer, or overflow it.     *)
EXTENDS FollowProcess
==============================================================================
