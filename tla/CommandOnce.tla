----------------------------- MODULE CommandOnce -----------------------------
(****************************************************************************)
(* What a caller of follow_process_log_widget() relies on: the shell        *)
(* command it passes (pacstrap, arch-chroot, wipe, chwd ...) is started at  *)
(* most once, and once the call has returned the command is not running and *)
(* can no longer start.                                                     *)
(****************************************************************************)

VARIABLES
    phase,      \* the command: "idle", "active" or "over"
    returned    \* the call has returned to its caller

vars == <<phase, returned>>

Init == phase = "idle" /\ returned = FALSE

Start ==
    /\ phase = "idle" /\ ~returned
    /\ phase' = "active"
    /\ UNCHANGED returned

Finish ==
    /\ phase = "active"
    /\ phase' = "over"
    /\ UNCHANGED returned

Return ==
    /\ phase # "active" /\ ~returned
    /\ returned' = TRUE
    /\ UNCHANGED phase

Next == Start \/ Finish \/ Return

Spec == Init /\ [][Next]_vars
==============================================================================
