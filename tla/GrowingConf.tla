----------------------------- MODULE GrowingConf -----------------------------
(****************************************************************************)
(* What a user of the live system relies on while the installer adds        *)
(* repositories to /etc/pacman.conf, however often it fails or is stopped:  *)
(* the list of repositories only ever grows, in one piece, by one that the  *)
(* CPU supports, which goes in front of everything it may take packages     *)
(* from before.                                                             *)
(****************************************************************************)
EXTENDS Naturals, Sequences, SequencesExt

CONSTANTS
    Rank,       \* of each repository: packages come from the lowest first
    Start       \* the lists there may be at first

VARIABLES
    conf,       \* the sections of the configuration in effect
    supported   \* the repositories this CPU may get

vars == <<conf, supported>>

Init == conf \in Start

Add ==
    /\ \E r \in supported \ ToSet(conf) :
          /\ \A s \in ToSet(conf) : Rank[r] <= Rank[s]
          /\ conf' = <<r>> \o conf
    /\ UNCHANGED supported

Spec == Init /\ [][Add]_vars
==============================================================================
