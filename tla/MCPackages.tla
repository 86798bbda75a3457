----------------------------- MODULE MCPackages -----------------------------
(* Packages for TLC: a desktop of each kind, and two kernels.                *)
EXTENDS Packages

MCRank == [m \in DisplayManagers |-> IF m = "lightdm" THEN 1 ELSE 2]
MCManagerOf == [d \in Desktops |->
    CASE d = "kde" -> "sddm" [] d = "xfce" -> "lightdm" [] d = "sway" -> Nothing]
==============================================================================
