---------------------------- MODULE MCSystemSetup ----------------------------
(* SystemSetup for TLC: two of what has to differ, and a locale whose name is *)
(* the start of another's.                                                   *)
EXTENDS SystemSetup

MCGroups == <<"wheel", "users">>
MCExtensions == [l \in Locales |-> IF l = "ca_ES" THEN {"ca_ES", "ca_ES@valencia"} ELSE {l}]
==============================================================================
