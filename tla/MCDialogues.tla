----------------------------- MODULE MCDialogues -----------------------------
(* Dialogues for TLC: two kernels, two file systems with options, one of    *)
(* which is checked to begin with, and two entries on every other list.     *)
EXTENDS Dialogues

MCKernels == <<"linux-cachyos", "linux">>
MCFsMenu == <<<<>>, <<"discard", "noatime", "ssd">>, <<"noatime", "wsync">>>>
MCNames == {"a", "b"}
==============================================================================
