---------------------------- MODULE MCBootloader ----------------------------
(* Bootloader for TLC: a device of each kind.                                *)
EXTENDS Bootloader

MCStack == [d \in Devices |->
    CASE d = "sda1" -> "part" [] d = "crypt1" -> "luks"
      [] d = "crypt2" -> "luks_on_lvm" [] d = "vg-root" -> "lvm_on_luks"]

MCInitialKeys == {[slots |-> 1, file |-> FALSE], [slots |-> 3, file |-> TRUE]}
==============================================================================
