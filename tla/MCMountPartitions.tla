-------------------------- MODULE MCMountPartitions --------------------------
(* MountPartitions for TLC: two partitions one of whose names is contained  *)
(* in the other's (sda1, sda10) and an opened LUKS container.               *)
EXTENDS MountPartitions

MCParts == {"sda1", "sda10", "crypt"}
MCWithin == {<<p, p>> : p \in MCParts} \cup {<<"sda1", "sda10">>}
MCCrypt == {"crypt"}
MCLvm == {"sda10"}
==============================================================================
