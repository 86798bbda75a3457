-------------------------- MODULE MCPartitionSchema --------------------------
(* PartitionSchema for TLC: three partitions; one or two subvolumes found on *)
(* the root, listed in either order, with any mountpoints.                   *)
EXTENDS PartitionSchema

\* A boot partition, a home of its own on Btrfs or not, and swap.
MCKinds ==
    {[fstype |-> "vfat", mountpoint |-> "/boot", size |-> 2],
     [fstype |-> "ext4", mountpoint |-> "/boot", size |-> 0],
     [fstype |-> "ext4", mountpoint |-> "/home", size |-> 0],
     [fstype |-> "btrfs", mountpoint |-> "/home", size |-> 0],
     [fstype |-> "linuxswap", mountpoint |-> "", size |-> 1],
     [fstype |-> "linuxswap", mountpoint |-> "", size |-> 0]}

MCExistingLists ==
    UNION {{l \in [1..n -> [subvolume : {"/@", "/@home"},
                            mountpoint : {"/", "/home"}]] :
                \A i, j \in 1..n : l[i].subvolume = l[j].subvolume => i = j} : n \in 1..2}
==============================================================================
