----------------------------- MODULE MCDiskMenus -----------------------------
(* DiskMenus for TLC: three disks, two of them with a partition and one of   *)
(* these with a volume group, so that an array can take either away.         *)
EXTENDS DiskMenus, BlockDevices

MCDiskOf == [p \in Partitions |-> IF p = "sda1" THEN "sda" ELSE "sdb"]
MCVolumeGroups == {[name |-> "vg0", size |-> "20GiB", pv |-> "sda1"]}
MCDatasetPaths == {<<"data">>, <<"data", "home">>}

\* Objects with a name and perhaps a parent and a size, each of any kind.
MCValues(texts) == [kind : {"string"}, value : texts] \cup {[kind |-> "null", value |-> 0]}
MCDocs ==
    UNION {[members -> MCValues({"", "sda", "sda1"})] :
             members \in {{"name"}, {"name", "pkname"}, {"pkname", "type"}}}
        \cup {[name |-> n, size |-> [kind |-> "number", value |-> 512]] : n \in MCValues({"sda"})}

\* Every list of up to two of them.
ASSUME Lookups ==
    \A docs \in SeqOf(MCDocs, 2), text \in {"", "sda", "sda1"} : LooksUp(docs, text)
ASSUME NoOutput ==
    \A valid \in BOOLEAN :
        /\ list_block_devices([empty |-> TRUE, valid |-> valid, blockdevices |-> <<>>]) = {}
        /\ parse_lsblk_json([empty |-> FALSE, valid |-> FALSE, blockdevices |-> <<>>]) = <<>>
==============================================================================
