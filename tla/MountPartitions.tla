--------------------------- MODULE MountPartitions ---------------------------
(****************************************************************************)
(* The advanced installer's "Mount Partitions" (tui::mount_partitions) and  *)
(* "Partition Disk" dialogues over the global Config, the mount table and   *)
(* the active swaps.  The dialogues run one at a time, so an action is one  *)
(* function of tui.cpp with the user's answers chosen by \E.  The root is   *)
(* not on ZFS (ZFS_ZPOOL_NAMES is empty and no ZFS file system is mounted). *)
(****************************************************************************)
EXTENDS Integers, FiniteSets, MountTable

CONSTANTS
    Parts,      \* every partition the disk may come to have
    Within,     \* <<p, q>>: the name of p occurs in the lsblk line of q
    Crypt,      \* those that lsblk lists with TYPE crypt
    Lvm,        \* those that lsblk lists with TYPE lvm
    UEFI,       \* SYSTEM == "UEFI"
    SwapoffFails,   \* whether swapoff may fail, which is only logged
    MaxPasses,  \* bound: calls of mount_partitions
    MaxMounts,  \* bound: entries in the mount table
    MaxEntries  \* bound: entries of the partition schema

ASSUME PartsAssumption ==
    /\ IsFiniteSet(Parts)
    /\ Within \subseteq Parts \X Parts
    /\ \A p \in Parts : <<p, p>> \in Within
    /\ Crypt \subseteq Parts /\ Lvm \subseteq Parts
    /\ UEFI \in BOOLEAN /\ SwapoffFails \in BOOLEAN
    /\ MaxPasses \in Nat
    /\ "" \notin Parts /\ "swapfile" \notin Parts

VARIABLES
    at,                             \* the dialogue that is open
    passes,
    disk, fstype,                   \* partitions on the disk, what they hold
    mounts, swaps,                  \* the mount table, the active swaps
    PARTITIONS, NUMBER_PARTITIONS,  \* Config entries
    ROOT_PART, SWAP_DEVICE, LUKS_NAME, LVM_SEP_BOOT, fs_opts,
    partitions                      \* local: the gucc::fs::Partition entries

config == <<ROOT_PART, SWAP_DEVICE, LUKS_NAME, LVM_SEP_BOOT, fs_opts>>
vars == <<at, passes, disk, fstype, mounts, swaps, PARTITIONS,
          NUMBER_PARTITIONS, config, partitions>>

FsTypes == {"none", "linux", "fat", "swap"}

TypeOK ==
    /\ at \in {"prep_menu", "root", "root_mkfs", "swap", "extra", "terminated"}
    /\ passes \in 0..MaxPasses
    /\ disk \subseteq Parts /\ fstype \in [Parts -> FsTypes]
    /\ mounts \in Seq([dev : Parts, path : Seq(Nat)])
    /\ swaps \subseteq Parts \cup {"swapfile"}
    /\ PARTITIONS \subseteq Parts /\ NUMBER_PARTITIONS \in Int
    /\ ROOT_PART \in Parts \cup {""}
    /\ SWAP_DEVICE \in Parts \cup {"", "swapfile"}
    /\ LUKS_NAME \in Parts \cup {""} /\ LVM_SEP_BOOT \in 0..2
    /\ fs_opts \in {"unset", "empty", "some"}
    /\ partitions \subseteq [fstype : {"root", "other", "linuxswap"},
                           mountpoint : Seq(Nat), device : Parts,
                           luks : Parts \cup {""}]

Init ==
    /\ at = "prep_menu" /\ passes = 0
    /\ disk \in SUBSET Parts
    /\ fstype \in [Parts -> {"none", "linux"}]
    /\ \A p \in Parts \ disk : fstype[p] = "none"
    /\ mounts = <<>> /\ swaps = {}
    /\ PARTITIONS = {} /\ NUMBER_PARTITIONS = 0
    /\ ROOT_PART = "" /\ SWAP_DEVICE = "" /\ LUKS_NAME = ""
    /\ LVM_SEP_BOOT = 0 /\ fs_opts = "unset"
    /\ partitions = {}

\* A gucc::fs::Partition: kind of file system, mountpoint, luks_mapper_name.
Entry(kind, mountpoint, device, luks) ==
    [fstype |-> kind, mountpoint |-> mountpoint, device |-> device, luks |-> luks]

InUse(p) == p \in Mounted(mounts) \cup swaps

\* The text of p's name occurs in the line of q.
contains(q, p) == <<p, q>> \in Within

\* erase_if(partitions, contains(line, partition)); number_partitions -= 1
UsePartition(p) ==
    /\ PARTITIONS' = {q \in PARTITIONS : ~contains(q, p)}
    /\ NUMBER_PARTITIONS' = NUMBER_PARTITIONS - 1

\* mount: the device must hold a file system, and may fail all the same.
MountOutcomes(p, holds, path) ==
    {mounts} \cup IF holds \in {"linux", "fat"} /\ Len(mounts) < MaxMounts
                  THEN {Append(mounts, [dev |-> p, path |-> path])} ELSE {}

\* Only a crypt device makes it set LUKS_NAME.
query_partition(p, name) == IF p \in Crypt THEN p ELSE name

\* What is queried is what was mounted; after a failed mount nothing is.  At a
\* place that was in use findmnt prints several devices, and the query made of
\* them finds nothing.  name is LUKS_NAME so far.
mount_partition(p, holds, path, name) ==
    /\ mounts' \in MountOutcomes(p, holds, path)
    /\ LUKS_NAME' = IF mounts' = mounts \/ Newest(mounts, path) # 0 THEN name
                    ELSE query_partition(p, name)

------------------------------------------------------------------------------
(* utils::umount_partitions, utils::find_partitions, create_partitions      *)

\* Mutant: without swapoff.
utils_umount_partitions_no_swapoff ==
    /\ UNCHANGED swaps
    /\ mounts' = umount_partitions(mounts).table

\* swapoff SWAP_DEVICE, then unmount; SWAP_DEVICE keeps its value.
utils_umount_partitions ==
    /\ swaps' \in {swaps \ {SWAP_DEVICE}} \cup IF SwapoffFails THEN {swaps} ELSE {}
    /\ mounts' = umount_partitions(mounts).table

\* cfdisk and the like: any partitions, except that those in use stay.
create_partitions(used) ==
    \E d \in SUBSET Parts :
        /\ used \cap Parts \subseteq d
        /\ disk' = d
        /\ fstype' = [p \in Parts |-> IF p \in disk \cap d THEN fstype[p] ELSE "none"]

\* "Partition Disk" of prep_menu.
partition_disk ==
    /\ at = "prep_menu"
    /\ utils_umount_partitions
    /\ create_partitions(Mounted(mounts') \cup swaps')
    /\ UNCHANGED <<at, passes, PARTITIONS, NUMBER_PARTITIONS, config, partitions>>

\* With too few partitions the user is sent to create_partitions, and the list
\* read before stays.
find_partitions ==
    /\ PARTITIONS' = disk /\ NUMBER_PARTITIONS' = Cardinality(disk)
    /\ IF Cardinality(disk) < (IF UEFI THEN 2 ELSE 1)
       THEN create_partitions(Mounted(mounts') \cup swaps')
       ELSE UNCHANGED <<disk, fstype>>

mount_partitions ==
    /\ at = "prep_menu" /\ passes < MaxPasses
    /\ at' = "root" /\ passes' = passes + 1
    /\ utils_umount_partitions
    /\ find_partitions
    /\ partitions' = {}
    /\ UNCHANGED config

------------------------------------------------------------------------------
(* mount_root_partition                                                     *)

\* Any menu left with Cancel, or "Done" on BIOS: the whole of mount_partitions
\* returns.
cancel ==
    /\ at \in {"root", "extra"}
    /\ at' = "prep_menu" /\ partitions' = {}
    /\ UNCHANGED <<passes, disk, fstype, mounts, swaps, PARTITIONS,
                   NUMBER_PARTITIONS, config>>

\* "OK" on a menu over an empty PARTITIONS reads element 0 of an empty vector.
ok_on_empty_menu ==
    /\ PARTITIONS = {}
    /\ at = "root" \/ (at = "extra" /\ UEFI)
    /\ at' = "terminated"
    /\ UNCHANGED <<passes, disk, fstype, mounts, swaps, PARTITIONS,
                   NUMBER_PARTITIONS, config, partitions>>

\* What the user may answer: a partition, and a file system for it or "Do not format".
RootPartitionSelection == [device : PARTITIONS, format_requested : BOOLEAN]

\* A file system was chosen for the root: select_mount_opts takes fs_opts as a
\* vector, which it is only after select_filesystem has run once.
select_root_partition_info ==
    /\ at = "root"
    /\ \E selection \in RootPartitionSelection :
          /\ selection.format_requested /\ ROOT_PART' = selection.device
          /\ at' \in {"prep_menu",
                      IF fs_opts = "unset" THEN "terminated" ELSE "root_mkfs"}
    /\ UNCHANGED <<passes, disk, fstype, mounts, swaps, PARTITIONS, partitions,
                   NUMBER_PARTITIONS, SWAP_DEVICE, LUKS_NAME, LVM_SEP_BOOT,
                   fs_opts>>

\* The command is the menu's text, "ext4 mkfs.ext4 -q": there is no such command
\* for any of them, so exec_checked() fails and mount_partitions returns.
format_root ==
    /\ at = "root_mkfs" /\ at' = "prep_menu"
    /\ UNCHANGED <<passes, disk, fstype, mounts, swaps, PARTITIONS,
                   NUMBER_PARTITIONS, config, partitions>>

\* "Do not format": mounted at MOUNTPOINT + MOUNTPOINT, and put into the
\* schema whether or not that worked.
apply_root_partition_actions ==
    /\ at = "root" /\ at' = "swap"
    /\ \E selection \in RootPartitionSelection :
          LET p == selection.device IN
          /\ ~selection.format_requested /\ ROOT_PART' = p
          /\ mount_partition(p, fstype[p], MntMnt, "")
          /\ partitions' = {Entry("root", Mountpoint, p, LUKS_NAME')}
    /\ UNCHANGED <<passes, disk, fstype, swaps, PARTITIONS, NUMBER_PARTITIONS,
                   SWAP_DEVICE, LVM_SEP_BOOT, fs_opts>>

------------------------------------------------------------------------------
(* make_swap, then while (number_partitions > 0)                            *)

\* The schema is a local: it is gone when the loop ends mount_partitions.
LoopTest(number, schema) ==
    /\ at' = IF number > 0 THEN "extra" ELSE "prep_menu"
    /\ partitions' = IF number > 0 THEN schema ELSE {}

\* gucc's part: fallocate, mkswap and swapon, all of which worked.
swap_make_swapfile == swaps' = swaps \cup {"swapfile"}

\* mkswap, then swapon; ok of them work.  mkswap refuses a device in use.
swap_make_swap_partition(p, ok) ==
    /\ ok >= 1 => p \in disk /\ ~InUse(p)
    /\ fstype' = IF ok >= 1 THEN [fstype EXCEPT ![p] = "swap"] ELSE fstype
    /\ swaps' = IF ok = 2 THEN swaps \cup {p} ELSE swaps

\* Mutant: a swapon that fails is entered into the schema all the same.
make_swap_not_but_entered ==
    /\ at = "swap"
    /\ \E p \in PARTITIONS :
          /\ swap_make_swap_partition(p, 1)
          /\ LoopTest(NUMBER_PARTITIONS, partitions \cup {Entry("linuxswap", <<>>, p, "")})
    /\ UNCHANGED <<passes, disk, mounts, PARTITIONS, NUMBER_PARTITIONS, config>>

\* None, Cancel, a refused mkswap, or a command that failed on the way.
make_swap_not ==
    /\ at = "swap"
    /\ \/ UNCHANGED <<fstype, swaps>>
       \/ \E p \in PARTITIONS : swap_make_swap_partition(p, 1)
    /\ LoopTest(NUMBER_PARTITIONS, partitions)
    /\ UNCHANGED <<passes, disk, mounts, PARTITIONS, NUMBER_PARTITIONS, config>>

make_swapfile ==
    /\ at = "swap"
    /\ swap_make_swapfile /\ SWAP_DEVICE' = "swapfile"
    /\ LoopTest(NUMBER_PARTITIONS, partitions)
    /\ UNCHANGED <<passes, disk, fstype, mounts, PARTITIONS, NUMBER_PARTITIONS,
                   ROOT_PART, LUKS_NAME, LVM_SEP_BOOT, fs_opts>>

make_swap_partition ==
    /\ at = "swap"
    /\ \E p \in PARTITIONS :
          /\ swap_make_swap_partition(p, 2) /\ SWAP_DEVICE' = p
          /\ UsePartition(p)
          /\ LoopTest(NUMBER_PARTITIONS', partitions \cup {Entry("linuxswap", <<>>, p, "")})
    /\ UNCHANGED <<passes, disk, mounts, ROOT_PART, LUKS_NAME, LVM_SEP_BOOT,
                   fs_opts>>

------------------------------------------------------------------------------
(* The loop over all other partitions, and "Done"                           *)

\* select_filesystem (its result is ignored): no file system chosen, one
\* chosen but formatting refused, or formatted.
select_filesystem(p) ==
    \/ fs_opts' = "empty" /\ UNCHANGED fstype
    \/ fs_opts' = "some" /\ UNCHANGED fstype
    \/ /\ fs_opts' = "some" /\ p \in disk /\ ~InUse(p)
       /\ fstype' = [fstype EXCEPT ![p] = "linux"]

\* Mutant: the count goes down although the mount failed.
confirm_mount_counts(p, path) ==
    IF Listed(mounts', path) THEN UsePartition(p)
    ELSE NUMBER_PARTITIONS' = NUMBER_PARTITIONS - 1 /\ UNCHANGED PARTITIONS

\* confirm_mount(path): the list shrinks only if something is mounted there.
confirm_mount(p, path) ==
    IF Listed(mounts', path) THEN UsePartition(p)
    ELSE UNCHANGED <<PARTITIONS, NUMBER_PARTITIONS>>

extra_cancelled ==
    /\ at = "extra" /\ at' = "prep_menu" /\ partitions' = {}
    /\ \E p \in PARTITIONS : select_filesystem(p)
    /\ UNCHANGED <<passes, disk, mounts, swaps, PARTITIONS, NUMBER_PARTITIONS,
                   ROOT_PART, SWAP_DEVICE, LUKS_NAME, LVM_SEP_BOOT>>

\* The partition is mounted at MOUNTPOINT + MOUNT, and looked for there.
mount_current_partition(p, path) ==
    /\ mount_partition(p, fstype'[p], path, LUKS_NAME)
    /\ confirm_mount(p, path)

\* The mountpoint is asked for until it is one; it is entered whether or not
\* anything could be mounted.
mount_other_partition ==
    /\ at = "extra" /\ Cardinality(partitions) < MaxEntries
    /\ \E p \in PARTITIONS, path \in {Boot, BootEfi, Home} :
          /\ select_filesystem(p) /\ mount_current_partition(p, path)
          /\ LVM_SEP_BOOT' = IF path # Boot THEN LVM_SEP_BOOT
                             ELSE IF p \in Lvm THEN 2 ELSE 1
          /\ LoopTest(NUMBER_PARTITIONS', partitions \cup {Entry("other", path, p, LUKS_NAME')})
    /\ UNCHANGED <<passes, disk, swaps, ROOT_PART, SWAP_DEVICE>>

\* On UEFI: a partition that is not FAT may be formatted, and no mountpoint may be
\* chosen for it.
make_esp ==
    \E p \in PARTITIONS :
        /\ \/ UNCHANGED fstype
           \/ /\ fstype[p] # "fat" /\ p \in disk /\ ~InUse(p)
              /\ fstype' = [fstype EXCEPT ![p] = "fat"]
        /\ \/ UNCHANGED <<mounts, PARTITIONS, NUMBER_PARTITIONS>>
           \/ \E path \in {Boot, BootEfi} :
                 /\ mounts' \in MountOutcomes(p, fstype'[p], path)
                 /\ confirm_mount(p, path)

\* "Done" on UEFI.  The schema is then only logged.
done ==
    /\ at = "extra" /\ UEFI
    /\ make_esp
    /\ at' = "prep_menu" /\ partitions' = {}
    /\ UNCHANGED <<passes, disk, swaps, config>>

mount_root_partition == select_root_partition_info \/ format_root \/ apply_root_partition_actions
make_swap == make_swap_not \/ make_swapfile \/ make_swap_partition
other_partitions == extra_cancelled \/ mount_other_partition \/ done

\* The root or nothing, then the swap, then the loop; any menu may be cancelled.
mounting == mount_root_partition \/ make_swap \/ other_partitions \/ cancel \/ ok_on_empty_menu

Next == partition_disk \/ mount_partitions \/ mounting

Spec == Init /\ [][Next]_vars

------------------------------------------------------------------------------
(* What should hold.                                                        *)

\* The loop over the other partitions tests NUMBER_PARTITIONS and its menu shows
\* PARTITIONS: the count never falls below the list, however the lines to erase
\* overlap and whichever mounts fail, so no offered partition becomes unreachable.
CountCoversList == NUMBER_PARTITIONS >= Cardinality(PARTITIONS)

\* Through any number of calls in which swapoff works, every active swap is the
\* one SWAP_DEVICE names, so that the next umount_partitions can turn it off.
SwapTracked == swaps \subseteq {SWAP_DEVICE}

\* A swap partition is in the schema only if it is really active: one of mkswap
\* and swapon failing leaves no entry behind.
SwapEntryActive ==
    \A e \in partitions :
        e.fstype = "linuxswap" => e.device \in swaps

\* Whatever was mounted in whatever order, umount_partitions reports success
\* exactly when nothing is left mounted below MOUNTPOINT.
UmountHonest ==
    LET r == umount_partitions(mounts) IN r.ok <=> r.table = <<>>

==============================================================================
