--------------------------- MODULE PartitionSchema ---------------------------
(***************************************************************************)
(* The vector of gucc::fs::Partition and all that gucc computes from it:   *)
(* the sfdisk script, fstab, crypttab and the kernel parameters; and the   *)
(* Btrfs subvolumes of the root, which are created and mounted by          *)
(* src/disk.cpp and entered into the vector by gucc.                       *)
(*                                                                         *)
(* A partition is known by its device, a number that also stands for its   *)
(* UUID and, with LUKS, for the name and the UUID of its container.        *)
(* std::ranges::sort keeps the order of equal elements here: libstdc++     *)
(* sorts up to sixteen elements by insertion.                              *)
(***************************************************************************)
EXTENDS Naturals, FiniteSets, SequencesExt

CONSTANTS
    Devices,       \* partitions of the disk, ordered as their names are
    Kinds,         \* the partitions other than the root that a user may list
    ExistingLists  \* answers to mount_existing_subvols: sequences of Subvolumes

NoSubvolume == "none"     \* no subvolume
No == 0            \* no UUID, no container

\* Mountpoints in the order of std::string; "" is that of swap.
PathOrder == <<"", "/", "/boot", "/home", "/var/cache">>
Mountpoints == ToSet(PathOrder)
FsTypes == {"btrfs", "ext4", "zfs", "vfat", "linuxswap"}
\* Sizes in the order of std::string: empty, "16G", "2G".
Sizes == 0..2
SubvolumeNames == {"/@", "/@home", "/@cache"}
Subvolumes == [subvolume : SubvolumeNames, mountpoint : Mountpoints \ {""}]

ASSUME DevicesAssumption == Devices \subseteq Nat \ {No} /\ Cardinality(Devices) <= 5
ASSUME KindsAssumption ==
    Kinds \subseteq [fstype : FsTypes, mountpoint : Mountpoints \ {"/"}, size : Sizes]
\* btrfs lists every subvolume once.  The user may leave the field for the mountpoint of
\* one empty; that is left out, no subvolume belongs there.
ASSUME ListsAssumption ==
    \A l \in ExistingLists :
        /\ l \in Seq(Subvolumes) /\ l # <<>>
        /\ \A i, j \in DOMAIN l : l[i].subvolume = l[j].subvolume => i = j

\* What an entry may be, on any device; those of the user's disk.
Entries ==
    [fstype : FsTypes, mountpoint : Mountpoints, device : Nat, size : Sizes,
     uuid : Nat, luks : Nat, subvolume : SubvolumeNames \cup {NoSubvolume}]
Partition ==
    [fstype : FsTypes, mountpoint : Mountpoints, device : Devices, size : Sizes,
     uuid : Devices \cup {No}, luks : Devices \cup {No},
     subvolume : SubvolumeNames \cup {NoSubvolume}]

VARIABLES
    partitions,  \* std::vector<gucc::fs::Partition>
    tops,        \* what of the root device is visible at each mountpoint below /mnt:
                 \* a subvolume, "top" for the file system itself, or NoSubvolume
    existing,    \* the subvolumes on the root device
    stage        \* "insert"; "root" right after the root; "failed" once a command of
                 \* the subvolumes has failed or its dialogue was cancelled; "done"

schema_vars == <<partitions, tops, existing, stage>>

Swap(p) == p.fstype = "linuxswap"
RootPart(s) == {i \in DOMAIN s : s[i].mountpoint = "/"}

SchemaInit ==
    /\ partitions = <<>>
    /\ tops = [m \in Mountpoints |-> NoSubvolume]
    /\ existing = {}
    /\ stage = "insert"

-----------------------------------------------------------------------------
(***************************************************************************)
(* The vector: partitions inserted by the installers, in the order of the  *)
(* user's list, then subvolumes.                                           *)
(***************************************************************************)
Entry(fs, m, d, n, u, l) ==
    [fstype |-> fs, mountpoint |-> m, device |-> d, size |-> n, uuid |-> u, luks |-> l,
     subvolume |-> NoSubvolume]

RootDevice == {partitions[i].device : i \in RootPart(partitions)}
NewDevices == Devices \ {partitions[i].device : i \in DOMAIN partitions}

\* The user lists every device and every mountpoint once; the subvolumes of the root
\* are not in that list.
NewMountpoints ==
    Mountpoints \ {partitions[i].mountpoint :
                      i \in {j \in DOMAIN partitions : \/ partitions[j].mountpoint = "/"
                                                       \/ partitions[j].device \notin RootDevice}}

\* A partition other than the root.  Its mount, if it succeeds, hides a subvolume.  The
\* dialogues leave the size empty, the unit tests of gucc do not.
emplace_back ==
    /\ stage # "root"
    /\ \E d \in NewDevices, k \in Kinds : \E l \in {No, d} :
        /\ k.mountpoint \in NewMountpoints
        /\ partitions' = Append(partitions, Entry(k.fstype, k.mountpoint, d, k.size, d, l))
        /\ tops' \in {tops, [tops EXCEPT ![k.mountpoint] = NoSubvolume]}
    /\ UNCHANGED <<existing, stage>>

\* The names that `btrfs subvolume list` printed.
Listed(subvols) == {subvols[i].subvolume : i \in DOMAIN subvols}

\* The root, mounted at /mnt; its size stays empty, its UUID may be unknown.  Only the
\* simple mode goes on to the subvolumes: the advanced one asks for the fstype of an entry
\* it has moved from, so that it never does, neither automatically nor with names typed in.
emplace_root ==
    /\ stage = "insert"
    /\ \E d \in NewDevices, fs \in {"btrfs", "ext4", "zfs"} : \E u, l \in {No, d} :
        /\ partitions' = Append(partitions, Entry(fs, "/", d, 0, u, l))
        /\ stage' \in IF fs = "btrfs" THEN {"root", "done"} ELSE {"done"}
    /\ existing' \in IF stage' = "root" THEN {{}} \cup {Listed(l) : l \in ExistingLists} ELSE {{}}
    /\ tops' = [tops EXCEPT !["/"] = "top"]

\* std::ranges::sort: x goes behind the last one that is not greater.
Insert(s, x, key) ==
    InsertAt(s, SelectLastInSeq(s, LAMBDA p : key[p] <= key[x]) + 1, x)
sort(s, key) ==
    LET upto[n \in 0..Len(s)] == IF n = 0 THEN <<>> ELSE Insert(upto[n - 1], s[n], key)
    IN  upto[Len(s)]
by_device == [p \in Entries |-> p.device]
by_mountpoint == [p \in Entries |-> SelectInSeq(PathOrder, LAMBDA m : m = p.mountpoint)]
by_size_down == [p \in Entries |-> 2 - p.size]

\* std::ranges::unique_copy by device: of neighbours the first one.
unique_copy(s) ==
    LET upto[n \in 0..Len(s)] ==
            IF n = 0 THEN <<>>
            ELSE IF upto[n - 1] # <<>> /\ Last(upto[n - 1]).device = s[n].device THEN upto[n - 1]
            ELSE Append(upto[n - 1], s[n])
    IN  upto[Len(s)]

\* Mutant: an entry is found by the name of its subvolume only.
find_partition_by_name(p, v) == p.subvolume = v.subvolume

find_partition(p, v) == p.mountpoint = v.mountpoint \/ p.subvolume = v.subvolume

is_root_btrfs_part(p) == p.mountpoint = "/" /\ p.fstype = "btrfs"
find_root_btrfs_part(s) == SelectInSeq(s, is_root_btrfs_part)

\* The same search for disk.cpp, which goes on only when there is such a root.
root_part == find_root_btrfs_part(partitions)

\* One subvolume: the first entry found is changed, else a copy of the root is added.
append_subvolume(s, v) ==
    LET found == SelectInSeq(s, LAMBDA p : find_partition(p, v))
        root == s[find_root_btrfs_part(s)]
    IN  IF found # 0
        THEN [s EXCEPT ![found].mountpoint = v.mountpoint, ![found].subvolume = v.subvolume]
        ELSE Append(s, [root EXCEPT !.mountpoint = v.mountpoint, !.size = 0,
                                    !.subvolume = v.subvolume])

btrfs_append_subvolumes(s, subvols) ==
    IF subvols = <<>> \/ find_root_btrfs_part(s) = 0 THEN s
    ELSE LET upto[n \in 0..Len(subvols)] ==
                 IF n = 0 THEN s ELSE append_subvolume(upto[n - 1], subvols[n])
         IN  sort(upto[Len(subvols)], by_device)

\* mount: a mount at / hides what was mounted below it.
mount_subvol(t, v) ==
    [m \in Mountpoints |-> IF m = v.mountpoint THEN v.subvolume
                           ELSE IF v.mountpoint = "/" THEN NoSubvolume ELSE t[m]]
mount_first(n, subvols, t) ==
    LET upto[k \in 0..n] == IF k = 0 THEN t ELSE mount_subvol(upto[k - 1], subvols[k])
    IN  upto[n]
Unmounted == [m \in Mountpoints |-> NoSubvolume]

\* After the umount of /mnt, whose result is ignored: the first mounts of the list, all
\* of them unless one fails.
btrfs_mount_subvols(subvols) ==
    \E below \in {tops, Unmounted}, n \in 0..Len(subvols) :
        /\ tops' = mount_first(n, subvols, below)
        /\ stage' = IF n = Len(subvols) THEN "done" ELSE "failed"

default_subvolumes ==
    <<[subvolume |-> "/@", mountpoint |-> "/"],
      [subvolume |-> "/@home", mountpoint |-> "/home"],
      [subvolume |-> "/@cache", mountpoint |-> "/var/cache"]>>

\* `btrfs subvolume create` for the first n; it fails for a name that is there.
btrfs_create_subvol(n, subvols) ==
    /\ \A i \in 1..n : subvols[i].subvolume \notin existing
    /\ existing' = existing \cup {subvols[i].subvolume : i \in 1..n}

\* gucc: one after the other until one fails; only when none did is the top of the file
\* system unmounted and are the subvolumes mounted in its place.
create_and_mount(subvols) ==
    \E n \in 0..Len(subvols) :
        /\ btrfs_create_subvol(n, subvols)
        /\ IF n = Len(subvols) THEN btrfs_mount_subvols(subvols)
           ELSE stage' = "failed" /\ UNCHANGED tops

\* utils::btrfs_create_subvols, "automatic", on a root without subvolumes.  When one of
\* them cannot be created or mounted the entries are made all the same.
btrfs_create_subvols ==
    /\ stage = "root" /\ existing = {} /\ root_part # 0
    /\ create_and_mount(default_subvolumes)
    /\ partitions' = btrfs_append_subvolumes(partitions, default_subvolumes)

\* The names are those btrfs lists, so all different; the user gives each a mountpoint,
\* or cancels when /mnt is unmounted already.
mount_existing_subvols ==
    /\ stage = "root" /\ existing # {} /\ root_part # 0
    /\ \/ \E subvols \in ExistingLists :
             /\ Listed(subvols) = existing
             /\ btrfs_mount_subvols(subvols)
             /\ partitions' = btrfs_append_subvolumes(partitions, subvols)
       \/ stage' = "failed" /\ tops' \in {tops, Unmounted} /\ UNCHANGED partitions
    /\ UNCHANGED existing

SchemaNext == emplace_back \/ emplace_root \/ btrfs_create_subvols \/ mount_existing_subvols

SchemaSpec == SchemaInit /\ [][SchemaNext]_schema_vars

-----------------------------------------------------------------------------
(***************************************************************************)
(* What is computed from the vector.                                       *)
(***************************************************************************)
\* Mutant: not sorted by size.
gen_sfdisk_command_by_device(s) ==
    LET lines == unique_copy(sort(sort(s, by_mountpoint), by_device))
    IN  [i \in DOMAIN lines |->
            [device |-> lines[i].device, size |-> lines[i].size,
             type |-> CASE lines[i].fstype = "vfat" -> "U"
                        [] Swap(lines[i]) -> "S" [] OTHER -> "L"]]

\* What a loop that passes over the others with `continue` writes: the entries in kept, in
\* their order.
filter(s, kept) ==
    LET upto[n \in 0..Len(s)] ==
            IF n = 0 THEN <<>>
            ELSE IF s[n] \in kept THEN Append(upto[n - 1], s[n]) ELSE upto[n - 1]
    IN  upto[Len(s)]

\* One line per partition; sfdisk makes them in this order.  The script does not name
\* the device, which is kept here to see what a line is for.
gen_sfdisk_command(s) ==
    LET lines == unique_copy(sort(sort(sort(s, by_mountpoint), by_device), by_size_down))
    IN  [i \in DOMAIN lines |->
            [device |-> lines[i].device, size |-> lines[i].size,
             type |-> CASE lines[i].fstype = "vfat" -> "U"
                        [] Swap(lines[i]) -> "S" [] OTHER -> "L"]]

generate_default_partition_schema(is_efi) ==
    IF is_efi THEN <<Entry("vfat", "/boot", 1, 2, No, No), Entry("btrfs", "/", 2, 0, No, No)>>
    ELSE <<Entry("btrfs", "/", 1, 0, No, No)>>

\* The field of fstab that fsck goes by; Btrfs is not checked.
get_check_number(p) ==
    IF p.fstype = "btrfs" THEN 0 ELSE IF p.mountpoint = "/" THEN 1 ELSE 2

\* Mutant: the UUID goes before the container.
gen_fstab_entry_uuid_first(p) ==
    [source |-> IF p.uuid # No THEN <<"UUID", p.uuid>>
                ELSE IF p.luks # No THEN <<"mapper", p.luks>> ELSE <<"dev", p.device>>,
     mountpoint |-> p.mountpoint,
     subvol |-> IF p.fstype = "btrfs" THEN p.subvolume ELSE NoSubvolume,
     pass |-> get_check_number(p)]

gen_fstab_entry(p) ==
    [source |-> IF p.luks # No THEN <<"mapper", p.luks>>
                ELSE IF p.uuid # No THEN <<"UUID", p.uuid>> ELSE <<"dev", p.device>>,
     mountpoint |-> p.mountpoint,
     subvol |-> IF p.fstype = "btrfs" THEN p.subvolume ELSE NoSubvolume,
     pass |-> get_check_number(p)]

generate_fstab_content(s) ==
    LET listed == filter(s, {p \in ToSet(s) : p.fstype # "zfs" /\ ~Swap(p)})
    IN  [i \in DOMAIN listed |-> gen_fstab_entry(listed[i])]

\* The file that replaces old and the result: a file that cannot be opened stays as it is.
create_file_for_overwrite(old, data) ==
    {[file |-> data, ok |-> TRUE], [file |-> old, ok |-> FALSE]}

\* /mnt/etc/fstab in the place of old.
generate_fstab(old, s) == create_file_for_overwrite(old, generate_fstab_content(s))

\* is_boot_encrypted looks for the mountpoint "/bool", which nobody has.
is_root_encrypted(s) == \E i \in RootPart(s) : s[i].luks # No
is_boot_encrypted(s) == \E i \in DOMAIN s : s[i].mountpoint = "/bool" /\ s[i].luks # No

\* Mutant: the root's own container is opened with the key file, too.
gen_crypttab_entry_keyfile(p, root_encrypted, boot_encrypted) ==
    [name |-> p.luks,
     password |-> IF ~root_encrypted THEN "none" ELSE "/crypto_keyfile.bin"]

gen_crypttab_entry(p, root_encrypted, boot_encrypted) ==
    [name |-> p.luks,
     password |-> IF ~root_encrypted \/ (p.mountpoint = "/" /\ ~boot_encrypted)
                  THEN "none" ELSE "/crypto_keyfile.bin"]

\* Mutant: duplicates are not dropped.
generate_crypttab_content_all(s) ==
    LET listed == filter(sort(sort(s, by_mountpoint), by_device),
                         {p \in ToSet(s) : p.luks # No})
    IN  [i \in DOMAIN listed |->
            gen_crypttab_entry(listed[i], is_root_encrypted(s), is_boot_encrypted(s))]

generate_crypttab_content(s) ==
    LET listed == filter(unique_copy(sort(sort(s, by_mountpoint), by_device)),
                         {p \in ToSet(s) : p.luks # No})
    IN  [i \in DOMAIN listed |->
            gen_crypttab_entry(listed[i], is_root_encrypted(s), is_boot_encrypted(s))]

\* /mnt/etc/crypttab in the place of old.
generate_crypttab(old, s) == create_file_for_overwrite(old, generate_crypttab_content(s))

\* The set of parameters, empty for nullopt.  A later root entry takes the place of an earlier one;
\* root=ZFS= does not keep root=UUID= away.
get_kernel_params(s, zfs_root_dataset) ==
    LET roots == RootPart(s)
        root == s[Max(roots)]
        containers == {i \in roots : s[i].luks # No}
        crypt == s[Max(containers)].luks
        swaps == {i \in DOMAIN s : Swap(s[i])}
        flags == {<<"rootflags", s[i].subvolume>> :
                     i \in {j \in roots : s[j].fstype = "btrfs" /\ s[j].subvolume # NoSubvolume}}
        zfs == {i \in roots : s[i].fstype = "zfs"}
    IN  IF roots = {} THEN {}
        ELSE IF root.uuid = No \/ (zfs # {} /\ zfs_root_dataset = NoSubvolume) THEN {}
        ELSE flags \cup {<<"root", <<"ZFS", zfs_root_dataset>> >> : i \in zfs}
             \cup (IF containers # {}
                   THEN {<<"cryptdevice", crypt>>, <<"root", <<"mapper", crypt>> >>}
                   ELSE {<<"root", <<"UUID", root.uuid>> >>})
             \cup {<<"resume", gen_fstab_entry(s[i]).source>> : i \in swaps}

-----------------------------------------------------------------------------
\* The variables hold entries as the code makes them.
SchemaTypeOK ==
    /\ partitions \in Seq(Partition)
    /\ tops \in [Mountpoints -> SubvolumeNames \cup {"top", NoSubvolume}]
    /\ existing \subseteq SubvolumeNames
    /\ stage \in {"insert", "root", "done", "failed"}

\* The kernel command line and fstab name the same root: once a root was inserted both
\* have exactly one, from the same source and with the same subvolume, however the
\* subvolumes were entered afterwards.
RootAgrees ==
    LET fstab == generate_fstab_content(partitions)
        params == get_kernel_params(partitions, NoSubvolume)
    IN  /\ stage # "insert" => Cardinality(RootPart(partitions)) = 1
        /\ params # {} =>
            \E i \in DOMAIN fstab :
                /\ \A j \in DOMAIN fstab : fstab[j].mountpoint = "/" <=> j = i
                /\ {q \in params : q[1] = "root"} = {<<"root", fstab[i].source>>}
                /\ {q \in params : q[1] = "rootflags"} =
                       {<<"rootflags", v>> : v \in {fstab[i].subvol} \ {NoSubvolume}}

\* When a crypttab was written, it opens every container that resume= needs and, unless
\* fstab could not be written and is still empty, every one that fstab needs; and each
\* only once: a container with several subvolumes has one line.
ContainersOpened ==
    \A tab \in generate_fstab(<<>>, partitions), crypt \in generate_crypttab(<<>>, partitions) :
        LET fstab == tab.file
            crypttab == crypt.file
            resume == {i \in DOMAIN partitions : Swap(partitions[i])}
            needed == {fstab[i].source : i \in DOMAIN fstab}
                          \cup {gen_fstab_entry(partitions[i]).source : i \in resume}
        IN  crypt.ok =>
                /\ \A e \in needed : e[1] = "mapper" =>
                       \E i \in DOMAIN crypttab : crypttab[i].name = e[2]
                /\ \A i, j \in DOMAIN crypttab : crypttab[i].name = crypttab[j].name => i = j

\* The key file is on the root: no line may ask for it unless the root is encrypted
\* itself, and never the line of the root's own container while /boot is readable.
KeyFileReachable ==
    LET crypttab == generate_crypttab_content(partitions)
        roots == {partitions[i].luks : i \in RootPart(partitions)} \ {No}
        boots == {i \in DOMAIN partitions : partitions[i].mountpoint = "/boot"
                                            /\ partitions[i].luks # No}
    IN  \A i \in DOMAIN crypttab :
            crypttab[i].password # "none" =>
                roots # {} /\ (boots = {} => crypttab[i].name \notin roots)

\* sfdisk is told of every device once, also after subvolumes were entered, and a line
\* without a size, which takes the rest of the disk, is never followed by one with a
\* size.  For the default schema line n is for partition n.
SfdiskLines ==
    /\ \A s \in {partitions, generate_default_partition_schema(TRUE)} :
          LET lines == gen_sfdisk_command(s)
          IN  /\ {s[i].device : i \in DOMAIN s} = {lines[i].device : i \in DOMAIN lines}
              /\ \A i, j \in DOMAIN lines :
                    i < j => lines[i].device # lines[j].device /\ lines[i].size >= lines[j].size
    /\ \A efi \in BOOLEAN :
          LET lines == gen_sfdisk_command(generate_default_partition_schema(efi))
          IN  \A i \in DOMAIN lines : lines[i].device = i

\* What is visible of the root device below /mnt has one entry for that device, with
\* that subvolume, or its mountpoint belongs to another device of the list; also when the
\* user gave one mountpoint to several subvolumes, listed in any order.  Every subvolume
\* entered for the device is there.
MountedAsEntered ==
    stage = "done" =>
        \A r \in RootPart(partitions) : \A m \in Mountpoints :
            LET entries == {i \in DOMAIN partitions : partitions[i].mountpoint = m}
                own == {i \in entries : partitions[i].device = partitions[r].device}
            IN  /\ tops[m] \notin {NoSubvolume, "top"} =>
                       \/ \E i \in own : own = {i} /\ partitions[i].subvolume = tops[m]
                       \/ own = {} /\ entries # {}
                /\ \A i \in own : partitions[i].subvolume \in existing \cup {NoSubvolume}
=============================================================================
