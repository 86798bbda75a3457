------------------------------ MODULE DiskMenus ------------------------------
(****************************************************************************)
(* The RAID, LVM, LUKS and ZFS menus of "Prepare disks".  They share the    *)
(* Config entries PARTITION, LUKS_ROOT_NAME, PASSWD and ZFS_ZPOOL_NAME,     *)
(* which a cancelled dialogue leaves as the last answer set them.  Every    *)
(* command they run may fail.  Left out: what the menus only show, super    *)
(* blocks of disks in no running array, and the umount_partitions of each   *)
(* visit (MountPartitions models it).  Five ZFS dialogues and the removal   *)
(* of everything LVM are in the source and in no menu: Uncalled says        *)
(* whether they are taken for menu entries, so that what they do to the     *)
(* shared state is checked before somebody calls them.                      *)
(****************************************************************************)
EXTENDS Naturals, FiniteSets, Sequences, SequencesExt

CONSTANTS
    Disks, Partitions, DiskOf,   \* whole disks, their partitions, and where those are
    Names, Passwords,       \* what may be typed into the dialogues
    Foreign,                \* numbers of the arrays the live system assembled
    Named,                  \* those among them that have a name, see ScanLine
    VolumeGroups,           \* the groups on the disks, [name, size, pv] each
    ForeignPools,           \* the zpools the live system imported
    DatasetPaths,           \* what may be typed for a dataset, below its pool
    Uncalled,               \* the functions without a caller are entries
    None,
    MaxVisits               \* bound: dialogues opened

ASSUME DiskAssumption ==
    /\ DiskOf \in [Partitions -> Disks] /\ IsFiniteSet(Disks)
    /\ Foreign \subseteq 0..998 /\ IsFiniteSet(Foreign) /\ Named \subseteq Foreign
    /\ None \notin Partitions \cup Names \cup Passwords
    /\ Uncalled \in BOOLEAN /\ MaxVisits \in Nat

VARIABLES
    PARTITION, LUKS_ROOT_NAME, PASSWD, RAID, ZFS, ZFS_ZPOOL_NAME,
    ZFS_ZPOOL_NAMES,        \* Config entries
    luks,                   \* password of each partition's LUKS header, or None
    mapper,                 \* the partition open under each name, or None
    arrays, member,         \* running arrays, and the one each disk is in
    named,                  \* those of the running arrays that have a name
    mdadm_conf,             \* the lines of /etc/mdadm.conf, a bag
    groups, active,         \* volume groups, and those whose volumes are usable
    pools, datasets,        \* zpools, and the paths of their file systems and volumes
    visit,                  \* what the last LUKS dialogue was asked and said
    visits

disk_config == <<PARTITION, LUKS_ROOT_NAME, PASSWD, RAID, ZFS, ZFS_ZPOOL_NAME, ZFS_ZPOOL_NAMES>>
crypt == <<luks, mapper>>
raid == <<arrays, member, named, mdadm_conf>>
lvm == <<groups, active>>
zfs == <<pools, datasets>>
disk_vars == <<disk_config, crypt, raid, lvm, zfs, visit, visits>>

NoVisit == [entry |-> "none", part |-> None, name |-> None, pass |-> None,
            done |-> FALSE, failed |-> FALSE]

DiskTypeOK ==
    /\ PARTITION \in Partitions \cup {None}
    /\ LUKS_ROOT_NAME \in Names \cup {None} /\ PASSWD \in Passwords \cup {None}
    /\ RAID \in {0, 1} /\ ZFS \in {0, 1}
    /\ ZFS_ZPOOL_NAME \in Names \cup {None} /\ ZFS_ZPOOL_NAMES \in Seq(Names)
    /\ luks \in [Partitions -> Passwords \cup {None}]
    /\ mapper \in [Names -> Partitions \cup {None}]
    /\ arrays \subseteq Nat /\ IsFiniteSet(arrays)
    /\ \A d \in Disks : member[d] \in arrays \/ member[d] = None
    /\ named \subseteq arrays
    /\ IsABag(mdadm_conf) /\ DOMAIN mdadm_conf \subseteq [number : Nat, by_name : BOOLEAN]
    /\ groups \subseteq VolumeGroups /\ active \subseteq groups
    /\ pools \subseteq Names \cup ForeignPools
    /\ \A d \in datasets : d[1] \in pools
    /\ visits \in 0..MaxVisits

DiskInit ==
    /\ PARTITION = None /\ LUKS_ROOT_NAME = None /\ PASSWD = None
    /\ RAID = 0 /\ ZFS = 0 /\ ZFS_ZPOOL_NAME = None /\ ZFS_ZPOOL_NAMES = <<>>
    /\ luks \in [Partitions -> Passwords \cup {None}]
    /\ mapper = [n \in Names |-> None]
    /\ arrays = Foreign /\ named = Named
    /\ member = [d \in Disks |-> None] /\ mdadm_conf = EmptyBag
    /\ groups \in SUBSET {g \in VolumeGroups : luks[g.pv] = None} /\ active = {}
    /\ pools = ForeignPools /\ datasets = {}
    /\ visit = NoVisit /\ visits = 0

Visit == visits < MaxVisits /\ visits' = visits + 1

------------------------------------------------------------------------------
(* LUKS.                                                                    *)

\* The partitions find_partitions offers: an array hides those of its disks.
Offered == {p \in Partitions : member[DiskOf[p]] = None}
IsOpen(p) == \E n \in Names : mapper[n] = p
HoldsVolumes(p) == \E g \in active : g.pv = p

\* luksFormat refuses a device that is in use; both may fail otherwise.
CanFormat(p) == p \in Offered /\ ~IsOpen(p) /\ ~HoldsVolumes(p)
CanOpen(headers, p, n, pass) ==
    /\ p \in Offered /\ ~IsOpen(p) /\ n \in Names /\ mapper[n] = None
    /\ headers[p] = pass /\ pass # None

\* Mutant: a password that Config has already is kept.
Stored_keeps_password(typed) ==
    /\ PARTITION' = typed.part /\ LUKS_ROOT_NAME' = typed.name
    /\ PASSWD' = IF PASSWD = None THEN typed.pass ELSE PASSWD

\* What is typed into a dialogue that is answered to its end; each answer is stored in
\* Config when it is given.
Typed == [part : Offered, name : Names, pass : Passwords]
Stored(typed) == PARTITION' = typed.part /\ LUKS_ROOT_NAME' = typed.name /\ PASSWD' = typed.pass

\* luks_setup and the dialogues of luks_open: the answers given before Cancel
\* stay in Config.  ok: all of them were answered.
Dialogue(ok) ==
    \/ ~ok /\ UNCHANGED <<PARTITION, PASSWD>> /\ LUKS_ROOT_NAME' = LUKS_ROOT_NAME
    \/ /\ ~ok /\ PARTITION' \in Offered
       /\ LUKS_ROOT_NAME' \in {LUKS_ROOT_NAME} \cup Names /\ UNCHANGED PASSWD
    \/ ok /\ \E typed \in Typed : Stored(typed)

\* luks_open resets LUKS_ROOT_NAME before anything is asked.
OpenDialogue(ok) ==
    \/ ~ok /\ UNCHANGED <<PARTITION, PASSWD>> /\ LUKS_ROOT_NAME' = None
    \/ ~ok /\ PARTITION' \in Offered /\ LUKS_ROOT_NAME' \in {None} \cup Names /\ UNCHANGED PASSWD
    \/ ok /\ \E typed \in Typed : Stored(typed)

\* What Config has, which is all that luks_encrypt is told.
Kept == [part |-> PARTITION, name |-> LUKS_ROOT_NAME, pass |-> PASSWD]

\* asked: what the user was asked for and typed.
Answered(entry, asked, done, failed) ==
    [entry |-> entry, part |-> asked.part, name |-> asked.name, pass |-> asked.pass,
     done |-> done, failed |-> failed]

luks_open ==
    /\ Visit /\ UNCHANGED <<RAID, ZFS, ZFS_ZPOOL_NAME, ZFS_ZPOOL_NAMES, luks, raid, lvm, zfs>>
    /\ \/ OpenDialogue(FALSE) /\ UNCHANGED mapper /\ visit' = Answered("Open", Kept', FALSE, FALSE)
       \/ /\ OpenDialogue(TRUE)
          /\ \/ /\ CanOpen(luks, PARTITION', LUKS_ROOT_NAME', PASSWD')
                /\ mapper' = [mapper EXCEPT ![LUKS_ROOT_NAME'] = PARTITION']
                /\ visit' = Answered("Open", Kept', TRUE, FALSE)
             \/ UNCHANGED mapper /\ visit' = Answered("Open", Kept', FALSE, TRUE)

\* luks1_format, which may fail with no more than a message, then luks1_open
\* whatever it did; luks_show says "Done!" in any case.
luks_encrypt(entry, asked) ==
    \E formats, works \in BOOLEAN :
        /\ formats => CanFormat(PARTITION')
        /\ luks' = IF formats THEN [luks EXCEPT ![PARTITION'] = PASSWD'] ELSE luks
        /\ groups' = IF formats THEN {g \in groups : g.pv # PARTITION'} ELSE groups
        /\ active' = active
        /\ works => CanOpen(luks', PARTITION', LUKS_ROOT_NAME', PASSWD')
        /\ mapper' = IF works THEN [mapper EXCEPT ![LUKS_ROOT_NAME'] = PARTITION'] ELSE mapper
        /\ visit' = Answered(entry, asked, TRUE, ~(formats /\ works))

\* "Automatic LUKS Encryption" and "Express LUKS".
luks_default(entry) ==
    /\ Visit /\ UNCHANGED <<RAID, ZFS, ZFS_ZPOOL_NAME, ZFS_ZPOOL_NAMES, raid, zfs>>
    /\ \/ Dialogue(FALSE) /\ UNCHANGED <<crypt, lvm>> /\ visit' = Answered(entry, Kept', FALSE, FALSE)
       \/ \E typed \in Typed : Stored(typed) /\ luks_encrypt(entry, typed)

\* if (!luks_setup() && !luks_key_define()) return; luks_show(): the flags are
\* asked for, and the partition formatted, only when the set-up was cancelled.
luks_key_define ==
    /\ Visit /\ UNCHANGED <<RAID, ZFS, ZFS_ZPOOL_NAME, ZFS_ZPOOL_NAMES, raid, zfs>>
    /\ \/ /\ Dialogue(TRUE) /\ UNCHANGED <<crypt, lvm>>
          /\ visit' = Answered("Define", Kept', TRUE, FALSE)
       \/ /\ Dialogue(FALSE)
          /\ \/ luks_encrypt("Define", Kept')
             \/ UNCHANGED <<crypt, lvm>> /\ visit' = Answered("Define", Kept', FALSE, FALSE)

------------------------------------------------------------------------------
(* RAID.                                                                    *)

\* ls sorts the names of the arrays as text (at most three digits).
LsKey(n) == CASE n < 10 -> 1000 * n + 1 [] n < 100 -> 100 * n + 2 [] OTHER -> 10 * n + 3
LsFirst(numbers) == CHOOSE a \in numbers : \A b \in numbers : LsKey(a) <= LsKey(b)

\* Extract number and increment: of the first array that ls lists.
raid_device == IF arrays = {} THEN 0 ELSE LsFirst(arrays) + 1

\* A line of mdadm --detail --scan: an array with a name is called /dev/md/<name>
\* there, any other /dev/md<n>, as mdadm --create was told.
ScanLine(a) == [number |-> a, by_name |-> a \in named]

\* mdadm --create refuses a name or a disk that is in use.  A success appends a
\* scan of every running array to mdadm.conf.
raid_create_array ==
    /\ Visit
    /\ \E chosen \in SUBSET Disks :
          /\ Cardinality(chosen) >= 2
          /\ \/ /\ raid_device \notin arrays
                /\ \A d \in chosen : member[d] = None
                /\ \A p \in Partitions : IsOpen(p) \/ HoldsVolumes(p) => DiskOf[p] \notin chosen
                /\ arrays' = arrays \cup {raid_device}
                /\ member' = [d \in Disks |-> IF d \in chosen THEN raid_device ELSE member[d]]
                /\ named' = named
                /\ mdadm_conf' = mdadm_conf (+) SetToBag({ScanLine(a) : a \in arrays'})
                /\ RAID' = 1
             \/ UNCHANGED <<raid, RAID>>
    /\ UNCHANGED <<PARTITION, LUKS_ROOT_NAME, PASSWD, ZFS, ZFS_ZPOOL_NAME, ZFS_ZPOOL_NAMES,
                   crypt, lvm, zfs, visit>>

\* The text "md<n>" occurs in "md<m>": the digits of n are the first of m's.
Matches(n, m) == m = n \/ (n # 0 /\ (m \div 10 = n \/ m \div 100 = n))

\* The text is in the line; names of arrays have no such text in them.
Deleted(n, line) == ~line.by_name /\ Matches(n, line.number)

\* Mutant: only one line of the array is deleted.
raid_remove_array_once ==
    /\ Visit
    /\ \E a \in arrays :
          /\ arrays' = arrays \ {a}
          /\ member' = [d \in Disks |-> IF member[d] = a THEN None ELSE member[d]]
          /\ named' = named \ {a}
          /\ mdadm_conf' = mdadm_conf (-) SetToBag({ScanLine(a)})
    /\ UNCHANGED <<disk_config, crypt, lvm, zfs, visit>>

\* mdadm --stop may fail; then sed -i '/md<n>/d' /etc/mdadm.conf.
raid_remove_array ==
    /\ Visit
    /\ \E a \in arrays :
          \/ /\ arrays' = arrays \ {a}
             /\ member' = [d \in Disks |-> IF member[d] = a THEN None ELSE member[d]]
             /\ named' = named \ {a}
             /\ mdadm_conf' = [line \in {l \in DOMAIN mdadm_conf : ~Deleted(a, l)} |-> mdadm_conf[line]]
          \/ UNCHANGED raid
    /\ UNCHANGED <<disk_config, crypt, lvm, zfs, visit>>

\* /proc/mdstat in a message box.
raid_list_arrays == Visit /\ UNCHANGED <<disk_config, crypt, raid, lvm, zfs, visit>>

raid_menu == raid_create_array \/ raid_list_arrays \/ raid_remove_array

------------------------------------------------------------------------------
(* LVM.                                                                     *)

\* What vgs lists: the group of a disk in an array is not seen.
ListedGroups == {g \in groups : g.pv \in Offered}

\* With nothing listed there is nothing to do; otherwise vgchange -ay, which may
\* fail, and whose failure is only logged.  The groups active afterwards.
lvm_detect == {active, active \cup ListedGroups}

\* With a message that there are volumes, for two seconds.
tui_lvm_detect == active' \in lvm_detect

\* The list shows the size of each group, and that is what is handed on.
lvm_show_vg == {g.size : g \in ListedGroups}

\* vgremove -f of the chosen entry, whose result is ignored.  The groups then.
lvm_del_vg ==
    UNION {{groups, {g \in groups : g.name # sel_vg}} : sel_vg \in lvm_show_vg}

\* The entries to create a group and to delete everything do nothing.
lvm_menu ==
    /\ Visit
    /\ groups' \in {groups} \cup lvm_del_vg
    /\ \E on \in lvm_detect : active' = on \cap groups'
    /\ UNCHANGED <<disk_config, crypt, raid, zfs, visit>>

\* lvremove, vgremove and pvremove of all there is: each goes on after one that it
\* cannot remove, and no result is looked at.
utils_lvm_del_all ==
    /\ \E kept \in SUBSET ListedGroups : groups' = (groups \ ListedGroups) \cup kept
    /\ active' \in SUBSET (active \cap groups')

\* "Are you sure?": each Yes calls this function again and not that of utils, so it
\* asks until the answer is No and removes nothing.
tui_lvm_del_all == UNCHANGED lvm

lvm_uncalled ==
    /\ Uncalled /\ Visit
    /\ utils_lvm_del_all \/ tui_lvm_del_all
    /\ UNCHANGED <<disk_config, crypt, raid, zfs, visit>>

------------------------------------------------------------------------------
(* ZFS.                                                                     *)

\* The option string of disk.cpp does not end in a space.
OptionsEndInSpace == FALSE

\* "zpool create {options}" "'{pool}' '{device}'": without a space in between
\* the pool's name becomes part of the last option and the device the pool.
zpool_create_words(pool, device) ==
    IF OptionsEndInSpace THEN <<pool, device>> ELSE <<device>>
zpool_create_works(pool, device) ==
    /\ Len(zpool_create_words(pool, device)) = 2
    /\ pool \notin pools /\ device \in Offered /\ ~IsOpen(device) /\ ~HoldsVolumes(device)

\* The pool is exported and imported below MOUNTPOINT, and its name recorded.
utils_zfs_create_zpool ==
    \E works \in {zpool_create_works(ZFS_ZPOOL_NAME', PARTITION'), FALSE} :
        /\ pools' = IF works THEN pools \cup {ZFS_ZPOOL_NAME'} ELSE pools
        /\ ZFS' = IF works THEN 1 ELSE ZFS
        /\ ZFS_ZPOOL_NAMES' = IF works THEN Append(ZFS_ZPOOL_NAMES, ZFS_ZPOOL_NAME')
                              ELSE ZFS_ZPOOL_NAMES

zfs_create_zpool ==
    /\ tui_lvm_detect
    /\ \/ /\ PARTITION' \in {PARTITION} \cup Offered
          /\ UNCHANGED <<ZFS, ZFS_ZPOOL_NAME, ZFS_ZPOOL_NAMES, pools>>
       \/ PARTITION' \in Offered /\ ZFS_ZPOOL_NAME' \in Names /\ utils_zfs_create_zpool
    /\ UNCHANGED <<LUKS_ROOT_NAME, PASSWD, RAID, crypt, raid, groups, datasets, visit>>

\* Cancel leaves the first entry selected, so it creates a pool as well: only
\* "exit" does nothing.
zfs_menu ==
    /\ Visit
    /\ zfs_create_zpool \/ UNCHANGED <<disk_config, crypt, raid, lvm, zfs, visit>>

------------------------------------------------------------------------------
(* ZFS dialogues that no menu opens.                                        *)

ZfsDataset(path, mountpoint) == [zpath |-> path, mountpoint |-> mountpoint]
ZfsSetupConfig(zpool_name, zdatasets) == [zpool_name |-> zpool_name, datasets |-> zdatasets]

default_zfs_datasets ==
    <<ZfsDataset(<<"ROOT">>, "none"), ZfsDataset(<<"ROOT", "cos">>, "none"),
      ZfsDataset(<<"ROOT", "cos", "root">>, "/"), ZfsDataset(<<"ROOT", "cos", "home">>, "/home"),
      ZfsDataset(<<"ROOT", "cos", "varcache">>, "/var/cache"),
      ZfsDataset(<<"ROOT", "cos", "varlog">>, "/var/log")>>

\* zfs create does not make the parents of the path.
CanCreate(zpath) ==
    /\ zpath \notin datasets /\ zpath[1] \in pools
    /\ Len(zpath) > 2 => Front(zpath) \in datasets

\* What there may be after each of the commands.
zfs_create_dataset(zpath) == {datasets} \cup {datasets \cup {z} : z \in {x \in {zpath} : CanCreate(x)}}
zfs_create_zvol(zpath) == zfs_create_dataset(zpath)
zfs_destroy(zdataset) == {datasets, {d \in datasets : ~IsPrefix(zdataset, d)}}

\* zfs list names the pools too, grep "/" leaves what is below one.
zfs_list_datasets == {d \in {<<pool>> : pool \in pools} \cup datasets : Len(d) > 1}

\* The first n of the datasets, the others were not reached.
zfs_create_datasets(zpool_name, zdatasets, n) ==
    {<<zpool_name>> \o zdatasets[i].zpath : i \in 1..n}

\* zpool set, of which only the result is kept here.
zpool_set_property == BOOLEAN

\* The pool, its datasets, bootfs when one of them is the root, the export: the
\* first that fails ends it, and what was made remains.
zfs_create_with_config(device, zfs_config, ok) ==
    \E created \in {zpool_create_works(zfs_config.zpool_name, device), FALSE},
       n \in 0..Len(zfs_config.datasets), bootfs \in zpool_set_property, exports \in BOOLEAN :
        /\ pools' = IF created THEN pools \cup {zfs_config.zpool_name} ELSE pools
        /\ datasets' = datasets \cup
              (IF created THEN zfs_create_datasets(zfs_config.zpool_name, zfs_config.datasets, n)
               ELSE {})
        /\ ok = /\ created /\ n = Len(zfs_config.datasets) /\ exports
                /\ bootfs \/ \A i \in 1..n : zfs_config.datasets[i].mountpoint # "/"

\* Only when all of it worked the Config entries.
zfs_auto_pres(partition, zfs_zpool_name) ==
    \E ok \in BOOLEAN :
        /\ zfs_create_with_config(partition, ZfsSetupConfig(zfs_zpool_name, default_zfs_datasets), ok)
        /\ ZFS' = IF ok THEN 1 ELSE ZFS
        /\ ZFS_ZPOOL_NAMES' = IF ok THEN Append(ZFS_ZPOOL_NAMES, zfs_zpool_name)
                              ELSE ZFS_ZPOOL_NAMES

\* Nothing is asked: the partition and the name are those of an earlier dialogue.
zfs_auto == zfs_auto_pres(PARTITION, ZFS_ZPOOL_NAME)

\* The list is of datasets, so zpool import is handed a name that is none of a
\* pool's and does nothing; its result is ignored.
zfs_import_pool ==
    /\ zfs_list_datasets # {} /\ ZFS' = 1
    /\ UNCHANGED <<ZFS_ZPOOL_NAMES, zfs>>

\* A pool and a valid path; anything but "legacy" and "zvol" is not implemented.
zfs_new_ds(zmount) ==
    /\ \E pool \in pools, path \in DatasetPaths :
          datasets' \in CASE zmount = "legacy" -> zfs_create_dataset(<<pool>> \o path)
                          [] zmount = "zvol" -> zfs_create_zvol(<<pool>> \o path)
                          [] OTHER -> {datasets}
    /\ UNCHANGED <<ZFS, ZFS_ZPOOL_NAMES, pools>>

\* Properties of datasets are not kept here.
zfs_set_property == zfs_list_datasets # {} /\ UNCHANGED <<ZFS, ZFS_ZPOOL_NAMES, zfs>>

\* Asked twice, then zfs destroy -r: the dataset and what is below it.
zfs_destroy_dataset ==
    /\ \E zdataset \in zfs_list_datasets : datasets' \in zfs_destroy(zdataset)
    /\ UNCHANGED <<ZFS, ZFS_ZPOOL_NAMES, pools>>

zfs_uncalled ==
    /\ Uncalled /\ Visit
    /\ \/ zfs_auto \/ zfs_import_pool \/ zfs_set_property \/ zfs_destroy_dataset
       \/ \E zmount \in {"", "legacy", "zvol"} : zfs_new_ds(zmount)
    /\ UNCHANGED <<PARTITION, LUKS_ROOT_NAME, PASSWD, RAID, ZFS_ZPOOL_NAME, crypt, raid, lvm, visit>>

------------------------------------------------------------------------------
DiskNext ==
    \/ luks_open \/ luks_default("Automatic") \/ luks_default("Express") \/ luks_key_define
    \/ raid_menu \/ lvm_menu \/ lvm_uncalled \/ zfs_menu \/ zfs_uncalled

DiskSpec == DiskInit /\ [][DiskNext]_disk_vars

------------------------------------------------------------------------------
(* What should hold.                                                        *)

\* When "Automatic" or "Express" LUKS says "Done!" and no command had failed,
\* the partition chosen in that dialogue has a header with the password typed
\* there and is open under the name typed there, whatever the other menus and
\* cancelled dialogues had left in Config before.
EncryptedAsAsked ==
    (visit.entry \in {"Automatic", "Express"} /\ visit.done /\ ~visit.failed) =>
        /\ luks[visit.part] = visit.pass
        /\ mapper[visit.name] = visit.part

\* What /etc/mdadm.conf calls /dev/md<n> is a running array that has no other
\* name, although every creation lists all the running ones again and a removal
\* searches for a text.  (The line of an array with a name stays behind.)
ConfNamesRunning ==
    \A line \in BagToSet(mdadm_conf) : ~line.by_name => line.number \in arrays \ named

\* A partition that becomes part of an array was not open, and an open one never
\* becomes part of one: what LUKS maps stays on the disk it was opened on.
OpenStaysOffered == \A p \in Partitions : IsOpen(p) => p \in Offered
==============================================================================
