# TLA+ models of the CachyOS CLI installer

This directory holds a specification of the installer's own logic: the C++ in
`src/` (the TUI installer) and in `gucc/` (the library it calls). Paths below are
relative to the repository. `PROJECT.json` maps every definition to the lines it
models. The build modelled is the production one (`NDEVENV` defined).

## The system

| Part | State | Operations | Hard behaviour |
|---|---|---|---|
| Command widget (`follow_process_log.cpp`, `utils::exec_follow`, `subprocess.h`) | two atomics, a `subprocess_s` shared by two threads, a 1 MiB log buffer, the child process and its pipe | run a shell command, show its output, "Back" | three threads without a lock, a kill that races `waitpid`, a FILE closed while it is read, a pipe nobody drains |
| Widgets (`widgets.cpp`) | the open dialogues, what is selected in each | answer, cancel | keys that reach a dialogue after its "OK", a dialogue opened from the callback of another |
| Mount Partitions dialogue (`tui::mount_partitions` and its helpers, `misc.cpp`, `disk.cpp`, `gucc/umount_partitions.cpp`, `mtab.cpp`) | Config entries `PARTITIONS`, `NUMBER_PARTITIONS`, `ROOT_PART`, `SWAP_DEVICE`, `LUKS_NAME`, `LVM_SEP_BOOT`, `fs_opts`; the mount table and the active swaps | choose, format and mount root, swap, others and ESP; unmount | stale lists and flags over repeated passes, commands that fail half way, mounts below mounts |
| LUKS, RAID, LVM and ZFS menus (`crypto.cpp`, `tui.cpp`, `utils.cpp`, `gucc/luks.cpp`, `zfs.cpp`) | `PARTITION`, `LUKS_ROOT_NAME`, `PASSWD`, `RAID`, `ZFS`; headers, mappings, arrays, `/etc/mdadm.conf`, volume groups, pools | encrypt, open, create, remove | answers of cancelled dialogues stay in Config, one command of several fails, names from a listing, lines deleted by pattern |
| Package repositories (`gucc/repos.cpp`, `pacmanconf_repo.cpp`, `cpu.cpp`) | `/etc/pacman.conf`, its working copy and its backup | add the repositories for this CPU | stop and restart between renames, left-over files, ignored write errors |
| Base installation (`tui::install_base`, `utils::install_base`, `gucc/initcpio.cpp`) | `/mnt/.base_installed`, `mkinitcpio.conf`, the initramfs, flags `LVM`, `LUKS`, `RAID` | pacstrap, edit hooks, `mkinitcpio -P` | repeated installations over what an earlier one left, ignored results, order of hooks |
| Package lists (`gucc/package_list.cpp`, `package_profiles.cpp`, `fetch_file.cpp`, `drivers.cpp`) | the net profiles fetched, what is installed and enabled | compute a list, install it, enable services | two addresses that fail, installations that fail and are repeated |
| Boot loaders (`utils.cpp`, `gucc/bootloader.cpp`, `kernel_params.cpp`, `luks.cpp`) | `LUKS`, `LVM`, `LVM_SEP_BOOT`, `LUKS_DEV`; grub's files, the ESP, the key file | identify the root's container, install one of four loaders, edit and regenerate | flags over repeated passes, steps of which one fails |
| Partition schema (`gucc/partitioning.cpp`, `btrfs.cpp`, `fstab.cpp`, `crypttab.cpp`) | a vector of `gucc::fs::Partition` | compute the sfdisk script, fstab, crypttab and the kernel parameters; enter subvolumes | one schema read in several places that must agree |
| System settings and accounts (`tui.cpp`, `utils.cpp`, `gucc/locale.cpp`, `user.cpp`, `autologin.cpp`, `hwclock.cpp`) | files of the target | host name, locale, keyboard, time, users, automatic login | steps of which one fails, a second try over what the first left |
| Menus and start-up (`main.cpp`, `tui::init`, the menus, `utils::handle_connection`, `final_check`) | which menu is open; whether a target is mounted and a base installed | wait for the network, dispatch, check before each entry | checks whose failure does not stop the entry, a bounded wait, leaving with things mounted |
| Simple and headless installation (`simple_tui.cpp`, `utils::parse_config`) | the user's selections | gather, then apply in a fixed order | selections used before they are made, steps whose failure is ignored |
| Block devices and text (`gucc/block_devices.cpp`, `string_utils.cpp`) | none | parse, search, split, join | boundary cases of pure functions |

The parts share one mutable object, `Config::instance()`, a map of variants that
the dialogues write and later dialogues read, and the target below `/mnt`. They
interact by calls on the UI thread; the only concurrency is the command widget's,
through which nearly every external command is run, and the queue of keys of a
dialogue. Nothing reads the result of a command run in the widget.

What makes the parts correct:

* the widget starts its command once, shows all of its output, never writes
  beyond the buffer, and leaves nothing behind when it returns;
* what is installed and mounted is what was checked in the dialogue;
* the lists, counts and flags the dialogues keep agree with the disks;
* `/etc/pacman.conf` never loses what it had, through any stop and restart;
* the initramfs can reach the root file system, and the boot loader can unlock it;
* no menu entry works on a target that is not mounted, or not installed;
* what is written to fstab, crypttab and the kernel command line describes the
  same disks;
* a setting or an account is complete, or the call that made it has failed.

## Modules

| Module | Models | State and actions |
|---|---|---|
| `CommandOnce` | what callers of the widget rely on | the command is idle, active or over; the call has returned or not |
| `FollowProcess` | one call of `follow_process_log_widget` | a program counter for each thread and one action for each access to shared state; a struct copy is two actions in either order |
| `Dialogues` | the seven dialogues of `widgets.cpp` and the functions of `tui.cpp` that ask for kernels, file systems, mount options and names | a stack of screens; one action for each key, one for the end of a loop with what its caller does then |
| `MountTable` | `/proc/self/mounts` below `/mnt`, `gucc::mtab`, `gucc::umount::umount_partitions` | operators only; a path is a sequence of component ranks, a line a sequence of fields |
| `MountPartitions` | the dialogues "Mount Partitions" and "Partition Disk" | one action for each dialogue, the user's answers and the results of commands chosen by `\E` |
| `DiskMenus` | the LUKS, RAID, LVM and ZFS menus | the Config entries they share, headers, mappings, arrays, groups, pools; one action for each menu entry |
| `BlockDevices` | `gucc::disk` over the JSON of lsblk | operators only |
| `GrowingConf` | what a user of the live system relies on in `/etc/pacman.conf` | the list of repositories in effect; one action, which puts a supported one in front |
| `PacmanRepos` | `install_cachyos_repos` over any number of starts, and the CPU's levels | one action for each file operation; each may fail, and `stopped` may follow any of them |
| `Text` | `gucc::utils` of `string_utils` | operators; a text is a sequence of words and delimiters |
| `Initcpio` | `gucc::detail::Initcpio` | operators on the lines of a `mkinitcpio.conf` |
| `InstallBase` | `tui::install_base`, `utils::install_base` | one action for each step between two external effects; `prepare_disks` stands for the disk menus between two installations |
| `Packages` | the package lists, `install_desktop`, `enable_services`, the drivers | what is installed, what was fetched; one action for each menu entry |
| `Bootloader` | from mounting to a boot loader | where a pass over the partitions is, the Config entries it leaves, grub's files, the ESP, the key file; one action for each mount, each loader and `edit_grub` |
| `SystemSetup` | "Configure base", the settings of the simple mode, automatic login | the files and accounts of the target and which of the last calls failed; one action for each function that asks |
| `PartitionSchema` | the vector of `gucc::fs::Partition`, the subvolumes of the root, and all that `gucc` computes from the vector | the vector, what of the root device is visible at each mountpoint, and where the list is; one action each for a partition, the root, subvolumes created and subvolumes found; sfdisk script, fstab, crypttab and kernel parameters are operators |
| `Installer` | a whole run: `main`, `handle_connection`, `parse_config`, the menus, the simple and headless mode, `final_check`, `exit_done` | the place of the UI thread; whether `/mnt` is a mount point; facts about the target's root file system and about the live system's own `/mnt`; one action for each menu entry and each step of `apply_user_selections` |
| `ListLemmas` | - | lemmas on lists, loops over them and induction on their length, for the three modules of proofs that need them |
| `...Proofs` | - | the theorems about the module of the same name; `DiskProofs` is about `MountPartitions` (with `MountTable`) and `DiskMenus`, `TargetProofs` about `SystemSetup`, `Packages` and `PacmanRepos`, `InstallBaseProofs` about `InstallBase`, `Initcpio`, `Text` and `Dialogues` |

`MountPartitions` uses `MountTable`; `InstallBase` uses `Initcpio`, and that and
`Dialogues` use `Text`; `FollowProcess` implements `CommandOnce` and `PacmanRepos`
implements `GrowingConf`. Between the others the
interface is what one leaves in `Config` or below `/mnt` and another starts from. In
`Installer` an operation is the set of its results: `Pacstrap(T, new)`,
`tui_install_base(T)`, `install_bootloader(T)` and so on map what is below `/mnt` to
what may be there afterwards, and `Becomes` applies one of them to the target, or to
the live system when nothing is mounted. The facts are the ones the code's own checks
ask for. "Mount Partitions", the installation of the base, the boot loader and the
settings are single steps there, with the outcomes that the modules above have in
detail: `/mnt` itself need not be a mount point afterwards, and `.base_installed` is
written after a failed pacstrap.

The sort of `umount_partitions` may leave mounts at one path in either order, as
`std::ranges::sort` may; `umount` is given only the path, so that the outcome is the same.
In `PartitionSchema` sorting keeps the order of equal elements, as libstdc++ does for
up to sixteen of them (it sorts those by insertion). The user's list names every device
and every mountpoint once; nothing else is assumed of it. No dialogue sets a size: the
sizes are those of gucc's unit tests, as the sfdisk script is a function of gucc. A
container's name and UUID are one fact there, although the dialogues set them
separately. A subvolume that was found gets one of the mountpoints of the model; that the
user clears the field for it is left out.

Functions of the repository that nothing calls are modelled where they work on modelled
state: five ZFS dialogues and the removal of all volumes are actions of `DiskMenus` under
the constant `Uncalled`; `append_hook`, `remove_module`, the second `make_multiline` and
`BlockDevices` are operators that `ASSUME`s of `MCInstallBase` and `MCDiskMenus` check
over bounded inputs; `generate_fstab` and `generate_crypttab` are what `ContainersOpened`
is stated of.

A module `MC...` extends the module of its name for TLC. Definitions commented as
*Mutant* are plausible bugs; no specification uses them. Each is a replacement
for the definition that follows it which makes TLC refute a property, and so
shows that the property depends on that piece of code. Every module of a component
with state has a type invariant, and it is proved. It is called `TypeOK`, and the
specification `Spec`; `Packages`, `Dialogues`, `PacmanRepos`, `DiskMenus` and
`PartitionSchema`, of which each shares a module of theorems with another module or
with lemmas on lists, have their name in front (`ReposTypeOK`, `DiskSpec`,
`SchemaSpec` and so on).

Undefined behaviour is a choice: using or closing a FILE after `fclose` either
goes on or aborts the installer (`crashed`); a reference into a vector that has grown
(`package_list.cpp:36`) reads the old text or garbage. An exception that leaves a
`noexcept` function ends in the state `terminated`, or in no further step.

## Runs

| Run | Question | Bounds, and why they are enough |
|---|---|---|
| `follow` | Do the widget's guarantees hold in every interleaving of its threads, the command and "Back"? | `BufSize` 2, `PipeCap` 1, `MaxOut` 4: a command may print nothing, fit the buffer, fill it exactly, or fill buffer and pipe and block |
| `follow_terminate` | Does "Back" only kill its own, living child? No | as above with `MaxOut` 2 |
| `dialogues` | Is what a dialogue hands on what was checked in it, whatever keys still arrive, and does an answered one end? | ten keys and dialogues: a file system, its warning, options with an edit, a second "OK" and a confirmation, and the message in front of the kernels; two kernels, two lists of options |
| `mount` | Do lists, count and swap agree with the disks through repeated passes? | two passes, so that the second one meets all that the first left; three partitions, one name within another's, one opened container; three mounts: the root at `/mnt/mnt`, the others at `/mnt/boot`, `/mnt/boot/efi` and `/mnt/home`, so that they nest, in either order |
| `disks` | Does "Done!" mean what was asked, and does `mdadm.conf` follow the arrays? | four visits: one that leaves something in Config, a cancelled one, the one asked about, one more; three disks, two foreign arrays whose numbers are one the start of the other and of which one has a name, two names, two passwords, a volume group |
| `repos` | Does `pacman.conf` survive failures and stops, and is it for this CPU? | four starts: a failure, a stop, a retry and one more; a full CPU and every one that lacks one feature or register, three initial files; writes succeed |
| `base` | Are the hooks right after repeated installations, and does the initramfs have them? | three installations: a first, one with other disks, a third that meets what both left |
| `packages` | Does what belongs together get installed together? | three menu entries: two installations of which one fails and one that meets both; two kernels, a desktop of each kind, every answer of both addresses |
| `boot` | Can the system that was installed be unlocked and started? | two passes and two installations, and three partitions entered in all, so that `/boot` is entered twice after a root, in one pass or in two, and every mount may fail; a partition, a container, one on a volume and a volume on a container, so that root and `/boot` can be any pair; free and used key slots |
| `setup` | Are settings and accounts complete when no call failed? | four settings: two users, a failure and a retry; one locale that is the start of another's name; a display manager of each kind |
| `schema` | Do fstab, crypttab, the kernel parameters, the sfdisk script and the mounts agree, however the vector came about? | three devices in any order (a root, and two others that may come before or after it); six kinds of other partition, among them a `/home` that competes with the subvolume and two sizes whose order as strings is not their order; one or two subvolumes found, listed in either order, with equal or different mountpoints |
| `session` | Do the checks in front of the menu entries suffice, does the wait end, is the final check true? | no bound but the time-out of 3 (15 in the code): every mode, every subset of the settings, both firmwares, an empty or an installed disk, failing commands |

The largest, `boot`, has 2.1 million states, `mount` 1.5 million and takes about two
minutes; the others have between a few thousand and a million.

`CHECK_DEADLOCK FALSE` is set where the system may stop: `follow` because the
widget really can hang (below), the others because a bounded session ends.

### Fairness

`FollowProcess!FairSpec` assumes weak fairness of thread t, of `refresh_ui_ends`,
of the UI thread's own steps and of the command: the scheduler runs every thread
that can run, and the command makes progress when its pipe has room. Nobody has
to press "Back", so `press_back` is not fair. `Installer!FairSpec` assumes it of
`wait_connection` only, a loop on the program's own clock. `Dialogues!DialoguesSpec` assumes it
of `loop_ends`: the screen takes its events in order and so comes to the request to end;
no key is assumed to be pressed. No other module needs fairness.

The liveness properties of the widget say that, if the output fits the buffer, "Back"
returns at any moment (`BackReturns`) and the command ends by itself
(`CommandEnds`). The condition is needed: with the buffer full, `read` is asked
for 0 bytes, its 0 is taken for the end of the output, and `waitpid` then waits
for a command that waits for its pipe. If "Back" was pressed before the pid was
published, nothing kills the command and the join does not end.

### What the violation shows

`TerminatesItsOwn` - `handle_exit` reads `child.child` again in `kill`; thread t
may have waited for the process and published a pid of 0 by then, and `kill(0, 9)`
is the installer's own process group.

### Other differences between code and comments

What the models contain besides, with no run of its own. Each is how the code at that
line works; a property is stated so that it holds in spite of it.

*Command widget.* A read of 0 bytes does not mean that the process has ended
(`utils.cpp:197`, `subprocess.h:170`); the exit status is dropped (`utils.cpp:204`).

*Mounting.* Mount points are unmounted in alphabetical order, so a parent comes before
what is mounted below it, umount refuses and the loop returns; callers ignore the result
(`umount_partitions.cpp:24`; `tui.cpp:2101` says "Ensure partitions are unmounted").
`LUKS_NAME` (`tui.cpp:2237`) and `LVM_SEP_BOOT` (`tui.cpp:2256`) keep values of earlier
partitions and passes. Partitions in use are offered again: the lists of what to ignore
are computed and not used (`tui.cpp:2119`). The format command for a root partition
begins with the name of the file system and never works (`tui.cpp:1967`). Partitions are
removed from the list by substring (`misc.cpp:100`). The root partition of the advanced
mode goes to `/mnt/mnt`, because MOUNTPOINT is passed as the partition's path too
(`tui.cpp:1994`); all others go to `/mnt` and the mountpoint that was typed
(`tui.cpp:1047`). A mountpoint may be given again: what is mounted there is hidden, and
`findmnt` then prints two devices, of which the query makes none. Subvolumes are never offered in the advanced mode, because the type is
read from an entry that was moved from (`tui.cpp:2024`). In the simple mode partitions
are mounted in the order of the list, so that root hides a boot partition listed before
it (`simple_tui.cpp:196`).

*Disk menus.* "Define flags" formats only when the set-up was cancelled, and says "Done!"
in both cases (`crypto.cpp:241`; the text at 187 promises the format). A RAID device is
named after the first array that `ls` lists; the line of `md127` is deleted from
`mdadm.conf` together with that of `md1`, while that of an array with a name
(`/dev/md/<name>`, as `mdadm --detail --scan` prints it) is never deleted
(`tui.cpp:1448`; the comment at 1447 says "Remove from mdadm.conf"). Deleting volume groups passes their sizes to
`vgremove`. `zpool create` lacks a space, so no pool is ever created; Cancel in
`zfs_menu` runs the creation; importing lists datasets in place of pools and sets `ZFS`
whatever came of it. `tui::lvm_del_all` calls itself until the answer is No.

*Repositories.* The result of `push_repos_front` is ignored: after a write error an empty
file replaces `pacman.conf`, and the next start overwrites the backup (`repos.cpp:80`,
82; with `WritesFail = TRUE` TLC refutes `NothingLost`, `Priority`, `TrueMeansListed` and
`OnlyAdds`). `push_repos_front` inserts at
`pos - 1` of the first match of the core section (`pacmanconf_repo.cpp:37`).

*Base.* `.base_installed` is written after a failed pacstrap (`utils.cpp:716`), hooks are
appended before pacstrap has written the file (`utils.cpp:708`), and `mkinitcpio -P` runs
only for LVM, LUKS, Btrfs or ZFS, so that the image of a plain RAID root is not made
again (`utils.cpp:806`; the comment at 792 says "Ensure mdadm.conf is included in the
initramfs if RAID is used"). The third case of
`recheck_luks` repeats the first: an encrypted root beside a plain `/boot` is not noticed,
nor is a root on a logical volume in a container, whose own line of `lsblk` has the TYPE
`lvm` (`utils.cpp:1361`, 1365; the comment at 1364 says "Check if root is on encrypted lvm
volume"). `HooksForDisks` says what is noticed.

*Packages.* A reference into a vector that grows is used after it has grown
(`package_list.cpp:35`); services are enabled and `.video_installed` is written after a
failed installation; `fstrim.timer` is never enabled (`utils.cpp:1775`); a malformed
answer of the first address is not asked of the second.

*Boot loaders.* On BIOS `grub_installer.sh` is not executable, so grub is only set up if
its package was there already (`utils.cpp:1207`). The default copy of the loader throws,
or copies an older loader, with `--removable` or another boot id (`utils.cpp:988`); "set
as default" is shown after a failure. rEFInd is reported as failed in the log and as a
success in the dialogue. "cryptdevice=" is doubled. `dd` gets all of its options as one
word, so the key of `luks1_setup_keyfile` is never written (`utils.cpp:1224`). A root on a
volume inside a container gets no cryptdevice (`utils.cpp:1289`; the comment at 1133 says
"if root is encrypted, amend /etc/default/grub"). In the simple mode another encrypted
partition before root comes first in `LUKS_DEV`; the advanced mode is what
`CryptRootUnlocked` is stated for. Plain LVM does not set `LVM`. `LVM_SEP_BOOT` tells of the partition entered last for
`/boot`, also when its mount failed and a logical volume is still there
(`tui.cpp:2256`; the comment at 2251 says "Determine if a separate /boot is used"): grub
then does not preload `lvm`. `LvmBootPreloaded` is stated for a `/boot` that is what was
entered last, which the model keeps in the history variable `boot_part`. limine's copy throws when
the wallpapers are not there.

*Partition schema.* An encrypted `/boot` is looked for under the name `/bool`
(`crypttab.cpp:72`); a subvolume for `/home` is entered into another device's `/home`
(`btrfs.cpp:34`), and a `/home` listed later makes a second entry; the entries are made
when creating or mounting the subvolumes failed, too (`disk.cpp:131`); subvolumes found
are mounted in the order listed, so that one for `/` hides those before it
(`btrfs.cpp:85`); a root on ZFS gets `root=ZFS=` and `root=UUID=` (`kernel_params.cpp:85`).

*Settings and accounts.* `tui::set_root_password` calls itself when the entries differ and
does not return, so the rejected entry is set last (`tui.cpp:319`; the message at 317 says
"Please try again"). The simple mode sets locale, root password and user before
`install_base`, in a chroot of the freshly formatted root; all of it fails and is only
logged (`simple_tui.cpp:539`, `utils.cpp:1689`). A second try for a user whose creation
stopped half way fails at `useradd`, so the account stays as it was. A shell may be set
whose package was not installed. Automatic login for lightdm always fails
("--systemautologin"), and names the user "*" where there is no home; for sddm and gdm a
second call appends its name to the first. Yes and no for the keymap are inverted
(`tui.cpp:214`). Cancelling the time zone closes the menu and skips the clock. The
expression that uncomments a locale also uncomments those whose names it begins. A failed
`genfstab` truncates fstab.

*Session.* The disk is partitioned before the boot loader is known (`simple_tui.cpp:414`,
the comment at 433 says the opposite), which on UEFI does nothing. A menu entry that finds
nothing mounted in `menu_advanced` closes the whole installer (`tui.cpp:2578`).
`final_check` takes the existence of `/mnt/home` for a user account (`utils.cpp:1857`). OK
on an empty list of configuration files indexes an empty vector (`misc.cpp:213`).
`FSCK_HOOK` is set and never read (`misc.cpp:110`); `hostcache` = 1 runs pacstrap without
`-c` (`misc.cpp:114`, `utils.cpp:664`).

*Dialogues.* `select_mount_opts` reads the options of the file system selected before,
not of the one mounted (`tui.cpp:940`); a label says "compress=zlip" (`tui.cpp:962`); the
input box edits its caller's string, so Cancel keeps what was typed; menus over empty
lists index an empty vector; OK with no kernel checked but one installed only reports
(`tui.cpp:602`); Cancel on the file systems of the simple mode takes btrfs.

## Theorems

All are checked by TLAPS, for every value of the constants that satisfies the `ASSUME`
of the module. In each list the theorem is followed by what it proves invariant.

`FollowProcessProofs`, from `ConstantsAssumption` (buffer and pipe hold at least
one chunk):

* `TypeCorrect`, `BufferSafe`, `ReturnsClean`: `TypeOK`, `BufferBound`, `NothingLeft`.
* `Implementation`: `Spec` implements `CommandOnce!Spec`.
* `LogWhole`: `LogComplete`.

`NothingLeft` is not inductive: that the UI thread has returned says nothing about
the command unless one knows where thread t was. The inductive invariant `IInv` adds
`CommandInv` (the state of the command at each place of t), `LoopInv` (after the
command has been started, `running` is false whenever t is back at its loop, so it
never starts again), `JoinInv` (what the UI thread's position after each join says
about the other two threads) and `FileInv` (which FILEs can be open at each place
of t). The refinement uses the same invariant: a start needs t before its only
`create`, a return needs t at its end. `LogComplete` needs `OutputInv` besides: while
nobody has pressed "Back", t goes on to `join` only from a read of 0 bytes, that is with
the buffer full or with a command that has ended and an empty pipe (`Drained`); a command
is not killed, so that it ends only when it has printed everything.

`DiskProofs` on mounting, from `PartsAssumption`:

* `CountCorrect`: `CountCoversList`, for any partitions and any overlap of names.
  `CountInv` adds that the list stays a subset of the finite set of partitions; a
  lemma says that erasing every line that contains the name of an offered partition
  erases at least one line.
* `SwapCorrect`: `SwapTracked`, if `swapoff` does not fail. `SwapInv` adds where in a
  pass a swap can be active at all.
* `SchemaCorrect`: `SwapEntryActive`, whether `swapoff` fails or not. `SchemaInv` adds that
  the schema is empty wherever `umount_partitions` can run, so that its `swapoff` leaves no
  entry without its swap.
* `TypeCorrect`: `TypeOK`, one lemma each for the mount table, the schema and the rest.
* `UmountCorrect`: `UmountHonest`, for a mount table of any length and any paths.

`UmountHonest` is about a loop, so its proof is an induction over the entries, by the least
number that is a counterexample (`Induction` of `ListLemmas`; the library's theorems with a set instead of
an operator are enough for that). The invariant of the loop is `Pairs`: as long as no umount
was refused, the entries still to come and the mounts still there are paired one to one, path
by path (`UmountPairs`: whichever of several mounts at one path umount takes, the rest can
be paired again). At the end no entry is left, so no mount is; and once one is refused
there is a mount below it, and nothing changes any more. The pairing starts from the sort being a
permutation: `SortExists` says that paths can be put into order, so that the `CHOOSE` of
`Sort` is one, and `ParseLists` that `/etc/mtab` is read entry by entry.

`InstallerProofs`, from `TimeoutAssumption` and `FailAssumption`:

* `TypeCorrect`: `TypeOK`.
* `BootloaderSafe`: `BootloaderOnBase`, in every mode and for failing commands too.
* `LiveSafe`: `LiveUntouched`. It needs the invariant `CoreMounted`: the menus that
  install are only open with a target mounted, because `menu_advanced` checks it and no
  entry of theirs unmounts.
* `BaseFlagSafe`: `BaseFlagMeansFiles`, which is inductive. `SoundOperations` says of each
  operation that none of its results has the flag without the directories if what it
  started from had not; a reinstallation removes the flag first, and partitioning leaves
  the file system as it was or nothing (`PartitioningLeaves`).
* `ChecklistCorrect`: the action property `ChecklistHonest`. Only `final_check` can leave an
  empty list behind.

The steps are of three kinds (`StepKinds`): those of `install_bootloader`, those that
install or configure something else, and quiet ones. A lemma for each operation says
which facts it can add; `WorkEffect`, `BootloaderEffect` and `QuietEffect` lift them to
the steps for `BootloaderSafe` and `LiveSafe`, and `WorkSound`, `BootloaderSound` and
`QuietLeaves` for `BaseFlagSafe`.

`BootloaderProofs`, from `DevicesAssumption`:

* `BootloaderTypes`, `RootUnlocked`, `LvmPreloaded`, `SlotsLeft`, `KeyFilesUsable`,
  `GrubFilesAgree`: `TypeOK`, `CryptRootUnlocked`, `LvmBootPreloaded`, `KeySlotsLeft`,
  `KeyFileUsable`, `GrubAgrees`.
* `DefaultLoaderKept`: the action property `DefaultKept`.

What is in grub's files was computed from flags that were set while mounting, so the
inductive invariant `BootInv` relates each flag to the mounts it stands for: the first
word of `LUKS_DEV` is the root's once it is mounted (`RootFirst`), `LVM_SEP_BOOT` is
that of the partition entered last for `/boot` (`BootOnLvm`), a container has no more keys of the installer
than used slots (`KeyCount`), and `/etc/default/grub` has what is claimed of `grub.cfg`
(`GrubReady`), which is made from it.

`TargetProofs`, from `PackagesAssumption`: `PackagesTypes`, `KernelsWithKit`,
`DesktopsWithXorg`, `ManagersInstalled` (`TypeOK`, `KernelKit`, `XorgComplete`,
`DisplayManagerInstalled`, together the inductive `Kit`: an installation adds a whole
list or nothing, and nothing is removed), and `FallbackSuffices` (`FallbackUsed`).

`TargetProofs`, from `SystemSetupAssumption` and `NoneAssumption`:
`HostnameInHosts` (`HostsAgree`), `LocaleIsGenerated` (`LocaleGenerated`, with
`LocaleInv`), `UsersComplete` and `SudoForUser` (`UserStages`, `SudoHasUser`, with
`AccountInv`), `AccountsKept` (the action property `AccountKept`) and `OneAutologin`
(`AutologinOneUser`). The last needs `LoginInv`: a name is entered only while it is the
only home, and homes are not removed, so a later call finds the same one or, with two
homes, none. `SettingsTypes` is for `TypeOK`: the calls that write a file (`FileSteps`) and those for an
account (`AccountSteps`), whose types are part of `AccountInv` and `LoginInv`.

`InstallBaseProofs`, from `CallsAssumption`: `TypeCorrect`, `HooksOrdered`, `HooksComplete` and
`ImageComplete` (`TypeOK`, `HookOrder`, `HooksForDisks`, `ImageReachesRoot`), for any number
of installations over each other. The proof has three layers:

* *Texts.* What is split at a delimiter gives back the words that were joined, when no word
  is the delimiter or empty (`split` after `join`), so that a `mkinitcpio.conf` that was
  written can be read. The loops of `Text` and `Initcpio` are functions of the number of
  passes, and each lemma on one is an induction by the least counterexample.
* *Lines.* `FileOf` is the shape of a file with three lists of words, and every operation of
  `Initcpio` maps such a file to one: appending leaves out what is listed (`Missing`),
  inserting puts a word before another, removing keeps the order of the rest.
* *Hooks.* `GoodHooks`: no hook twice, the fixed ones listed, and the pairs that must
  be in an order are in it. It is kept by each insertion because every hook that is inserted
  goes before one of the fixed hooks that must come behind it.

`IInv` adds to `GoodHooks` what each step has put in and that it stays until the
installation is finished. `fsck` is the exception: `append_hooks` may put it back
over an earlier installation, and `fs_hooks` takes it off again (`FsckInv`).

`InstallBaseProofs`, from `DialoguesAssumption` (no kernel and no mount option of the code's
lists is a blank or a comma): `KernelsChecked` and `OptionsChecked` (the action
properties `KernelsAsChecked` and `MountOptsAsChecked`) and `DialoguesTypes`
(`DialoguesTypeOK`). `DialoguesInv` says which screens each function can have open, that
the text its callback fills is the join of what was checked at the last "OK", with commas
once the confirmation is open, and that `fs_opts` are the options of an entry of the menu. Keys
that still arrive after the "OK" change boxes, but not the text without another "OK".

`DiskProofs` on the disk menus, from `DiskAssumption`: `EncryptionDone` (the invariant
`EncryptedAsAsked`), `OpenDisksStay` (`OpenStaysOffered`) and `ConfCorrect`
(`ConfNamesRunning`). `OpenInv` is the types of headers and mappings and that no disk of an
open container is in an array. `mdadm.conf` is a bag of lines, because each creation adds
one for every running array: removing one takes every line that its number matches, so that
none of its own is left however many there are. The lines of arrays with a name are the
exception, and the number of a new array is none of theirs, because they are running
(`ConfInv` of the proof). `DisksTyped` (`DiskTypeOK`,
one lemma per menu) rests on two facts about the code: `ls` lists some array first whenever
there is one (`FirstListed`), so that a new array gets a number, and a partition whose
volumes are active is not formatted, so that the active volume groups are ones that exist.

`TargetProofs` on the repositories, from `ReposAssumption`, for every CPU and any number of starts:

* `ReposTypes`: `ReposTypeOK`, even when writes fail.
* `RepositoriesKept`, `PriorityCorrect`, `TrueIsHonest`, if writes do not fail:
  `NothingLost`, `Priority`, `TrueMeansListed`.
* `OnlyAddsCorrect`, if writes do not fail: the action property `OnlyAdds`, for every
  answer of cpuid. `SupportedRuns` says that what is built for a level `get_isa_levels`
  reports runs on the CPU.
* `ConfGrows`, if writes do not fail: `ReposSpec` implements `GrowingConf!Spec`
  (`ImplementsGrowingConf`). The five file operations for a repository are one addition, at
  the second rename, or nothing.

None of the four properties is inductive, as the working copy, the backup and the list of
what is left to do decide what the next rename makes of `pacman.conf`. `ReposInv` has three
parts. `FilesInv`: what is in effect (`pacman.conf`, or the backup while there is none) is a
good configuration (`Conf`: ordered, the distribution's repositories listed, no repository
for a level without the generic one), and the working copy is that one with the
repository in front from the moment `push_repos_front` has run. `TodoInv`: what is left
ends what was selected, and what is being added is supported. `DoneInv`: a supported
repository that is not left to do is listed, which makes "true" honest, and also makes sure
that "cachyos" is there before a repository for a level goes in front of it (`HeadFits`,
`PushConf`). TLC confirms `ReposInv` and `ImplementsGrowingConf` with the constants of `repos`.
That writes succeed is needed: see *Repositories* above.

`PartitionSchemaProofs`, from `DevicesAssumption`, `KindsAssumption` and
`ListsAssumption` (up to five devices, which is as many as there are mountpoints in the
model; only the root is at `/`; btrfs lists a subvolume once), for any partitions in any
order and any lists of subvolumes:

* `SchemaTypes`, `RootNamedOnce`, `CrypttabOpens`, `KeyFileThere`, `ScriptOrdered`,
  `SubvolumesEntered`: `SchemaTypeOK`, `RootAgrees`, `ContainersOpened`,
  `KeyFileReachable`, `SfdiskLines`, `MountedAsEntered`.

What is computed from the vector goes through four loops, and there is a lemma for each:
`sort` gives the same entries in order and leaves equal ones as they were (`Sorted`,
`SortStable`); `unique_copy` keeps the first entry of each run of a device, hence each
device once if they are sorted (`UniqueCopied`); what is passed over is gone and the rest
in order (`Filtered`); entering subvolumes changes the first entry found or adds one
(`AppendLoop`, `EnterOne`). `ScriptOrdered` is not a matter of the script alone:
unless the entries of a device agree on their size, sorting by size would part them, and
`unique_copy` would keep two. `KeyFileThere` is one of the order in front of the
duplicates: a device's first entry after both sorts must be the one for `/` if it has one.
So the inductive invariant `SchemaInv` says of the vector what the code never checks:

* `DeviceInv`: the entries of one device share its size and its container;
* `RootInv`: once there is a root it is one entry, without a size, and no entry of its
  device is without a mountpoint, which would sort before it;
* `InsertInv`: until then there is no root, nothing is mounted from it, and no mountpoint
  is listed twice;
* `EnterInv`: right after it no mountpoint is listed twice, no entry has a subvolume and
  none is mounted, so that a subvolume is entered into the entry of its mountpoint, if
  there is one, or else into a copy of the root;
* `MountedAsEntered` itself, since later partitions may be inserted behind the subvolumes.

The type invariants, `BufferBound`, `KeySlotsLeft`, `GrubAgrees`,
`XorgComplete`, `FallbackUsed`, `HostsAgree`, `UserStages`, `SudoHasUser`,
`OpenStaysOffered` and `ImplementsGrowingConf` are in no run's
configuration: the theorem covers every instance.

Only model-checked: all liveness (`BackReturns`, `CommandEnds`, `WaitEnds`,
`AnsweredEnds`; fairness is out of the prover's reach), the run `follow_terminate`, which
refutes what it checks, and the `ASSUME`s over bounded inputs on functions that nothing
calls. Every other property of a run is the statement of a theorem.

## Not modelled

* doctest, the vendored test framework below `subprojects/`: nearly half of the lines of the
  repository, and none of the installer.
* The Windows parts of `subprocess.h` and the functions of it that nothing calls.
* The layout of `widgets.cpp` (sizes, borders, colours) and `infobox_widget`, which draws
  one frame and reads nothing.
* Clearing the screen, logging, the summary the simple mode prints
  (`simple_tui.cpp:587`), the formatters for fmt, and headers that only declare.
* Code that cannot be reached: `simple_tui.cpp:306-378`, the manual subvolumes of
  `tui.cpp`, gucc's `exec` of a vector (`io_utils.cpp:26`). The results of `list_mounted`,
  `zfs_list_devs` and `list_containing_crypt` are not used.
* A ZFS root in "Mount Partitions": no pool can be created (above), so the dialogue has
  none to offer unless one was imported.
* limine's configuration text, beyond that it is written.
* Build files and data.

## Plan

Modelled first, because everything else goes through them: the command widget, then
what the user's disks depend on (mounting), then what must survive failures
(repositories, the base), then the session that ties the parts together, the vector of
partitions, and then the parts in which one step leaves flags for another: disk menus,
boot loaders, packages, settings and the dialogues. Left, in this order:

1. `DiskMenus` composed with `InstallBase`, in place of `prepare_disks`, so that the
   hooks are checked against the disks the menus really make.
2. An imported pool as the root in `MountPartitions`, and the order of the list of a
   headless installation with `MountTable` for what hides what.
