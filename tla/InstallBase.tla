----------------------------- MODULE InstallBase -----------------------------
(****************************************************************************)
(* tui::install_base() and utils::install_base(): pacstrap into MOUNTPOINT, *)
(* then the mkinitcpio hooks the chosen disks need, sometimes a new         *)
(* initramfs, fstab, the drivers and the services of ZFS.  The user may     *)
(* install again, on the same root file system or on a new one, after       *)
(* having changed LVM, LUKS or RAID.  pacstrap may fail or be left with     *)
(* "Back"; its result is ignored, like that of every command behind it.     *)
(****************************************************************************)
EXTENDS Initcpio

CONSTANT MaxCalls       \* bound: times the base is installed

ASSUME CallsAssumption == MaxCalls \in Nat

VARIABLES
    filesystem_type,    \* of MOUNTPOINT
    root, boot,         \* what MOUNTPOINT and /mnt/boot are mounted from, see Roots
    LVM, LUKS, RAID, ZFS,   \* Config entries
    at, calls,
    etc,                \* MOUNTPOINT/etc exists
    pacman,             \* pacman and a kernel are installed below MOUNTPOINT
    base_installed,     \* the file /mnt/.base_installed exists
    conf,               \* mkinitcpio.conf
    image,              \* the configuration the initramfs was built with
    mdadm_conf,         \* /mnt/etc/mdadm.conf is there
    services,           \* ZFS units that are enabled
    completed,          \* the last call ran to its end
    chroot_failed       \* and one of its commands in the chroot did not work

disks == <<filesystem_type, root, boot, LVM, LUKS, RAID, ZFS>>
target == <<etc, pacman, base_installed, conf, image, mdadm_conf, services>>
vars == <<disks, at, calls, target, completed, chroot_failed>>

Units == {"zfs.target", "zfs-import-cache", "zfs-mount", "zfs-import.target"}

\* An opened container has TYPE crypt, a logical volume has TYPE lvm also when its
\* group is in a container.  What /mnt/boot is other than a container does not matter.
Roots == {"plain", "crypt", "lvm_on_luks"}
Boots == {"none", "plain", "crypt"}

TypeOK ==
    /\ filesystem_type \in {"ext4", "btrfs", "zfs"}
    /\ LVM \in {0, 1} /\ LUKS \in {0, 1} /\ RAID \in {0, 1} /\ ZFS \in {0, 1}
    /\ root \in Roots /\ boot \in Boots
    /\ at \in {"menu", "append_hooks", "pacstrap", "copy_file", "fs_hooks", "recheck_luks",
               "raid_hooks", "lvm_luks_hooks", "mkinitcpio", "drivers", "terminated"}
    /\ calls \in 0..MaxCalls
    /\ \A flag \in {etc, pacman, base_installed, mdadm_conf, completed, chroot_failed} :
          flag \in BOOLEAN
    /\ services \subseteq Units
    /\ pacman => conf # NoConf

FreshTarget ==
    /\ etc' = FALSE /\ pacman' = FALSE /\ base_installed' = FALSE
    /\ conf' = NoConf /\ image' = NoConf /\ mdadm_conf' = FALSE /\ services' = {}

Init ==
    /\ filesystem_type = "ext4" /\ root = "plain" /\ boot = "none"
    /\ LVM = 0 /\ LUKS = 0 /\ RAID = 0 /\ ZFS = 0
    /\ at = "menu" /\ calls = 0
    /\ etc = FALSE /\ pacman = FALSE /\ base_installed = FALSE
    /\ conf = NoConf /\ image = NoConf /\ mdadm_conf = FALSE /\ services = {}
    /\ completed = FALSE /\ chroot_failed = FALSE

Goto(step) == at' = step /\ UNCHANGED <<disks, calls, completed, chroot_failed>>

------------------------------------------------------------------------------
\* Back in the disk menus: other flags for the same file system, or a new one.
prepare_disks ==
    /\ at = "menu" /\ calls < MaxCalls
    /\ LVM' \in {0, 1} /\ LUKS' \in {0, 1} /\ RAID' \in {0, 1} /\ ZFS' \in {ZFS, 1}
    /\ \/ UNCHANGED <<filesystem_type, root, boot, target>>
       \/ /\ filesystem_type' \in {"ext4", "btrfs", "zfs"} /\ root' \in Roots
          /\ boot' \in Boots /\ FreshTarget
    /\ filesystem_type' = "zfs" => ZFS' = 1
    /\ completed' = FALSE
    /\ UNCHANGED <<at, calls, chroot_failed>>

\* "Proceed anyway?" removes .base_installed before the kernel menu, which may
\* be cancelled, and before the package list is fetched, which may fail.
tui_install_base ==
    /\ at = "menu" /\ calls < MaxCalls
    /\ calls' = calls + 1 /\ completed' = FALSE
    /\ base_installed' = FALSE
    /\ at' \in {"menu", "append_hooks"}
    /\ UNCHANGED <<disks, etc, pacman, conf, image, mdadm_conf, services, chroot_failed>>

append_hooks_first ==
    /\ at = "append_hooks" /\ Goto("pacstrap")
    /\ conf' = append_hooks(conf, PackageHooks)
    /\ UNCHANGED <<etc, pacman, base_installed, image, mdadm_conf, services>>

\* pacman keeps a mkinitcpio.conf that is there; the kernel's install hook
\* builds the initramfs.  A pacstrap that fails may have made /etc.
install_from_pkglist ==
    /\ at = "pacstrap" /\ Goto("copy_file")
    /\ \/ /\ etc' = TRUE /\ pacman' = TRUE
          /\ conf' = IF conf = NoConf THEN PackageConf ELSE conf
          /\ image' = conf'
       \/ etc' \in {etc, TRUE} /\ UNCHANGED <<pacman, conf, image>>
    /\ UNCHANGED <<base_installed, mdadm_conf, services>>

\* fs::copy_file of pacman.conf throws without /mnt/etc, in a noexcept function.
copy_pacman_conf ==
    /\ at = "copy_file"
    /\ IF etc THEN Goto("fs_hooks") /\ base_installed' = TRUE
       ELSE Goto("terminated") /\ UNCHANGED base_installed
    /\ UNCHANGED <<etc, pacman, conf, image, mdadm_conf, services>>

\* Mutant: fsck stays in the list.
fs_hooks_keeps_fsck ==
    /\ at = "fs_hooks" /\ Goto("recheck_luks")
    /\ conf' = CASE filesystem_type = "btrfs" -> append_module(conf, "btrfs")
                 [] filesystem_type = "zfs" -> insert_hook(conf, "filesystems", <<"zfs">>)
                 [] OTHER -> conf
    /\ UNCHANGED <<etc, pacman, base_installed, image, mdadm_conf, services>>

\* Hooks for the root file system.
fs_hooks ==
    /\ at = "fs_hooks" /\ Goto("recheck_luks")
    /\ conf' = CASE filesystem_type = "btrfs" ->
                       append_module(remove_hook(conf, "fsck"), "btrfs")
                 [] filesystem_type = "zfs" ->
                       append_file(insert_hook(remove_hook(conf, "fsck"), "filesystems", <<"zfs">>),
                                   "/usr/lib/libgcc_s.so.1")
                 [] OTHER -> conf
    /\ UNCHANGED <<etc, pacman, base_installed, image, mdadm_conf, services>>

\* "crypt" is searched for in the lines of lsblk that end in the mountpoints, so a
\* volume in a container is not noticed (unless its name has that text).  The third
\* case of the code, meant for it, asks for an encrypted /mnt/boot again.
recheck_luks ==
    /\ at = "recheck_luks" /\ at' = "raid_hooks"
    /\ LUKS' = IF boot = "crypt" \/ (root = "crypt" /\ boot = "none") THEN 1 ELSE LUKS
    /\ UNCHANGED <<filesystem_type, root, boot, LVM, RAID, ZFS, calls, target, completed,
                   chroot_failed>>

\* if (raid_used)
raid_hooks ==
    /\ at = "raid_hooks" /\ Goto("lvm_luks_hooks")
    /\ conf' = IF RAID = 0 THEN conf
               ELSE append_module(append_module(
                        insert_hook(conf, "block", <<"mdadm_udev">>), "raid0"), "raid1")
    /\ UNCHANGED <<etc, pacman, base_installed, image, mdadm_conf, services>>

\* The hooks, the copy of mdadm.conf (whose result is dropped), and a last parse
\* and write of the file.
lvm_luks_hooks ==
    /\ at = "lvm_luks_hooks" /\ Goto("mkinitcpio")
    /\ LET keyboard == insert_hook(conf, "keyboard", <<"consolefont", "keymap">>)
           hooks == CASE LVM = 1 /\ LUKS = 0 -> insert_hook(conf, "filesystems", <<"lvm2">>)
                      [] LVM = 0 /\ LUKS = 1 -> insert_hook(keyboard, "filesystems", <<"encrypt">>)
                      [] LVM = 1 /\ LUKS = 1 ->
                            insert_hook(keyboard, "filesystems", <<"encrypt", "lvm2">>)
                      [] OTHER -> conf
       IN  conf' = write(hooks, parse_file(hooks))
    /\ mdadm_conf' \in {mdadm_conf, mdadm_conf \/ RAID = 1}
    /\ UNCHANGED <<etc, pacman, base_installed, image, services>>

\* Mutant: LUKS alone does not make a new initramfs.
mkinitcpio_not_for_luks ==
    /\ at = "mkinitcpio"
    /\ at' = "drivers"
    /\ image' = IF pacman /\ (LVM > 0 \/ filesystem_type # "ext4") THEN conf ELSE image
    /\ chroot_failed' = FALSE
    /\ UNCHANGED <<disks, calls, etc, pacman, base_installed, conf, mdadm_conf, services, completed>>

\* if (lvm + luks + btrfs_root + zfs_root > 0) arch_chroot("mkinitcpio -P"),
\* which may fail or be left with "Back".  fstab follows, in SystemSetup.
mkinitcpio ==
    /\ at = "mkinitcpio"
    /\ at' = "drivers"
    /\ \/ /\ LVM + LUKS > 0 \/ filesystem_type # "ext4"
          /\ \/ pacman /\ image' = conf /\ chroot_failed' = FALSE
             \/ UNCHANGED image /\ chroot_failed' = TRUE
       \/ /\ LVM + LUKS = 0 /\ filesystem_type = "ext4"
          /\ UNCHANGED image /\ chroot_failed' = FALSE
    /\ UNCHANGED <<disks, calls, etc, pacman, base_installed, conf, mdadm_conf, services, completed>>

\* chwd -a -f in the chroot: a driver's package may bring its own initramfs.
install_available_profiles == image' \in {image} \cup IF pacman THEN {conf} ELSE {}

enable_systemd_service(enabled) == services' = services \cup enabled

\* The drivers, and the units of ZFS if the flag is set.
finish_base ==
    /\ at = "drivers" /\ at' = "menu" /\ completed' = TRUE
    /\ install_available_profiles
    /\ \E enabled \in {{}} \cup IF pacman THEN {Units} ELSE {} :
          /\ IF ZFS = 0 THEN UNCHANGED services ELSE enable_systemd_service(enabled)
          /\ chroot_failed' = (chroot_failed \/ (ZFS = 1 /\ enabled # Units))
    /\ UNCHANGED <<disks, calls, etc, pacman, base_installed, conf, mdadm_conf>>

Next ==
    \/ prepare_disks \/ tui_install_base \/ append_hooks_first
    \/ install_from_pkglist \/ copy_pacman_conf \/ fs_hooks \/ recheck_luks \/ raid_hooks
    \/ lvm_luks_hooks \/ mkinitcpio \/ finish_base

Spec == Init /\ [][Next]_vars

------------------------------------------------------------------------------
(* What should hold.                                                        *)

Precedes(a, b, list) ==
    \A i, j \in DOMAIN list : (list[i] = a /\ list[j] = b) => i < j

\* However often the base is installed, with whatever flags, failing where it may, no
\* hook is listed twice in mkinitcpio.conf, a root on LVM, LUKS or ZFS is made
\* available before it is mounted, and an array is assembled before block devices are
\* waited for.
HookOrder ==
    LET hooks == Hooks(conf) IN
    /\ \A i, j \in DOMAIN hooks : hooks[i] = hooks[j] => i = j
    /\ \A h \in {"encrypt", "lvm2", "zfs"} : Precedes(h, "filesystems", hooks)
    /\ Precedes("mdadm_udev", "block", hooks)
    /\ Precedes("keymap", "keyboard", hooks)

\* A finished installation has the hooks its disks need, and no fsck hook for a
\* root file system that has no fsck, also when an earlier one had other needs.
\* A root or a /boot that is itself an opened container is noticed even with no flag
\* set, except such a root beside a plain /boot.  (A root on a volume in a container
\* is not: it has its hook only if LUKS was set before.)
HooksForDisks ==
    LET hooks == Hooks(conf) IN
    (completed /\ pacman) =>
        /\ LUKS = 1 => Contains(hooks, "encrypt")
        /\ (root = "crypt" /\ boot # "plain") \/ boot = "crypt" => Contains(hooks, "encrypt")
        /\ LVM = 1 => Contains(hooks, "lvm2")
        /\ RAID = 1 => Contains(hooks, "mdadm_udev")
        /\ filesystem_type = "zfs" => Contains(hooks, "zfs")
        /\ filesystem_type = "btrfs" => Contains(Modules(conf), "btrfs")
        /\ Contains(hooks, "fsck") <=> filesystem_type = "ext4"

\* The initramfs of a finished installation on LVM, LUKS or ZFS, whose commands in the
\* chroot worked, was built with all the hooks that are needed to reach the root, and
\* the units that import a pool are enabled.
ImageReachesRoot ==
    LET hooks == Hooks(image) IN
    (completed /\ pacman /\ ~chroot_failed /\ (LVM + LUKS > 0 \/ filesystem_type = "zfs")) =>
        /\ LUKS = 1 => Contains(hooks, "encrypt")
        /\ LVM = 1 => Contains(hooks, "lvm2")
        /\ RAID = 1 => Contains(hooks, "mdadm_udev")
        /\ filesystem_type = "zfs" => Contains(hooks, "zfs") /\ services = Units
==============================================================================
