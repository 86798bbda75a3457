----------------------------- MODULE Bootloader -----------------------------
(****************************************************************************)
(* From mounting to a boot loader: what a pass over the partitions leaves   *)
(* in Config about LUKS and LVM, and what the boot loaders' installation    *)
(* makes of it.  Left out: the packages (Installer has them), formatting    *)
(* and what is left mounted when umount fails (MountPartitions), RAID,      *)
(* GRUB_SAVEDEFAULT (its option is never set, so clearing it does nothing). *)
(* lsblk and mount find a device by patterns such as /mnt$ and /mnt/boot$,  *)
(* which match the places both modes mount at; no device's name occurs in   *)
(* another's.  The simple mode's list of partitions has one root.           *)
(****************************************************************************)
EXTENDS Naturals, Sequences, FiniteSets

CONSTANTS
    Devices,        \* what can be mounted
    Stack,          \* what each is: see Stacks
    InitialKeys,    \* key slots in use, and whether the root has a key file
    None,
    MaxPasses,      \* bound: passes over the partitions
    MaxMounts,      \* bound: partitions entered in all the passes
    MaxInstalls     \* bound: boot loader installations

\* A partition, a pool, a logical volume, a container on a partition or on a
\* volume, and a volume on a container.
Stacks == {"part", "zfs", "lvm", "luks", "luks_on_lvm", "lvm_on_luks"}

ASSUME DevicesAssumption ==
    /\ Stack \in [Devices -> Stacks] /\ None \notin Devices
    /\ InitialKeys \subseteq [slots : 0..8, file : BOOLEAN]
    /\ MaxPasses \in Nat /\ MaxMounts \in Nat /\ MaxInstalls \in Nat

VARIABLES
    mode, SYSTEM, removable,        \* how the installer is used, and where
    at, passes, count, installs,
    mounted,                        \* the devices at "/" and "/boot"
    hidden,                         \* what is mounted at "/boot" below that
    boot_part,                      \* history: what was entered last for "/boot"
    LUKS, LVM, LVM_SEP_BOOT,        \* Config entries
    LUKS_ROOT_NAME, LUKS_DEV,       \* the latter as a sequence of its words
    key, files, image,              \* each root's key slots and key file, see Init
    grub, grub_cfg,                 \* /etc/default/grub, and what grub.cfg was made of
    efi, bootx64,                   \* EFI/<id>/grubx64.efi and EFI/boot/bootx64.efi
    autodetect,                     \* the hook is in mkinitcpio.conf
    params,                         \* what refind and limine pass to the kernel
    report                          \* result of the last boot loader installation

where == <<mode, SYSTEM, removable>>
places == <<mounted, hidden, boot_part>>
config == <<LUKS, LVM, LVM_SEP_BOOT, LUKS_ROOT_NAME, LUKS_DEV>>
luks == <<key, files, image>>
loader == <<grub, grub_cfg, efi, bootx64, autodetect, params, report>>
vars == <<where, at, passes, count, installs, places, config, luks, loader>>

Points == {"/", "/boot"}
BootIds == {"cachyos", "other"}
Binaries == {None, "old", "new"}

\* A word of the kernel's command line: cryptdevice=<dev>:<name>, where dev is
\* the container below a device or (wrongly) the file system on it.
CryptWord == [dev : {"container", "filesystem"} \X Devices, name : Devices]
Word(kind, d) == [dev |-> <<kind, d>>, name |-> d]

\* The options an installation sets, for the root and the /boot it is for (and what
\* had been entered for /boot); the others keep their defaults.  Those that may be
\* without a value are None then.
GrubConfig == [root : Devices, boot : Devices \cup {None}, boot_part : Devices \cup {None},
               crypt : CryptWord \cup {None}, lvm : BOOLEAN, zfs : BOOLEAN,
               enable_cryptodisk : {None, TRUE}, disable_os_prober : {None, FALSE}]

\* The text of /etc/default/grub that the options without a value have behind a "#".
GRUB_DEFAULT_CONFIG == [GRUB_ENABLE_CRYPTODISK |-> "y", GRUB_DISABLE_OS_PROBER |-> "false"]

convert_boolean_val(needle, value) ==
    IF needle = "GRUB_ENABLE_CRYPTODISK" THEN (IF value THEN "y" ELSE "n")
    ELSE IF value THEN "true" ELSE "false"

\* The line of an option that is a boolean: without a value it becomes a comment.
parse_grub_line(needle, value) ==
    IF value = None THEN [comment |-> TRUE, text |-> GRUB_DEFAULT_CONFIG[needle]]
    ELSE [comment |-> FALSE, text |-> convert_boolean_val(needle, value)]

gen_grub_config(c) ==
    [root |-> c.root, boot |-> c.boot, boot_part |-> c.boot_part, crypt |-> c.crypt,
     lvm |-> c.lvm, zfs |-> c.zfs,
     GRUB_ENABLE_CRYPTODISK |-> parse_grub_line("GRUB_ENABLE_CRYPTODISK", c.enable_cryptodisk),
     GRUB_DISABLE_OS_PROBER |-> parse_grub_line("GRUB_DISABLE_OS_PROBER", c.disable_os_prober)]
GrubFile == {gen_grub_config(c) : c \in GrubConfig}

TypeOK ==
    /\ mode \in {"advanced", "simple"} /\ SYSTEM \in {"BIOS", "UEFI"}
    /\ removable \in BOOLEAN
    /\ at \in {"menu", "root", "mounting", "terminated"}
    /\ passes \in 0..MaxPasses /\ count \in 0..MaxMounts /\ installs \in 0..MaxInstalls
    /\ mounted \in [Points -> Devices \cup {None}]
    /\ hidden \subseteq Devices /\ boot_part \in Devices \cup {None}
    /\ LUKS \in {0, 1} /\ LVM \in {0, 1} /\ LVM_SEP_BOOT \in 0..2
    /\ LUKS_ROOT_NAME \in Devices \cup {None} /\ LUKS_DEV \in Seq(CryptWord)
    /\ key \in [Devices -> [slots : 0..8, file : BOOLEAN, added : 0..8]]
    /\ files \in [Devices -> BOOLEAN] /\ image \in [Devices -> BOOLEAN]
    /\ grub \in GrubFile \cup {None} /\ grub_cfg \in GrubFile \cup {None}
    /\ efi \in [BootIds -> Binaries] /\ bootx64 \in Binaries
    /\ autodetect \in BOOLEAN
    /\ params \in Seq(CryptWord) \cup {None}
    /\ report \in {"none", "failed", "grub", "refind", "systemd-boot", "limine"}

Encrypted(d) == Stack[d] \in {"luks", "luks_on_lvm", "lvm_on_luks"}

\* The partition that setup_luks_keyfile finds below d is a LUKS container.
HoldsKeys(d) == Stack[d] \in {"luks", "lvm_on_luks"}

\* A root that is not formatted may hold a key file from an earlier system, and
\* its container may have several keys in use.  The EFI entries are None on BIOS.
Init ==
    /\ mode \in {"advanced", "simple"} /\ SYSTEM \in {"BIOS", "UEFI"}
    /\ removable \in BOOLEAN /\ (SYSTEM = "BIOS" => ~removable)
    /\ at = "menu" /\ passes = 0 /\ count = 0 /\ installs = 0
    /\ mounted = [p \in Points |-> None] /\ hidden = {} /\ boot_part = None
    /\ LUKS = 0 /\ LVM = 0 /\ LVM_SEP_BOOT = 0
    /\ LUKS_ROOT_NAME = None /\ LUKS_DEV = <<>>
    /\ \E used \in InitialKeys :
          key = [d \in Devices |-> [slots |-> IF HoldsKeys(d) THEN used.slots ELSE 0,
                                    file |-> used.file, added |-> 0]]
    /\ files = [d \in Devices |-> FALSE] /\ image = [d \in Devices |-> FALSE]
    /\ grub = None /\ grub_cfg = None
    /\ \E old \in IF SYSTEM = "UEFI" THEN {None, "old"} ELSE {None} :
          efi = [id \in BootIds |-> IF id = "cachyos" THEN old ELSE None]
    /\ bootx64 = IF SYSTEM = "UEFI" THEN "old" ELSE None
    /\ autodetect = TRUE /\ params = None /\ report = "none"

------------------------------------------------------------------------------
(* Mounting.                                                                *)

\* lsblk -lno TYPE.
Type(d) == CASE Stack[d] \in {"luks", "luks_on_lvm"} -> "crypt"
             [] Stack[d] \in {"lvm", "lvm_on_luks"} -> "lvm"
             [] OTHER -> "part"

\* Only TYPE crypt is looked at; the branch for logical volumes is a comment.
query_partition(d, luks0, lvm0, dev0) ==
    IF Type(d) = "crypt"
    THEN /\ LUKS' = 1 /\ LUKS_DEV' = Append(dev0, Word("container", d))
         /\ LVM' = IF Stack[d] = "luks_on_lvm" THEN 1 ELSE lvm0
    ELSE LUKS' = luks0 /\ LVM' = lvm0 /\ LUKS_DEV' = dev0

\* umount_partitions, then the root is asked for.
mount_partitions ==
    /\ at = "menu" /\ passes < MaxPasses /\ (mode = "simple" => passes = 0)
    /\ count < MaxMounts
    /\ at' = IF mode = "advanced" THEN "root" ELSE "mounting"
    /\ passes' = passes + 1 /\ UNCHANGED count
    /\ mounted' = [p \in Points |-> None] /\ hidden' = {}
    /\ UNCHANGED <<where, installs, boot_part, config, luks, loader>>

mount_root(d) == mounted' = [mounted EXCEPT !["/"] = d] /\ UNCHANGED hidden

\* Mutant: LUKS_DEV keeps what the last pass left.
apply_root_partition_actions_no_reset ==
    /\ at = "root" /\ at' = "mounting" /\ count' = count + 1
    /\ \E d \in Devices : mount_root(d) /\ query_partition(d, 0, 0, LUKS_DEV)
    /\ UNCHANGED <<where, passes, installs, boot_part, LVM_SEP_BOOT, LUKS_ROOT_NAME, luks, loader>>

\* The advanced mode resets the entries before it mounts the root.
apply_root_partition_actions ==
    /\ at = "root" /\ at' = "mounting" /\ count' = count + 1
    /\ \E d \in Devices :
          \/ mount_root(d) /\ query_partition(d, 0, 0, <<>>)
          \/ UNCHANGED <<mounted, hidden>> /\ LUKS' = 0 /\ LVM' = 0 /\ LUKS_DEV' = <<>>
    /\ UNCHANGED <<where, passes, installs, boot_part, LVM_SEP_BOOT, LUKS_ROOT_NAME, luks, loader>>

\* What lsblk and mount list at /boot.
ListedAtBoot == hidden \cup ({mounted["/boot"]} \ {None})

\* A mount hides what was mounted there before; what is on top already is refused.
mount_boot(d) ==
    /\ mounted["/boot"] # d
    /\ mounted' = [mounted EXCEPT !["/boot"] = d] /\ hidden' = ListedAtBoot

\* Mutant: a separate /boot is never taken for a logical volume.
sep_boot_is_1(d) == 1

\* lsblk -lno TYPE of the partition entered for /boot.
sep_boot(d) == IF Type(d) = "lvm" THEN 2 ELSE 1

\* LVM_SEP_BOOT is set whether or not the mount worked.  With several devices listed,
\* findmnt prints a line for each, and the query made of them finds nothing.
enter_boot(d) ==
    /\ boot_part' = d /\ LVM_SEP_BOOT' = sep_boot(d)
    /\ \/ /\ mount_boot(d)
          /\ IF ListedAtBoot = {} THEN query_partition(d, LUKS, LVM, LUKS_DEV)
             ELSE UNCHANGED <<LUKS, LVM, LUKS_DEV>>
       \/ UNCHANGED <<mounted, hidden, LUKS, LVM, LUKS_DEV>>

\* Any other place, which may be in use too.
enter_elsewhere(d) ==
    /\ query_partition(d, LUKS, LVM, LUKS_DEV) \/ UNCHANGED <<LUKS, LVM, LUKS_DEV>>
    /\ UNCHANGED <<places, LVM_SEP_BOOT>>

\* In the simple mode the root is one of the list.
enter_root(d) ==
    /\ mode = "simple" /\ mounted["/"] = None
    /\ mount_root(d) /\ query_partition(d, LUKS, LVM, LUKS_DEV)
    /\ UNCHANGED <<boot_part, LVM_SEP_BOOT>>

\* The other partitions, in the order in which they are listed or entered.  A
\* mountpoint may be given again, whatever is mounted there.
mount_current_partition ==
    /\ at = "mounting" /\ count < MaxMounts /\ count' = count + 1
    /\ \E d \in Devices : enter_boot(d) \/ enter_elsewhere(d) \/ enter_root(d)
    /\ UNCHANGED <<where, at, passes, installs, LUKS_ROOT_NAME, luks, loader>>

MountedAs(p, type) == mounted[p] # None /\ Type(mounted[p]) = type

\* Both tests have to hold, so only a root of TYPE crypt goes on.  The searches
\* for its container then want one line of lsblk with the mountpoint /mnt and
\* the file system crypto_LUKS, and there is none: LUKS_DEV stays.
get_cryptroot ==
    IF MountedAs("/", "crypt") THEN LUKS_ROOT_NAME' = mounted["/"] ELSE UNCHANGED LUKS_ROOT_NAME

\* The UUID taken for the container's is that of the file system mounted at
\* /boot, so the entry always looks new.  (With several devices listed it has a
\* line for each; only one is kept here.)
get_cryptboot(listed) ==
    \/ \E d \in listed : Type(d) = "crypt" /\ LUKS_DEV' = Append(LUKS_DEV, Word("filesystem", d))
    \/ (\A d \in listed : Type(d) # "crypt") /\ UNCHANGED LUKS_DEV

\* The EFI partition, which on UEFI may be mounted at /boot, and then what lsblk
\* tells of the root and of /boot.  In the advanced mode it is the last step, in
\* the simple mode it has its place in the list of partitions.
make_esp ==
    /\ at = "mounting"
    /\ IF mode = "advanced" THEN at' = "menu" /\ count' = count
       ELSE at' = at /\ count < MaxMounts /\ count' = count + 1
    /\ \/ UNCHANGED <<mounted, hidden>>
       \/ \E d \in Devices : SYSTEM = "UEFI" /\ Stack[d] = "part" /\ mount_boot(d)
    /\ get_cryptroot /\ get_cryptboot(ListedAtBoot')
    /\ LUKS' = IF MountedAs("/", "crypt") \/ LUKS_DEV' # LUKS_DEV THEN 1 ELSE LUKS
    /\ UNCHANGED <<where, passes, installs, boot_part, LVM, LVM_SEP_BOOT, luks, loader>>

\* The simple mode's list of partitions is at its end.
mounting_ends ==
    /\ at = "mounting" /\ mode = "simple" /\ at' = "menu"
    /\ UNCHANGED <<where, passes, count, installs, places, config, luks, loader>>

------------------------------------------------------------------------------
(* Full disk encryption.                                                    *)

\* fde: what holds the boot files is encrypted.  Of several devices listed at /boot
\* only the TYPE is looked at.
fde == IF ListedAtBoot = {} THEN LUKS = 1 \/ Encrypted(mounted["/"])
       ELSE \E d \in ListedAtBoot : Type(d) = "crypt" \/ (ListedAtBoot = {d} /\ Encrypted(d))

\* Mutant: FILES is amended before the key is known to be in the container.
luks1_setup_keyfile_files_first(d) ==
    \E ok \in 0..3 :
        LET adds == ok >= 2 /\ key[d].file /\ HoldsKeys(d) IN
        /\ key' = IF adds THEN [key EXCEPT ![d].slots = @ + 1, ![d].added = @ + 1] ELSE key
        /\ files' = [files EXCEPT ![d] = @ \/ ok >= 1]
        /\ image' = [image EXCEPT ![d] = IF adds /\ ok = 3 THEN files'[d] ELSE @]

\* dd is given the options of luksAddKey in place of the file's name, so it can
\* only fail; with a key file there: chmod, luksAddKey, FILES, mkinitcpio -P.
luks1_setup_keyfile(d) ==
    \E ok \in 0..3 :
        LET adds == ok >= 1 /\ key[d].file /\ HoldsKeys(d) IN
        /\ key' = IF adds THEN [key EXCEPT ![d].slots = @ + 1, ![d].added = @ + 1] ELSE key
        /\ files' = [files EXCEPT ![d] = @ \/ (adds /\ ok >= 2)]
        /\ image' = [image EXCEPT ![d] = IF adds /\ ok = 3 THEN files'[d] ELSE @]

\* Only with fewer than four keys in use.
setup_luks_keyfile(d) ==
    IF key[d].slots < 4 THEN luks1_setup_keyfile(d) ELSE UNCHANGED luks

boot_encrypted_setting ==
    IF fde THEN setup_luks_keyfile(mounted["/"]) ELSE UNCHANGED luks

------------------------------------------------------------------------------
(* grub.                                                                    *)

\* The first word of LUKS_DEV goes to the front of GRUB_CMDLINE_LINUX.
Crypt == IF LUKS_DEV = <<>> THEN None ELSE Head(LUKS_DEV)

\* On BIOS the lvm module is preloaded if /boot is on LVM, and os-prober enabled.
grub_config ==
    [root |-> mounted["/"], boot |-> mounted["/boot"], boot_part |-> boot_part, crypt |-> Crypt,
     lvm |-> SYSTEM = "BIOS" /\ ((LVM = 1 /\ LVM_SEP_BOOT = 0) \/ LVM_SEP_BOOT = 2),
     zfs |-> Stack[mounted["/"]] = "zfs",
     enable_cryptodisk |-> IF fde THEN TRUE ELSE None,
     disable_os_prober |-> IF SYSTEM = "BIOS" THEN FALSE ELSE None]

write_grub_config == gen_grub_config(grub_config)

\* What sysfs says of the disk the root is on.
is_volume_removable == removable

\* On BIOS only the disk to install on is given, and --recheck.
GrubInstallConfig == [is_efi |-> SYSTEM = "UEFI", is_removable |-> SYSTEM = "UEFI" /\ is_volume_removable]

\* write_grub_config, grub-install, grub-mkconfig; ok of them work.  With
\* --removable grub-install writes EFI/BOOT/BOOTX64.EFI instead.
install_grub(ok, bootid) ==
    /\ grub' = IF ok >= 1 THEN write_grub_config ELSE grub
    /\ efi' = IF ok >= 2 /\ GrubInstallConfig.is_efi /\ ~GrubInstallConfig.is_removable
              THEN [efi EXCEPT ![bootid] = "new"] ELSE efi
    /\ grub_cfg' = IF ok = 3 THEN grub' ELSE grub_cfg
    /\ report' = IF ok = 3 THEN "grub" ELSE "failed"

\* check_base: something is mounted, and pacman is installed there.
Installs ==
    /\ at = "menu" /\ mounted["/"] # None
    /\ installs < MaxInstalls /\ installs' = installs + 1

bios_bootloader ==
    /\ Installs /\ SYSTEM = "BIOS" /\ boot_encrypted_setting
    /\ \E ok \in 0..3 : install_grub(ok, "cachyos")
    /\ UNCHANGED <<where, at, passes, count, places, config, bootx64, autodetect, params>>

\* Mutant: the default loader is replaced although grub was not installed.
copies_always(ok) == TRUE

\* A failed installation returns before the copy.
copies(ok) == ok = 3

\* as_default copies EFI/cachyos/grubx64.efi whatever was installed; copy_file
\* throws in a noexcept function if it is not there.
install_grub_uefi(bootid, as_default) ==
    /\ Installs /\ SYSTEM = "UEFI" /\ boot_encrypted_setting
    /\ \E ok \in 0..3 :
          /\ install_grub(ok, bootid)
          /\ bootx64' = IF as_default /\ copies(ok) /\ efi'["cachyos"] # None THEN efi'["cachyos"]
                        ELSE IF ok >= 2 /\ removable THEN "new" ELSE bootx64
          /\ at' = IF as_default /\ copies(ok) /\ efi'["cachyos"] = None THEN "terminated" ELSE at
    /\ UNCHANGED <<where, passes, count, places, config, autodetect, params>>

------------------------------------------------------------------------------
(* refind, systemd-boot, limine.                                            *)

\* No entry of PARTITIONS ("/dev/sda1 20G") has the text the root is looked for
\* by, so there is no root= parameter; LUKS_DEV is put behind another
\* "cryptdevice=" as it is.
get_kernel_params == IF LUKS = 1 THEN LUKS_DEV ELSE <<>>

\* The utility's file has the line with the strings; an empty list of versions
\* counts as a failure.
refind_write_extra_kern_strings(extra_kernel_versions) == extra_kernel_versions # <<>>

\* refind-install, the hook, refind_linux.conf, and then the strings of extra kernels.
install_refind(config0) ==
    \E ok \in 0..2 :
        /\ autodetect' = (autodetect /\ ~(ok >= 1 /\ config0.is_removable))
        /\ params' = IF ok >= 2 THEN config0.kernel_params ELSE params
        /\ report' = IF ok = 2 /\ refind_write_extra_kern_strings(config0.extra_kernel_versions)
                     THEN "refind" ELSE "failed"

\* bootctl, sdboot-manage, and the hook.
install_systemd_boot(volume_removable) ==
    \E ok \in 0..2 :
        /\ autodetect' = (autodetect /\ ~(ok = 2 /\ volume_removable))
        /\ report' = IF ok = 2 THEN "systemd-boot" ELSE "failed"

\* Two files, the second with the parameters, limine-install and limine-mkinitcpio;
\* is_removable is never looked at.
install_limine(config0) ==
    \E ok \in 0..4 :
        /\ params' = IF ok >= 2 THEN config0.kernel_params ELSE params
        /\ report' = IF ok = 4 THEN "limine" ELSE "failed"

RefindInstallConfig ==
    [is_removable |-> is_volume_removable, extra_kernel_versions |-> <<>>, kernel_params |-> get_kernel_params]

LimineInstallConfig == [is_removable |-> is_volume_removable, kernel_params |-> get_kernel_params]

utils_install_refind ==
    /\ Installs /\ SYSTEM = "UEFI" /\ install_refind(RefindInstallConfig)
    /\ UNCHANGED <<where, at, passes, count, places, config, luks, grub, grub_cfg, efi, bootx64>>

utils_install_systemd_boot ==
    /\ Installs /\ SYSTEM = "UEFI" /\ install_systemd_boot(is_volume_removable)
    /\ UNCHANGED <<where, at, passes, count, places, config, luks, grub, grub_cfg, efi, bootx64, params>>

\* The splash screen comes from a package that may not be installed, and
\* copy_file throws then.
utils_install_limine ==
    /\ Installs /\ SYSTEM = "UEFI"
    /\ \/ at' = at /\ install_limine(LimineInstallConfig)
       \/ at' = "terminated" /\ UNCHANGED <<params, report>>
    /\ UNCHANGED <<where, passes, count, places, config, luks, grub, grub_cfg, efi, bootx64, autodetect>>

------------------------------------------------------------------------------
(* The menus of the advanced mode, and the simple mode's single call.  An    *)
(* entry that is cancelled does nothing.                                     *)

\* Another id can be typed if the firmware knows cachyos.
tui_install_grub_uefi ==
    \E bootid \in BootIds, as_default \in BOOLEAN : install_grub_uefi(bootid, as_default)

\* Each asks whether to go on, and tells of a success whatever the outcome was.
tui_install_refind == utils_install_refind
tui_install_limine == utils_install_limine
tui_install_systemd_boot == utils_install_systemd_boot

tui_uefi_bootloader ==
    tui_install_grub_uefi \/ tui_install_refind \/ tui_install_systemd_boot \/ tui_install_limine

\* The device is selected first.
tui_bios_bootloader == bios_bootloader

uefi_bootloader ==
    \/ install_grub_uefi("cachyos", TRUE)
    \/ utils_install_refind \/ utils_install_systemd_boot \/ utils_install_limine

\* Both make sure that efivarfs is mounted, or end the installer.
efivarfs_fails ==
    /\ Installs /\ SYSTEM = "UEFI" /\ at' = "terminated"
    /\ UNCHANGED <<where, passes, count, places, config, luks, loader>>

tui_install_bootloader ==
    mode = "advanced" /\ (tui_bios_bootloader \/ tui_uefi_bootloader \/ efivarfs_fails)
install_bootloader == mode = "simple" /\ (bios_bootloader \/ uefi_bootloader \/ efivarfs_fails)

------------------------------------------------------------------------------
(* "Review Configuration Files": what the user writes into them is left out, *)
(* what is made of them is not.                                              *)

\* The files of the last installation are below /mnt.
Reviewed ==
    /\ at = "menu" /\ mode = "advanced" /\ grub # None
    /\ mounted["/"] = grub.root /\ mounted["/boot"] = grub.boot
    /\ UNCHANGED <<where, at, passes, count, installs, places, config>>

grub_mkconfig == grub_cfg' \in {grub_cfg, grub}

\* Asks "Update GRUB?" behind the editor.
edit_grub ==
    /\ Reviewed /\ grub_mkconfig
    /\ UNCHANGED <<luks, grub, efi, bootx64, autodetect, params, report>>

\* Asks "Run mkinitcpio?".
edit_mkinitcpio ==
    /\ Reviewed
    /\ image' \in {image, [image EXCEPT ![mounted["/"]] = files[mounted["/"]]]}
    /\ UNCHANGED <<key, files, loader>>

Next ==
    \/ mount_partitions \/ apply_root_partition_actions \/ mount_current_partition \/ make_esp
    \/ mounting_ends \/ tui_install_bootloader \/ install_bootloader
    \/ edit_grub \/ edit_mkinitcpio

Spec == Init /\ [][Next]_vars

------------------------------------------------------------------------------
(* What should hold.                                                        *)

Unlocks(g) == (g # None /\ Type(g.root) = "crypt") => g.crypt = Word("container", g.root)
\* What is mounted at /boot is what was entered last for it.
AsEntered(g) == g # None /\ g.boot # None /\ g.boot = g.boot_part
Preloads(g) == AsEntered(g) => (g.lvm <=> Type(g.boot) = "lvm")

\* A root that is itself an opened container can be unlocked by the initramfs:
\* in the advanced mode grub passes its container, whatever earlier passes,
\* failed mounts and other encrypted partitions left in LUKS_DEV, and whether
\* grub.cfg is written by the installation or later by edit_grub.
CryptRootUnlocked == mode = "advanced" => Unlocks(grub_cfg)

\* On BIOS grub preloads the lvm module exactly when a logical volume is mounted at
\* /boot, although LVM_SEP_BOOT is never reset between passes and /boot may be
\* entered several times: as long as the partition entered last for /boot is the
\* one that is mounted there.  (LVM_SEP_BOOT follows what was entered, so that a
\* last entry whose mount fails makes grub pass over the volume mounted before.)
LvmBootPreloaded == SYSTEM = "BIOS" => Preloads(grub_cfg)

\* Installing a boot loader again and again uses up no more than four of the
\* container's eight key slots.
KeySlotsLeft == \A d \in Devices : key[d].added > 0 => key[d].slots <= 4

\* mkinitcpio.conf and the initramfs list the key file only when the container
\* of that root accepts it, whichever step of the set-up fails.
KeyFileUsable == \A d \in Devices : files[d] \/ image[d] => key[d].added > 0

\* When the last installation was one of grub and reported success, grub.cfg
\* was generated from what /etc/default/grub says, whatever failed before.
GrubAgrees == report = "grub" => grub_cfg = grub

\* The firmware's default loader is only ever replaced by a run of grub-install
\* that worked: no failure costs the user the loader that was there.
DefaultKept == [][bootx64' # bootx64 => removable \/ report' = "grub"]_vars

==============================================================================
