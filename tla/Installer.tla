------------------------------ MODULE Installer ------------------------------
(***************************************************************************)
(* One run of the installer: main, the wait for a network, settings.json,  *)
(* the menus of the advanced mode with the checks in front of their        *)
(* entries, and the straight line of the simple (or headless) mode.        *)
(*                                                                         *)
(* What is below /mnt is a set of facts, kept twice: for the root file     *)
(* system of the target (disk) and for the directory /mnt of the live      *)
(* system itself (live), which every command works on when nothing is      *)
(* mounted there.  What goes on inside "Mount Partitions" and inside the   *)
(* installation of the base is the subject of MountPartitions and          *)
(* InstallBase; here they are steps with all their outcomes.               *)
(***************************************************************************)
EXTENDS Naturals

CONSTANTS
    CONNECTION_TIMEOUT,  \* handle_connection: 15 in the code
    CommandsFail         \* whether pacstrap, arch-chroot, mkfs and mount may fail

ASSUME TimeoutAssumption == CONNECTION_TIMEOUT \in Nat
ASSUME FailAssumption == CommandsFail \in BOOLEAN

VARIABLES
    at,           \* the function or menu the UI thread is in
    time_waited,  \* handle_connection
    SYSTEM,       \* Config: "BIOS" or "UEFI"
    given,        \* entries of settings.json the simple mode asks for if they are missing
    parts,        \* types of the partitions listed in settings.json
    mounted,      \* /mnt is a mount point (findmnt -nl /mnt prints something)
    disk, live,   \* facts about the target's root file system and about the live /mnt
    checklist     \* Config: CHECKLIST

vars == <<at, time_waited, SYSTEM, given, parts, mounted, disk, live, checklist>>
session == <<time_waited, SYSTEM, given, parts>>

(***************************************************************************)
(* The facts: the directory etc; packages with which a chroot works;       *)
(* /usr/bin/pacman; the package grub; a boot loader written to the disk;   *)
(* .base_installed; a generated fstab; generated locales; a user; the root *)
(* password, as confirmed or as mistyped; the copy of the log.             *)
(***************************************************************************)
RootPass == {"root_confirmed", "root_mistyped"}
Facts == {"etc", "packages", "pacman", "grub", "bootloader", "base_installed",
          "fstab", "locales", "user", "log"} \cup RootPass
Fields == {"root_pass", "user_name", "kernel", "bootloader"}
PartTypes == {"root", "boot", "additional"}
Items == {"base", "bootloader", "fstab", "locales", "root_pass", "user"}

Menus == {"menu_advanced", "prep_menu", "configure_mirrorlist", "install_core_menu",
          "config_base_menu", "system_rescue_menu", "logs_menu", "exit_done"}
SimpleSteps == {"gather", "apply", "settings", "root_pass", "user", "base",
                "desktop", "bootloader", "simple_exit"}
Places == {"main", "id_system", "connection", "waiting", "prompt", "show_iwctl", "last_try", "repos",
           "parse_config", "init", "closed", "terminated"} \cup Menus \cup SimpleSteps

\* A system installed earlier, which the rescue menu is for.
OldSystem == {"etc", "packages", "pacman", "grub", "bootloader", "fstab", "locales",
              "user", "root_confirmed"}

Target == IF mounted THEN disk ELSE live

Init ==
    /\ at = "main" /\ time_waited = 0
    /\ SYSTEM = "BIOS"
    /\ given = {} /\ parts = {} /\ checklist = {}
    /\ mounted \in BOOLEAN
    /\ disk \in {{}, OldSystem} /\ live = {}

-----------------------------------------------------------------------------
(***************************************************************************)
(* Start-up.                                                               *)
(***************************************************************************)
Goto(place) == at' = place
Nothing == UNCHANGED <<session, mounted, disk, live, checklist>>

\* The possible answers of whoami and of cachyos.org.
check_root == BOOLEAN
is_connected == BOOLEAN

main ==
    /\ at = "main"
    /\ \E root \in check_root : Goto(IF root THEN "id_system" ELSE "closed")
    /\ Nothing

\* UEFI when there is /sys/firmware/efi; if efivarfs cannot be mounted then, the
\* installer ends.
id_system ==
    /\ at = "id_system"
    /\ \/ Goto("connection") /\ SYSTEM' \in {SYSTEM, "UEFI"}
       \/ Goto("closed") /\ UNCHANGED SYSTEM
    /\ UNCHANGED <<time_waited, given, parts, mounted, disk, live, checklist>>

\* It asks once before it starts to wait.
handle_connection ==
    /\ at = "connection"
    /\ \E connected \in is_connected : Goto(IF connected THEN "repos" ELSE "waiting")
    /\ Nothing

\* Mutant: the break leaves the wrong loop and the wait starts again.
wait_connection_restarts ==
    /\ at = "waiting"
    /\ \/ Goto("repos") /\ time_waited' = 0
       \/ /\ Goto("waiting")
          /\ time_waited' = IF time_waited >= CONNECTION_TIMEOUT THEN 0 ELSE time_waited + 1
    /\ UNCHANGED <<SYSTEM, given, parts, mounted, disk, live, checklist>>

\* One pass of the loop: is_connected, sleep, time_waited++ >= CONNECTION_TIMEOUT.
\* The counter is local to handle_connection and 0 outside it.
wait_connection ==
    /\ at = "waiting"
    /\ \/ Goto("repos") /\ time_waited' = 0
       \/ /\ time_waited >= CONNECTION_TIMEOUT
          /\ Goto("prompt") /\ time_waited' = 0
       \/ /\ time_waited < CONNECTION_TIMEOUT
          /\ Goto("waiting") /\ time_waited' = time_waited + 1
    /\ UNCHANGED <<SYSTEM, given, parts, mounted, disk, live, checklist>>

\* The possible lines: the end of the input, "n", or anything else.
prompt_char == {"eof", "n", "other"}

\* The user may connect by hand; one last is_connected decides.
prompt_wifi ==
    /\ at = "prompt"
    /\ \E read \in prompt_char : Goto(IF read \in {"eof", "n"} THEN "last_try" ELSE "show_iwctl")
    /\ Nothing

\* Until a key is pressed.
show_iwctl == at = "show_iwctl" /\ Goto("last_try") /\ Nothing

last_try ==
    /\ at = "last_try"
    /\ \E connected \in is_connected : Goto(IF connected THEN "repos" ELSE "closed")
    /\ Nothing

\* The live system's pacman.conf, see PacmanRepos; a failure is only logged.
install_cachyos_repo == at = "repos" /\ Goto("parse_config") /\ Nothing

\* tui::init: where the entry "menus" leads.
EntryPoint(menus) ==
    CASE menus = 1 -> "gather" [] menus = 2 -> "menu_advanced" [] OTHER -> "init"

\* Without settings.json the defaults stay, with menus = 2.
parse_config_absent ==
    /\ at = "parse_config"
    /\ Goto(EntryPoint(2))
    /\ UNCHANGED <<session, mounted, disk, live, checklist>>

\* In headless mode every field is required; partitions must be there, but the
\* array may be empty.  The advanced mode reads none of the fields.
parse_config ==
    /\ at = "parse_config"
    /\ \E menus \in 0..2, headless \in BOOLEAN, g \in SUBSET Fields, p \in SUBSET PartTypes :
          /\ headless => g = Fields
          /\ Goto(EntryPoint(menus))
          /\ given' = IF menus = 2 THEN {} ELSE g
          /\ parts' = IF menus = 2 THEN {} ELSE p
    /\ UNCHANGED <<time_waited, SYSTEM, mounted, disk, live, checklist>>

\* A field missing in headless mode, or an invalid partition entry.
parse_config_fails ==
    /\ at = "parse_config"
    /\ Goto("closed")
    /\ UNCHANGED <<session, mounted, disk, live, checklist>>

\* menus = 0: the user chooses, or cancels, which ends the installer.
init_menu ==
    /\ at = "init"
    /\ \/ Goto("gather") /\ UNCHANGED <<given, parts>>
       \/ Goto("menu_advanced") /\ given' = {} /\ parts' = {}
       \/ Goto("closed") /\ UNCHANGED <<given, parts>>
    /\ UNCHANGED <<time_waited, SYSTEM, mounted, disk, live, checklist>>

-----------------------------------------------------------------------------
(***************************************************************************)
(* What the operations make of the facts T below /mnt: the sets of their   *)
(* possible results.                                                       *)
(***************************************************************************)
\* A command that can fail: then it has done nothing.
Run(T, result) == IF CommandsFail THEN {T, result} ELSE {result}

Failed(T) == IF CommandsFail THEN {T} ELSE {}

\* arch-chroot needs an installed system.
Chroot(T, result) == IF "packages" \in T THEN Run(T, result) ELSE {T}

\* pacstrap makes the directories, then installs; it can fail anywhere.
Pacstrap(T, new) ==
    LET all == T \cup {"etc", "packages"} \cup new
    IN  IF CommandsFail THEN {T, T \cup {"etc"}, T \cup {"etc", "packages"}, all} ELSE {all}

\* genfstab > /mnt/etc/fstab.
generate_fstab(T) == IF "etc" \in T THEN Run(T, T \cup {"fstab"}) ELSE {T}

set_locale(T) == Chroot(T, T \cup {"locales"})

utils_set_root_password(T, entered) == Chroot(T, (T \ RootPass) \cup {entered})

\* Cancelled; both entries equal; or unequal: the dialogue calls itself, and when
\* that call returns, whatever it did, the outer one sets its own first entry.
tui_set_root_password(T) ==
    {T} \cup utils_set_root_password(T, "root_confirmed")
        \cup utils_set_root_password(T, "root_mistyped")

\* zsh and fish bring a package; bash does not.
utils_create_new_user(T) ==
    UNION {Chroot(p, p \cup {"user"}) : p \in {T} \cup Pacstrap(T, {})}

tui_create_new_user(T) == {T} \cup utils_create_new_user(T)

\* Installing what the user types, pacman and grub among it, or nothing.
install_cust_pkgs(T) == {T} \cup UNION {Pacstrap(T, new) : new \in SUBSET {"pacman", "grub"}}

\* pacman -Rsn in the chroot, for any packages.
utils_remove_pkgs(T, packages) == IF "pacman" \in T THEN Chroot(T, T \ packages) ELSE {T}

\* Cancelled, or what the user types.
tui_remove_pkgs(T) == {T} \cup UNION {utils_remove_pkgs(T, s) : s \in SUBSET {"pacman", "grub"}}

\* check_mount and check_base.
check_mount == mounted
check_base == check_mount /\ "pacman" \in Target

\* pacstrap, then copy_file to /mnt/etc/pacman.conf, which throws when there is no
\* such directory, then .base_installed and fstab.  Without a package list nothing
\* is done.
utils_install_base(T) ==
    Failed(T) \cup UNION {generate_fstab(p \cup {"base_installed"}) :
                              p \in {q \in Pacstrap(T, {"pacman"}) : "etc" \in q}}

\* Mutant: .base_installed is written before pacman.conf is copied.
utils_install_base_throws_late(T) ==
    {q \cup {"base_installed"} : q \in {r \in Pacstrap(T, {"pacman"}) : "etc" \notin r}}

\* Where the copy ends the installer.
utils_install_base_throws(T) == {q \in Pacstrap(T, {"pacman"}) : "etc" \notin q}

\* Refused; .base_installed removed, then no kernel selected; or installed.
tui_install_base(T) ==
    {T, T \ {"base_installed"}} \cup utils_install_base(T \ {"base_installed"})

utils_install_desktop(T) == Failed(T) \cup Pacstrap(T, {})
tui_install_desktop(T) ==
    {T} \cup (IF "base_installed" \in T THEN utils_install_desktop(T) ELSE {})

\* On BIOS grub_installer.sh is written without permission to execute, so install_grub
\* only works if the package grub is there already.
bios_bootloader(T) == IF "grub" \in T THEN Chroot(T, T \cup {"bootloader"}) ELSE {T}

\* On UEFI the script is executable and installs grub, then grub-install runs.
install_grub_uefi(T) ==
    UNION {Chroot(p, p \cup {"bootloader"}) : p \in Chroot(T, T \cup {"grub"})}

\* systemd-boot, limine and refind: pacstrap for a package, the loader's own installer.
install_other_uefi(T) == UNION {Chroot(p, p \cup {"bootloader"}) : p \in Pacstrap(T, {})}

uefi_bootloader(T) == install_grub_uefi(T) \cup install_other_uefi(T)

write_bootloader(T) == IF SYSTEM = "BIOS" THEN bios_bootloader(T) ELSE uefi_bootloader(T)

\* Mutant: install_bootloader relies on its callers for check_base.
install_bootloader_unchecked(T) == {T} \cup write_bootloader(T)

\* Both install_bootloader functions ask check_base again; the user may cancel.
install_bootloader(T) == IF check_base THEN {T} \cup write_bootloader(T) ELSE {T}

\* Copies of files that are not there throw in noexcept functions, and a failing mount of
\* efivarfs ends the installer; both on UEFI only.
AfterBootloader(place) ==
    at' \in {place} \cup (IF check_base /\ SYSTEM = "UEFI" THEN {"terminated"} ELSE {})

\* The command works on what is below /mnt now.
Becomes(results) ==
    /\ \E t \in results :
          IF mounted THEN disk' = t /\ live' = live ELSE live' = t /\ disk' = disk
    /\ UNCHANGED <<session, mounted, checklist>>

\* umount_partitions can give up half way; its callers ignore the result.
umount_partitions == mounted' \in {FALSE, mounted}

-----------------------------------------------------------------------------
(***************************************************************************)
(* The menus.  "Back" and Cancel close a menu; so does a check that fails.  *)
(* ExitLoopClosure only asks the menu to close: where the code has no      *)
(* break behind it, the entry still runs.                                  *)
(***************************************************************************)
Stay(results) == UNCHANGED at /\ Becomes(results)

\* Mutant: "Install System" is opened without check_mount.
menu_advanced_unchecked ==
    /\ at = "menu_advanced"
    /\ at' \in {"prep_menu", "install_core_menu", "system_rescue_menu", "exit_done", "closed"}
    /\ Nothing

\* When nothing is mounted "Install System" closes this menu, and so the installer.
menu_advanced ==
    /\ at = "menu_advanced"
    /\ at' \in {"prep_menu", "system_rescue_menu", "exit_done", "closed",
                IF check_mount THEN "install_core_menu" ELSE "closed"}
    /\ Nothing

\* Whether the live system has the package afterwards.
inst_needed == IF CommandsFail THEN BOOLEAN ELSE {TRUE}

secure_wipe(D) == UNION {IF has_wipe THEN Run(D, {}) ELSE {D} : has_wipe \in inst_needed}

available_bootloaders ==
    IF SYSTEM = "BIOS" THEN {"grub"} ELSE {"systemd-boot", "refind", "grub", "limine"}

bootloader_default_mount(bootloader) ==
    IF bootloader \in {"systemd-boot", "limine"} \/ SYSTEM = "BIOS" THEN "/boot"
    ELSE IF bootloader \in {"grub", "refind"} THEN "/boot/efi" ELSE "unknown bootloader"

\* dd, then wipefs, then sgdisk; the first already takes away what is on the disk.
erase_disk(D) ==
    {[facts |-> {}, ok |-> TRUE]} \cup
        {[facts |-> F, ok |-> FALSE] : F \in IF CommandsFail THEN {D, {}} ELSE {}}

\* What the disk is after sfdisk: nothing is on new partitions.
run_sfdisk_part(D) == Run(D, {})

make_clean_partschema(D) ==
    UNION {IF e.ok THEN run_sfdisk_part(e.facts) ELSE {e.facts} : e \in erase_disk(D)}

\* On UEFI an empty BOOTLOADER has no default mount point, and nothing is done.
auto_partition(D, bootloader) ==
    IF bootloader_default_mount(bootloader) = "unknown bootloader" THEN {D}
    ELSE make_clean_partschema(D)

\* With BOOTLOADER still empty, or as its menu has set it.
tui_auto_partition(D) == UNION {auto_partition(D, b) : b \in {""} \cup available_bootloaders}

\* Cancelled, a tool the user works with, the wipe, or the automatic partitioning.
create_partitions(D) == {D, {}} \cup secure_wipe(D) \cup tui_auto_partition(D)

\* Whether a device is selected; Cancel leaves DEVICE as it is.
select_device == BOOLEAN

\* "Partition Disk".
prep_partition_disk ==
    /\ at = "prep_menu"
    /\ umount_partitions
    /\ \E success \in select_device : disk' \in IF success THEN create_partitions(disk) ELSE {disk}
    /\ UNCHANGED <<at, session, live, checklist>>

\* "Mount Partitions" and "ZFS": whether /mnt itself is a mount point afterwards
\* depends on the file system, see MountPartitions.
prep_mount_partitions ==
    /\ at = "prep_menu"
    /\ mounted' \in BOOLEAN
    /\ disk' \in {disk, {}}
    /\ UNCHANGED <<at, session, live, checklist>>

\* RAID, LVM and LUKS write to devices that are not in use.
prep_devices ==
    /\ at = "prep_menu" /\ ~mounted
    /\ disk' = {}
    /\ UNCHANGED <<at, session, mounted, live, checklist>>

\* The keys are those of the target, if there is one.
refresh_pacman_keys(T) == Chroot(T, T)

prep_refresh_keys == at = "prep_menu" /\ Stay(refresh_pacman_keys(Target))

\* The list of devices; the console is that of the live system.
show_devices == UNCHANGED at /\ Nothing

\* Config entries only: InstallBase models the first, nothing reads the second.
set_cache == UNCHANGED at /\ Nothing
set_fsck_hook == UNCHANGED at /\ Nothing

prep_menu ==
    /\ at = "prep_menu"
    /\ show_devices \/ set_cache \/ set_fsck_hook \/ (at' \in {"configure_mirrorlist", "menu_advanced"} /\ Nothing)

\* The editor, then pacman -Syy, both for the live system.
edit_pacman_conf == UNCHANGED at /\ Nothing

configure_mirrorlist ==
    /\ at = "configure_mirrorlist"
    /\ edit_pacman_conf \/ (Goto("prep_menu") /\ Nothing)

core_install_base ==
    /\ at = "install_core_menu"
    /\ IF check_mount
         THEN \/ Stay(tui_install_base(Target))
              \/ /\ Goto("terminated")
                 /\ Becomes(utils_install_base_throws(Target \ {"base_installed"}))
         ELSE Goto("menu_advanced") /\ Nothing

core_install_desktop ==
    /\ at = "install_core_menu"
    /\ IF check_mount THEN Stay(tui_install_desktop(Target)) ELSE Goto("menu_advanced") /\ Nothing

core_install_bootloader ==
    /\ at = "install_core_menu"
    /\ IF check_base
         THEN AfterBootloader(at) /\ Becomes(install_bootloader(Target))
         ELSE Goto("menu_advanced") /\ Nothing

core_config_base ==
    /\ at = "install_core_menu"
    /\ Goto(IF check_base THEN "config_base_menu" ELSE "menu_advanced")
    /\ Nothing

\* No check in front of this one.
core_install_cust_pkgs == at = "install_core_menu" /\ Stay(install_cust_pkgs(Target))

\* Without a base these three run all the same, and the menu closes behind them.
\* Automatic login, the editor and the chroot change none of the facts.
core_tweaks ==
    /\ at = "install_core_menu"
    /\ Goto(IF check_base THEN at ELSE "menu_advanced")
    /\ Nothing

\* When none of the files exists the list is empty, and OK calls its entry 0.
edit_configs(place) ==
    /\ \/ Goto(place)
       \/ Target \cap {"packages", "fstab", "base_installed"} = {} /\ Goto("terminated")
    /\ Nothing

core_edit_configs ==
    /\ at = "install_core_menu"
    /\ edit_configs(IF check_base THEN at ELSE "menu_advanced")

\* A shell, if a chroot works; what the user does there is left out.
chroot_interactive(T) == Chroot(T, T)

core_chroot ==
    /\ at = "install_core_menu"
    /\ Goto(IF check_base THEN at ELSE "menu_advanced")
    /\ Becomes(chroot_interactive(Target))

core_back == at = "install_core_menu" /\ Goto("menu_advanced") /\ Nothing

config_base_menu ==
    /\ at = "config_base_menu"
    /\ \/ Stay(generate_fstab(Target))
       \/ Stay({Target} \cup set_locale(Target))
       \/ Stay(tui_set_root_password(Target))
       \/ Stay(tui_create_new_user(Target))
       \/ Goto("install_core_menu") /\ Nothing

\* Install Hardware Drivers and Install Bootloader test !check_mount && !check_base.
\* chwd works on an installed system only, and on none of the facts.
rescue_drivers ==
    /\ at = "system_rescue_menu"
    /\ IF ~check_mount /\ ~check_base
         THEN Goto("menu_advanced") /\ Nothing
         ELSE Stay({Target})

rescue_install_bootloader ==
    /\ at = "system_rescue_menu"
    /\ IF ~check_mount /\ ~check_base
         THEN Goto("menu_advanced") /\ Nothing
         ELSE AfterBootloader(at) /\ Becomes(install_bootloader(Target))

rescue_install_cust_pkgs ==
    /\ at = "system_rescue_menu"
    /\ IF check_mount THEN Stay(install_cust_pkgs(Target)) ELSE Goto("menu_advanced") /\ Nothing

rescue_remove_pkgs ==
    /\ at = "system_rescue_menu"
    /\ Goto(IF check_base THEN at ELSE "menu_advanced")
    /\ Becomes(tui_remove_pkgs(Target))

rescue_edit_configs ==
    /\ at = "system_rescue_menu"
    /\ edit_configs(IF check_base THEN at ELSE "menu_advanced")

rescue_chroot ==
    /\ at = "system_rescue_menu"
    /\ Goto(IF check_base THEN at ELSE "menu_advanced")
    /\ Becomes(chroot_interactive(Target))

rescue_logs == at = "system_rescue_menu" /\ Goto("logs_menu") /\ Nothing

\* One log after the other, also when the menu it came from is already closing.
logs_menu ==
    /\ at = "logs_menu"
    /\ at' \in {"logs_menu", IF check_base THEN "system_rescue_menu" ELSE "menu_advanced"}
    /\ Nothing

\* "Data Recovery" has no case of its own and closes the menu, as "Back" does.
rescue_back == at = "system_rescue_menu" /\ Goto("menu_advanced") /\ Nothing

-----------------------------------------------------------------------------
(***************************************************************************)
(* Simple and headless mode: gather_user_selections, then                  *)
(* apply_user_selections from top to bottom.                               *)
(***************************************************************************)
\* Cancel selects the default, so one is selected in any case.
select_bootloader(g) == g \cup {"bootloader"}

\* The disk is partitioned before a boot loader has been selected.
gather_user_selections ==
    /\ at = "gather"
    /\ \E bootloader \in IF "bootloader" \in given THEN available_bootloaders ELSE {""} :
          disk' \in auto_partition(disk, bootloader)
    /\ umount_partitions
    /\ Goto("apply")
    /\ given' = select_bootloader(given)
    /\ UNCHANGED <<time_waited, SYSTEM, parts, live, checklist>>

\* Its only failure.
make_partitions_prepared == parts # {}

\* The results of the mounts are ignored.
apply_mounts ==
    /\ at = "apply"
    /\ IF make_partitions_prepared
         THEN /\ Goto("settings")
              /\ disk' \in {disk, {}}
              /\ IF "root" \in parts /\ ~CommandsFail THEN mounted' = TRUE
                 ELSE IF "root" \in parts THEN mounted' \in BOOLEAN
                 ELSE umount_partitions
         ELSE Goto("closed") /\ umount_partitions /\ UNCHANGED disk
    /\ UNCHANGED <<session, live, checklist>>

\* fstab, host name, locale, keyboard, time zone and clock.
apply_settings ==
    /\ at = "settings"
    /\ Goto("root_pass")
    /\ Becomes(UNION {{T} \cup set_locale(T) : T \in generate_fstab(Target)})

apply_root_password ==
    /\ at = "root_pass"
    /\ Goto("user")
    /\ Becomes(IF "root_pass" \in given THEN utils_set_root_password(Target, "root_confirmed")
                                        ELSE tui_set_root_password(Target))

apply_user ==
    /\ at = "user"
    /\ Goto("base")
    /\ Becomes(IF "user_name" \in given THEN utils_create_new_user(Target)
                                        ELSE tui_create_new_user(Target))

apply_install_base ==
    /\ at = "base"
    /\ IF "kernel" \in given
         THEN \/ Goto("desktop") /\ Becomes(utils_install_base(Target))
              \/ Goto("terminated") /\ Becomes(utils_install_base_throws(Target))
         ELSE \/ Goto("desktop") /\ Becomes(tui_install_base(Target))
              \/ /\ Goto("terminated")
                 /\ Becomes(utils_install_base_throws(Target \ {"base_installed"}))

\* Skipped in server mode.
apply_install_desktop ==
    /\ at = "desktop"
    /\ Goto("bootloader")
    /\ Becomes({Target} \cup utils_install_desktop(Target))

\* Then chwd and the post-install script.
apply_install_bootloader ==
    /\ at = "bootloader"
    /\ AfterBootloader("simple_exit")
    /\ Becomes(install_bootloader(Target))

-----------------------------------------------------------------------------
\* Mutant: the root password is not looked at.
final_check_no_password(T) ==
    IF "base_installed" \notin T THEN {{"base"}}
    ELSE {{} \cup (IF SYSTEM = "BIOS" /\ ~({"packages", "pacman", "grub"} \subseteq T) THEN {"bootloader"} ELSE {})
             \cup (IF "packages" \in T THEN {} ELSE {"fstab", "locales", "user"})}

\* The questions are answered from what is below /mnt.  The package's own fstab and
\* the locales of a fresh base may or may not count; /mnt/home, by which user accounts
\* are recognised, comes with the packages.
final_check(T) ==
    IF "base_installed" \notin T THEN {{"base"}}
    ELSE {c \in SUBSET (Items \ {"base"}) :
             /\ "bootloader" \in c <=> SYSTEM = "BIOS" /\ ~({"packages", "pacman", "grub"} \subseteq T)
             /\ T \cap {"packages", "fstab"} = {} => "fstab" \in c
             /\ "packages" \notin T => "locales" \in c
             /\ {"packages", "locales"} \subseteq T => "locales" \notin c
             /\ "root_pass" \in c <=> "packages" \in T /\ T \cap RootPass = {}
             /\ "user" \in c <=> "packages" \notin T}

\* target_mnt is the text of a command and never empty, so the check, the question
\* and the copy of the log also come when nothing is mounted.  The simple mode does
\* not look at the answer.
exit_done ==
    /\ at \in {"exit_done", "simple_exit"}
    /\ checklist' \in final_check(Target)
    /\ \/ /\ Goto(IF at = "exit_done" THEN "menu_advanced" ELSE "closed")
          /\ UNCHANGED <<mounted, disk, live>>
       \/ /\ Goto("closed")
          /\ \E saved \in SUBSET {"log"} :
                IF mounted THEN disk' = disk \cup saved /\ UNCHANGED live
                           ELSE live' = live \cup saved /\ UNCHANGED disk
          /\ umount_partitions
    /\ UNCHANGED session

Startup == main \/ id_system \/ handle_connection \/ wait_connection \/ prompt_wifi \/ show_iwctl
               \/ last_try \/ install_cachyos_repo \/ parse_config_absent \/ parse_config
               \/ parse_config_fails \/ init_menu
Prep == prep_partition_disk \/ prep_mount_partitions \/ prep_devices \/ prep_refresh_keys \/ prep_menu
            \/ configure_mirrorlist
Core == core_install_base \/ core_install_desktop \/ core_install_bootloader
            \/ core_config_base \/ core_install_cust_pkgs \/ core_tweaks \/ core_edit_configs
            \/ core_chroot \/ core_back \/ config_base_menu
Rescue == rescue_drivers \/ rescue_install_bootloader \/ rescue_install_cust_pkgs
              \/ rescue_remove_pkgs \/ rescue_edit_configs \/ rescue_chroot \/ rescue_logs
              \/ logs_menu \/ rescue_back
Simple == gather_user_selections \/ apply_mounts \/ apply_settings \/ apply_root_password
              \/ apply_user \/ apply_install_base \/ apply_install_desktop
              \/ apply_install_bootloader

Next == Startup \/ menu_advanced \/ Prep \/ Core \/ Rescue \/ Simple \/ exit_done

Spec == Init /\ [][Next]_vars

\* The waiting loop runs on the program's own clock; all else waits for the user.
FairSpec == Spec /\ WF_vars(wait_connection)

-----------------------------------------------------------------------------
TypeOK ==
    /\ at \in Places
    /\ time_waited \in 0..CONNECTION_TIMEOUT
    /\ SYSTEM \in {"BIOS", "UEFI"}
    /\ given \subseteq Fields /\ parts \subseteq PartTypes
    /\ mounted \in BOOLEAN
    /\ disk \subseteq Facts /\ live \subseteq Facts
    /\ checklist \subseteq Items

\* The wait for a network ends, with a network or with the question to the user
\* (handle_connection).
WaitEnds == (at = "waiting") ~> (at # "waiting")

\* Whatever entry of whatever menu is chosen in whatever order, the advanced mode
\* writes nothing but the log into the live system's own /mnt: an entry that writes
\* is behind a check that a target is mounted, its own or an outer menu's.
LiveUntouched == [][(at \in Menus) => live' \subseteq live \cup {"log"}]_vars

\* What LiveUntouched rests on: the menus that install are open only with a target mounted.
CoreMounted == at \in {"install_core_menu", "config_base_menu"} => mounted

\* A boot loader is written only for a mounted target that has a base: the missing
\* breaks and the && in the rescue menu are caught by install_bootloader's own check,
\* and so is a simple installation whose root was not mounted.
BootloaderOnBase ==
    [][("bootloader" \in (disk' \cup live') \ (disk \cup live)) => mounted /\ "pacman" \in disk]_vars

\* .base_installed implies that the directories of a system were made: the copy of
\* pacman.conf in front of it ends the installer otherwise.
BaseFlagMeansFiles == \A T \in {disk, live} : "base_installed" \in T => "etc" \in T

\* An empty list in the closing question means that a base was installed whose chroot
\* works and whose root has a password.
ChecklistHonest ==
    [][(at \in {"exit_done", "simple_exit"} /\ checklist' = {}) =>
          {"base_installed", "packages"} \subseteq Target /\ Target \cap RootPass # {}]_vars
=============================================================================
