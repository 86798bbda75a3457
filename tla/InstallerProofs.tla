--------------------------- MODULE InstallerProofs ---------------------------
(***************************************************************************)
(* Type correctness of Installer, and that the advanced mode leaves the    *)
(* live system alone and a boot loader is only written for a base.         *)
(***************************************************************************)
EXTENDS Installer, TLAPS

\* All that an operation other than the boot loader's can add.
Plain == Facts \ {"bootloader"}

\* Results that add to T nothing but facts of F.
AddsOnly(results, T, F) == \A t \in results : t \subseteq T \cup F

\* A chroot and a command that may fail give T or their result.
LEMMA ChrootResults ==
    ASSUME NEW T, NEW r, NEW t \in Chroot(T, r)
    PROVE  t = T \/ t = r
BY DEF Chroot, Run

\* pacstrap adds directories, packages and what it was asked for.
LEMMA PacstrapResults ==
    ASSUME NEW T, NEW new, NEW t \in Pacstrap(T, new)
    PROVE  T \subseteq t /\ t \subseteq T \cup {"etc", "packages"} \cup new
BY DEF Pacstrap

\* None of the operations but the boot loader's adds a boot loader.
LEMMA PlainOperations ==
    ASSUME NEW T
    PROVE  /\ AddsOnly(generate_fstab(T), T, Plain)
           /\ AddsOnly(set_locale(T), T, Plain)
           /\ AddsOnly(utils_set_root_password(T, "root_confirmed"), T, Plain)
           /\ AddsOnly(tui_set_root_password(T), T, Plain)
           /\ AddsOnly(tui_create_new_user(T), T, Plain)
           /\ AddsOnly(utils_create_new_user(T), T, Plain)
           /\ AddsOnly(install_cust_pkgs(T), T, Plain)
           /\ AddsOnly(tui_remove_pkgs(T), T, Plain)
           /\ AddsOnly(utils_install_base(T), T, Plain)
           /\ AddsOnly(utils_install_base_throws(T), T, Plain)
           /\ AddsOnly(utils_install_desktop(T), T, Plain)
           /\ AddsOnly(tui_install_desktop(T), T, Plain)
<1> USE DEF AddsOnly
<1>0. {"etc", "packages", "pacman", "grub", "base_installed", "fstab", "locales", "user",
       "log", "root_confirmed", "root_mistyped"} \subseteq Plain
  BY DEF Plain, Facts, RootPass
<1>1. AddsOnly(generate_fstab(T), T, Plain)
  BY <1>0 DEF generate_fstab, Run
<1>2. AddsOnly(set_locale(T), T, Plain)
  BY <1>0, ChrootResults DEF set_locale
<1>3. \A e \in RootPass : AddsOnly(utils_set_root_password(T, e), T, Plain)
  BY <1>0, ChrootResults DEF utils_set_root_password, RootPass
<1>4. AddsOnly(tui_set_root_password(T), T, Plain)
  BY <1>3 DEF tui_set_root_password, RootPass
<1>5. \A p : p \subseteq T \cup Plain => AddsOnly(Chroot(p, p \cup {"user"}), T, Plain)
  BY <1>0, ChrootResults
<1>6. AddsOnly(utils_create_new_user(T), T, Plain)
  <2>1. \A p \in {T} \cup Pacstrap(T, {}) : p \subseteq T \cup Plain
    BY <1>0, PacstrapResults
  <2> QED BY <1>5, <2>1 DEF utils_create_new_user
<1>7. AddsOnly(tui_create_new_user(T), T, Plain)
  BY <1>6 DEF tui_create_new_user
<1>8. \A new \in SUBSET {"pacman", "grub"} : AddsOnly(Pacstrap(T, new), T, Plain)
  BY <1>0, PacstrapResults
<1>9. AddsOnly(install_cust_pkgs(T), T, Plain)
  BY <1>8 DEF install_cust_pkgs
<1>10. AddsOnly(tui_remove_pkgs(T), T, Plain)
  <2>1. \A p : AddsOnly(utils_remove_pkgs(T, p), T, Plain)
    BY ChrootResults DEF utils_remove_pkgs
  <2> QED BY <2>1 DEF tui_remove_pkgs
<1>11. \A p \in Pacstrap(T, {"pacman"}) : p \subseteq T \cup Plain
  BY <1>0, PacstrapResults
<1>12. AddsOnly(utils_install_base(T), T, Plain)
  <2>1. \A p : p \subseteq T \cup Plain =>
            AddsOnly(generate_fstab(p \cup {"base_installed"}), T, Plain)
    BY <1>0 DEF generate_fstab, Run
  <2> QED BY <1>11, <2>1 DEF utils_install_base, Failed
<1>13. AddsOnly(utils_install_base_throws(T), T, Plain)
  BY <1>11 DEF utils_install_base_throws
<1>14. AddsOnly(utils_install_desktop(T), T, Plain)
  BY <1>0, PacstrapResults DEF utils_install_desktop, Failed
<1>15. AddsOnly(tui_install_desktop(T), T, Plain)
  BY <1>14 DEF tui_install_desktop
<1> QED BY <1>1, <1>2, <1>3, <1>4, <1>6, <1>7, <1>9, <1>10, <1>12, <1>13, <1>14, <1>15 DEF RootPass

\* Reinstalling the base first removes the old flag.
LEMMA PlainReinstall ==
    ASSUME NEW T
    PROVE  /\ AddsOnly(tui_install_base(T), T, Plain)
           /\ AddsOnly(utils_install_base_throws(T \ {"base_installed"}), T, Plain)
BY PlainOperations DEF tui_install_base, AddsOnly

\* install_bootloader changes nothing unless check_base holds, and adds only facts.
LEMMA BootloaderResults ==
    ASSUME NEW T
    PROVE  /\ AddsOnly(install_bootloader(T), T, Facts)
           /\ ~check_base => AddsOnly(install_bootloader(T), T, {})
<1> USE DEF AddsOnly
<1>0. {"etc", "packages", "grub", "bootloader"} \subseteq Facts
  BY DEF Facts
<1>1. \A p : p \subseteq T \cup Facts => AddsOnly(Chroot(p, p \cup {"bootloader"}), T, Facts)
  BY <1>0, ChrootResults
<1>2. \A p \in Pacstrap(T, {}) \cup Chroot(T, T \cup {"grub"}) : p \subseteq T \cup Facts
  BY <1>0, PacstrapResults, ChrootResults
<1>3. AddsOnly(bios_bootloader(T), T, Facts)
  BY <1>1 DEF bios_bootloader
<1>4. AddsOnly(install_grub_uefi(T), T, Facts)
  BY <1>1, <1>2 DEF install_grub_uefi
<1>5. AddsOnly(install_other_uefi(T), T, Facts)
  BY <1>1, <1>2 DEF install_other_uefi
<1>6. AddsOnly(write_bootloader(T), T, Facts)
  BY <1>3, <1>4, <1>5 DEF write_bootloader, uefi_bootloader
<1> QED BY <1>6 DEF install_bootloader

-----------------------------------------------------------------------------
\* What a step may do to the two file systems.
Effect(F) == disk' \subseteq disk \cup F /\ live' \subseteq live \cup F

\* A command's step: it leaves the live system alone while a target is mounted.
Works(F) ==
    /\ Effect(F)
    /\ mounted => live' = live
    /\ UNCHANGED <<session, mounted, checklist>>

\* A command whose results add only facts of F works so.
LEMMA BecomesEffect ==
    ASSUME NEW S, NEW F, AddsOnly(S, Target, F), Becomes(S)
    PROVE  Works(F)
<1>1. PICK t \in S : IF mounted THEN disk' = t /\ live' = live ELSE live' = t /\ disk' = disk
  BY DEF Becomes
<1>2. t \subseteq Target \cup F
  BY DEF AddsOnly
<1> QED BY <1>1, <1>2 DEF Works, Effect, Target, Becomes

\* A shell and the renewal of keys leave all facts as they are.
LEMMA ShellNothing ==
    /\ Becomes(chroot_interactive(Target)) => Nothing
    /\ Becomes(refresh_pacman_keys(Target)) => Nothing
<1>1. \A t \in Chroot(Target, Target) : t = Target
  BY ChrootResults
<1> QED BY <1>1 DEF Becomes, chroot_interactive, refresh_pacman_keys, Nothing, Target

\* The steps of install_bootloader.
BootloaderStep ==
    core_install_bootloader \/ rescue_install_bootloader \/ apply_install_bootloader

\* The steps that install or configure something else on the target.
WorkStep ==
    \/ core_install_base \/ core_install_desktop \/ core_install_cust_pkgs \/ config_base_menu
    \/ rescue_drivers \/ rescue_install_cust_pkgs \/ rescue_remove_pkgs
    \/ apply_settings \/ apply_root_password \/ apply_user \/ apply_install_base
    \/ apply_install_desktop

\* All other steps: they add nothing, but for the log.
QuietStep ==
    \/ Startup \/ menu_advanced \/ Prep
    \/ core_config_base \/ core_tweaks \/ core_edit_configs \/ core_chroot \/ core_back
    \/ rescue_edit_configs \/ rescue_chroot \/ rescue_logs \/ logs_menu \/ rescue_back
    \/ gather_user_selections \/ apply_mounts \/ exit_done

\* Every step is of one of the three kinds.
LEMMA StepKinds == Next => BootloaderStep \/ WorkStep \/ QuietStep
BY DEF Next, Core, Rescue, Simple, BootloaderStep, WorkStep, QuietStep

\* Partitioning only takes away, wherever it fails.
LEMMA PartitioningTakes ==
    ASSUME NEW D, NEW bootloader, NEW R \in auto_partition(D, bootloader)
    PROVE  R \subseteq D
<1>1. \A e \in erase_disk(D) : e.facts \subseteq D
  BY DEF erase_disk
<1>2. ASSUME NEW F, F \subseteq D, NEW X \in run_sfdisk_part(F) PROVE X \subseteq D
  BY <1>2 DEF run_sfdisk_part, Run
<1>3. \A X \in make_clean_partschema(D) : X \subseteq D
  BY <1>1, <1>2 DEF make_clean_partschema
<1> QED BY <1>3 DEF auto_partition

\* A quiet step adds at most the log.
LEMMA QuietEffect == ASSUME QuietStep PROVE Effect({"log"})
<1> USE ShellNothing DEF Effect, Nothing
<1>1. CASE Startup
  BY <1>1 DEF Startup, main, id_system, handle_connection, wait_connection, prompt_wifi,
              show_iwctl, last_try, install_cachyos_repo, parse_config_absent, parse_config,
              parse_config_fails, init_menu
<1>2. CASE menu_advanced
  BY <1>2 DEF menu_advanced
<1>3. CASE Prep
  <2>1. \A D \in create_partitions(disk) : D \subseteq disk
    <3>1. \A D \in secure_wipe(disk) : D \subseteq disk
      BY DEF secure_wipe, Run
    <3>2. \A D \in tui_auto_partition(disk) : D \subseteq disk
      <4>1. ASSUME NEW D \in tui_auto_partition(disk) PROVE \E b : D \in auto_partition(disk, b)
        BY <4>1 DEF tui_auto_partition
      <4> QED BY <4>1, PartitioningTakes
    <3> QED BY <3>1, <3>2 DEF create_partitions
  <2> QED BY <1>3, <2>1 DEF Prep, prep_partition_disk, prep_mount_partitions, prep_devices,
              prep_refresh_keys, prep_menu, show_devices, set_cache, set_fsck_hook,
              configure_mirrorlist, edit_pacman_conf, Stay
<1>4. CASE core_config_base \/ core_tweaks \/ core_edit_configs \/ core_chroot \/ core_back
  BY <1>4 DEF core_config_base, core_tweaks, core_edit_configs, edit_configs, core_chroot, core_back
<1>5. CASE rescue_edit_configs \/ rescue_chroot \/ rescue_logs \/ logs_menu \/ rescue_back
  BY <1>5 DEF rescue_edit_configs, edit_configs, rescue_chroot, rescue_logs, logs_menu,
              rescue_back
<1>6. CASE gather_user_selections \/ apply_mounts
  BY <1>6, PartitioningTakes DEF gather_user_selections, apply_mounts
<1>7. CASE exit_done
  BY <1>7 DEF exit_done
<1> QED BY <1>1, <1>2, <1>3, <1>4, <1>5, <1>6, <1>7 DEF QuietStep

\* A working step adds anything but a boot loader, and keeps the rest of the state.
LEMMA WorkEffect == ASSUME WorkStep PROVE Works(Plain)
<1>0. ASSUME NEW S, AddsOnly(S, Target, Plain), Becomes(S) PROVE Works(Plain)
  BY <1>0, BecomesEffect
<1>00. Nothing => Works(Plain)
  BY DEF Nothing, Works, Effect
<1>T. AddsOnly({Target}, Target, Plain)
  BY DEF AddsOnly
<1>1. CASE core_install_base
  BY <1>1, <1>0, <1>00, PlainReinstall DEF core_install_base, Stay
<1>2. CASE core_install_desktop
  BY <1>2, <1>0, <1>00, PlainOperations DEF core_install_desktop, Stay
<1>3. CASE core_install_cust_pkgs
  BY <1>3, <1>0, PlainOperations DEF core_install_cust_pkgs, Stay
<1>4. CASE config_base_menu
  <2>1. AddsOnly({Target} \cup set_locale(Target), Target, Plain)
    BY <1>T, PlainOperations DEF AddsOnly
  <2> QED BY <1>4, <1>0, <1>00, <2>1, PlainOperations DEF config_base_menu, Stay
<1>5. CASE rescue_drivers
  BY <1>5, <1>0, <1>00, <1>T DEF rescue_drivers, Stay
<1>6. CASE rescue_install_cust_pkgs
  BY <1>6, <1>0, <1>00, PlainOperations DEF rescue_install_cust_pkgs, Stay
<1>7. CASE rescue_remove_pkgs
  BY <1>7, <1>0, PlainOperations DEF rescue_remove_pkgs
<1>8. CASE apply_settings
  <2>1. \A T \in generate_fstab(Target) : AddsOnly({T} \cup set_locale(T), Target, Plain)
    BY PlainOperations DEF AddsOnly
  <2>2. AddsOnly(UNION {{T} \cup set_locale(T) : T \in generate_fstab(Target)}, Target, Plain)
    BY <2>1 DEF AddsOnly
  <2> QED BY <1>8, <1>0, <2>2 DEF apply_settings
<1>9. CASE apply_root_password
  BY <1>9, <1>0, PlainOperations DEF apply_root_password
<1>10. CASE apply_user
  BY <1>10, <1>0, PlainOperations DEF apply_user
<1>11. CASE apply_install_base
  BY <1>11, <1>0, PlainOperations, PlainReinstall DEF apply_install_base
<1>12. CASE apply_install_desktop
  <2>1. AddsOnly({Target} \cup utils_install_desktop(Target), Target, Plain)
    BY PlainOperations DEF AddsOnly
  <2> QED BY <1>12, <1>0, <2>1 DEF apply_install_desktop
<1> QED
  BY <1>1, <1>2, <1>3, <1>4, <1>5, <1>6, <1>7, <1>8, <1>9, <1>10, <1>11, <1>12 DEF WorkStep

\* A step of install_bootloader works only if check_base holds.
LEMMA BootloaderEffect ==
    ASSUME BootloaderStep
    PROVE  Works(Facts) /\ (~check_base => Works({}))
<1>1. Becomes(install_bootloader(Target)) \/ Nothing
  BY DEF BootloaderStep, core_install_bootloader, rescue_install_bootloader, apply_install_bootloader
<1>2. CASE Becomes(install_bootloader(Target))
  BY <1>2, BecomesEffect, BootloaderResults
<1>3. CASE Nothing
  BY <1>3 DEF Nothing, Works, Effect
<1> QED BY <1>1, <1>2, <1>3

-----------------------------------------------------------------------------
\* The places a step can lead to are places.
LEMMA PlaceStep == ASSUME TypeOK, Next PROVE at' \in Places
<1> USE DEF TypeOK, Places, Menus, SimpleSteps, Goto, Nothing, Stay
<1>1. CASE Startup
  BY <1>1 DEF Startup, main, id_system, handle_connection, wait_connection, prompt_wifi,
              show_iwctl, last_try, install_cachyos_repo, parse_config_absent, parse_config,
              parse_config_fails, init_menu, EntryPoint
<1>2. CASE menu_advanced \/ exit_done
  BY <1>2 DEF menu_advanced, exit_done
<1>3. CASE Prep
  BY <1>3 DEF Prep, prep_partition_disk, prep_mount_partitions, prep_devices, prep_refresh_keys,
              prep_menu, show_devices, set_cache, set_fsck_hook, configure_mirrorlist,
              edit_pacman_conf, Stay
<1>4. CASE Core
  BY <1>4 DEF Core, core_install_base, core_install_desktop, core_install_bootloader,
              core_config_base, core_install_cust_pkgs, core_tweaks, core_edit_configs,
              edit_configs, core_chroot, core_back, config_base_menu, AfterBootloader
<1>5. CASE Rescue
  BY <1>5 DEF Rescue, rescue_drivers, rescue_install_bootloader, rescue_install_cust_pkgs,
              rescue_remove_pkgs, rescue_edit_configs, edit_configs, rescue_chroot, rescue_logs, logs_menu,
              rescue_back,
              AfterBootloader
<1>6. CASE Simple
  BY <1>6 DEF Simple, gather_user_selections, apply_mounts, apply_settings, apply_root_password,
              apply_user, apply_install_base, apply_install_desktop, apply_install_bootloader,
              AfterBootloader
<1> QED BY <1>1, <1>2, <1>3, <1>4, <1>5, <1>6 DEF Next

\* A quiet step keeps the types of what it changes.
LEMMA QuietTypes ==
    ASSUME TypeOK, QuietStep
    PROVE  /\ time_waited' \in 0..CONNECTION_TIMEOUT
           /\ SYSTEM' \in {"BIOS", "UEFI"}
           /\ given' \subseteq Fields /\ parts' \subseteq PartTypes
           /\ mounted' \in BOOLEAN
           /\ checklist' \subseteq Items
<1> USE TimeoutAssumption, ShellNothing DEF TypeOK, Nothing, session
<1>1. CASE Startup
  BY <1>1 DEF Startup, main, id_system, handle_connection, wait_connection, prompt_wifi,
              show_iwctl, last_try, install_cachyos_repo, parse_config_absent, parse_config,
              parse_config_fails, init_menu
<1>2. CASE menu_advanced
  BY <1>2 DEF menu_advanced
<1>3. CASE Prep
  BY <1>3 DEF Prep, prep_partition_disk, prep_mount_partitions, prep_devices, prep_refresh_keys,
              prep_menu, show_devices, set_cache, set_fsck_hook, configure_mirrorlist,
              edit_pacman_conf, Stay,
              umount_partitions
<1>4. CASE core_config_base \/ core_tweaks \/ core_edit_configs \/ core_chroot \/ core_back
  BY <1>4 DEF core_config_base, core_tweaks, core_edit_configs, edit_configs, core_chroot, core_back
<1>5. CASE rescue_edit_configs \/ rescue_chroot \/ rescue_logs \/ logs_menu \/ rescue_back
  BY <1>5 DEF rescue_edit_configs, edit_configs, rescue_chroot, rescue_logs, logs_menu,
              rescue_back
<1>6. CASE gather_user_selections \/ apply_mounts
  BY <1>6 DEF gather_user_selections, select_bootloader, apply_mounts, umount_partitions,
              Fields
<1>7. CASE exit_done
  <2>1. \A c \in final_check(Target) : c \subseteq Items
    BY DEF final_check, Items
  <2> QED BY <1>7, <2>1 DEF exit_done, umount_partitions
<1> QED BY <1>1, <1>2, <1>3, <1>4, <1>5, <1>6, <1>7 DEF QuietStep

\* The variables of a run of the installer keep their types, whatever the time-out and
\* whether or not commands fail (the whole of main.cpp, tui.cpp's menus and simple_tui.cpp).
THEOREM TypeCorrect == Spec => []TypeOK
<1>1. Init => TypeOK
  BY TimeoutAssumption DEF Init, TypeOK, Places, Facts, RootPass, OldSystem
<1>2. TypeOK /\ [Next]_vars => TypeOK'
  <2> SUFFICES ASSUME TypeOK, [Next]_vars PROVE TypeOK'
    OBVIOUS
  <2>0. Plain \subseteq Facts /\ {"log"} \subseteq Facts
    BY DEF Plain, Facts
  <2>1. CASE QuietStep /\ Next
    BY <2>0, <2>1, QuietEffect, QuietTypes, PlaceStep DEF TypeOK, Effect
  <2>2. CASE WorkStep /\ Next
    BY <2>0, <2>2, WorkEffect, PlaceStep DEF TypeOK, Works, Effect, session
  <2>3. CASE BootloaderStep /\ Next
    BY <2>3, BootloaderEffect, PlaceStep DEF TypeOK, Works, Effect, session
  <2>4. CASE UNCHANGED vars
    BY <2>4 DEF vars, TypeOK
  <2> QED BY <2>1, <2>2, <2>3, <2>4, StepKinds
<1> QED BY <1>1, <1>2, PTL DEF Spec

\* No step, of any menu or of the simple mode, writes a boot loader unless /mnt is a
\* mount point with pacman below it (check_base in both install_bootloader functions).
THEOREM BootloaderSafe == Spec => BootloaderOnBase
<1>1. Next => (("bootloader" \in (disk' \cup live') \ (disk \cup live))
                   => mounted /\ "pacman" \in disk)
  <2> SUFFICES ASSUME Next, "bootloader" \in (disk' \cup live') \ (disk \cup live)
               PROVE  mounted /\ "pacman" \in disk
    OBVIOUS
  <2>1. ~Effect(Plain) /\ ~Effect({"log"}) /\ ~Effect({})
    BY DEF Effect, Plain
  <2>2. BootloaderStep
    BY <2>1, StepKinds, QuietEffect, WorkEffect DEF Works
  <2>3. check_base
    BY <2>1, <2>2, BootloaderEffect DEF Works
  <2> QED BY <2>3 DEF check_base, check_mount, Target
<1>2. UNCHANGED vars => ~("bootloader" \in (disk' \cup live') \ (disk \cup live))
  BY DEF vars
<1> QED BY <1>1, <1>2, PTL DEF Spec, BootloaderOnBase

-----------------------------------------------------------------------------
\* Only menu_advanced opens the installing menus, and no step of theirs unmounts.
LEMMA MountedStep == ASSUME CoreMounted, Next PROVE CoreMounted'
<1> USE ShellNothing DEF CoreMounted, Goto, Nothing, Stay
<1>1. CASE Startup
  BY <1>1 DEF Startup, main, id_system, handle_connection, wait_connection, prompt_wifi,
              show_iwctl, last_try, install_cachyos_repo, parse_config_absent, parse_config,
              parse_config_fails, init_menu, EntryPoint
<1>2. CASE menu_advanced \/ exit_done
  BY <1>2 DEF menu_advanced, exit_done, check_mount
<1>3. CASE Prep
  BY <1>3 DEF Prep, prep_partition_disk, prep_mount_partitions, prep_devices, prep_refresh_keys,
              prep_menu, show_devices, set_cache, set_fsck_hook, configure_mirrorlist,
              edit_pacman_conf, Stay
<1>4. CASE Core
  BY <1>4 DEF Core, core_install_base, core_install_desktop, core_install_bootloader,
              core_config_base, core_install_cust_pkgs, core_tweaks, core_edit_configs,
              edit_configs, core_chroot, core_back, config_base_menu, AfterBootloader, Becomes
<1>5. CASE Rescue
  BY <1>5 DEF Rescue, rescue_drivers, rescue_install_bootloader, rescue_install_cust_pkgs,
              rescue_remove_pkgs, rescue_edit_configs, edit_configs, rescue_chroot, rescue_logs, logs_menu,
              rescue_back,
              AfterBootloader
<1>6. CASE Simple
  BY <1>6 DEF Simple, gather_user_selections, apply_mounts, apply_settings, apply_root_password,
              apply_user, apply_install_base, apply_install_desktop, apply_install_bootloader,
              AfterBootloader
<1> QED BY <1>1, <1>2, <1>3, <1>4, <1>5, <1>6 DEF Next

\* With nothing mounted, a working entry of a menu is refused or has nothing to work on.
LEMMA UnmountedWork ==
    ASSUME CoreMounted, WorkStep, at \in Menus, ~mounted
    PROVE  Effect({})
<1>1. ASSUME Nothing PROVE Effect({})
  BY <1>1 DEF Nothing, Effect
<1>2. CASE core_install_base \/ core_install_desktop \/ core_install_cust_pkgs \/ config_base_menu
  BY <1>2 DEF CoreMounted, core_install_base, core_install_desktop, core_install_cust_pkgs,
              config_base_menu
<1>3. CASE rescue_drivers \/ rescue_install_cust_pkgs
  BY <1>1, <1>3 DEF rescue_drivers, rescue_install_cust_pkgs, check_mount, check_base
<1>4. CASE rescue_remove_pkgs
  <2>0. \A p : AddsOnly(utils_remove_pkgs(Target, p), Target, {})
    BY ChrootResults DEF AddsOnly, utils_remove_pkgs
  <2>1. AddsOnly(tui_remove_pkgs(Target), Target, {})
    BY <2>0 DEF AddsOnly, tui_remove_pkgs
  <2> QED BY <1>4, <2>1, BecomesEffect DEF rescue_remove_pkgs, Works
<1>5. CASE apply_settings \/ apply_root_password \/ apply_user \/ apply_install_base
           \/ apply_install_desktop
  BY <1>5 DEF Menus, apply_settings, apply_root_password, apply_user, apply_install_base,
              apply_install_desktop
<1> QED BY <1>2, <1>3, <1>4, <1>5 DEF WorkStep

\* For every order of menu entries, mounts and failures, the advanced mode writes nothing
\* but the log into the live system's /mnt (check_mount in menu_advanced and in the menus).
THEOREM LiveSafe == Spec => LiveUntouched
<1>1. Init => CoreMounted
  BY DEF Init, CoreMounted
<1>2. CoreMounted /\ [Next]_vars => CoreMounted'
  <2>1. UNCHANGED vars /\ CoreMounted => CoreMounted'
    BY DEF vars, CoreMounted
  <2> QED BY <2>1, MountedStep
<1>3. CoreMounted /\ Next => ((at \in Menus) => live' \subseteq live \cup {"log"})
  <2> SUFFICES ASSUME CoreMounted, Next, at \in Menus PROVE live' \subseteq live \cup {"log"}
    OBVIOUS
  <2>1. CASE QuietStep
    BY <2>1, QuietEffect DEF Effect
  <2>2. CASE BootloaderStep
    BY <2>2, BootloaderEffect DEF Works, Effect, check_base, check_mount
  <2>3. CASE WorkStep
    BY <2>3, WorkEffect, UnmountedWork DEF Works, Effect
  <2> QED BY <2>1, <2>2, <2>3, StepKinds
<1>4. UNCHANGED vars => ((at \in Menus) => live' \subseteq live \cup {"log"})
  BY DEF vars
<1> QED BY <1>1, <1>2, <1>3, <1>4, PTL DEF Spec, LiveUntouched

-----------------------------------------------------------------------------
\* What BaseFlagMeansFiles says of one file system, and of an operation's results.
FlagMeansFiles(T) == "base_installed" \in T => "etc" \in T
Sound(results, T) == FlagMeansFiles(T) => \A t \in results : FlagMeansFiles(t)

\* A chroot that adds none of the two facts.
LEMMA ChrootSound ==
    ASSUME NEW T, NEW r, FlagMeansFiles(T) => FlagMeansFiles(r)
    PROVE  Sound(Chroot(T, r), T)
BY ChrootResults DEF Sound

\* pacstrap never takes the directories away, and never writes the flag.
LEMMA PacstrapSound ==
    ASSUME NEW T, NEW new, "base_installed" \notin new
    PROVE  Sound(Pacstrap(T, new), T)
BY PacstrapResults DEF Sound, FlagMeansFiles

\* None of the operations writes the flag where there are no directories: only
\* utils_install_base writes it, behind the copy of pacman.conf.
LEMMA SoundOperations ==
    ASSUME NEW T
    PROVE  /\ Sound(generate_fstab(T), T)
           /\ Sound(set_locale(T), T)
           /\ Sound(utils_set_root_password(T, "root_confirmed"), T)
           /\ Sound(tui_set_root_password(T), T)
           /\ Sound(utils_create_new_user(T), T)
           /\ Sound(tui_create_new_user(T), T)
           /\ Sound(install_cust_pkgs(T), T)
           /\ Sound(tui_remove_pkgs(T), T)
           /\ Sound(utils_install_base(T), T)
           /\ Sound(utils_install_base_throws(T), T)
           /\ Sound(utils_install_desktop(T), T)
           /\ Sound(tui_install_desktop(T), T)
<1> USE DEF Sound, FlagMeansFiles
<1>1. Sound(generate_fstab(T), T)
  BY DEF generate_fstab, Run
<1>2. Sound(set_locale(T), T)
  BY ChrootSound DEF set_locale
<1>3. \A e \in RootPass : Sound(utils_set_root_password(T, e), T)
  BY ChrootSound DEF utils_set_root_password, RootPass
<1>4. Sound(tui_set_root_password(T), T)
  BY <1>3 DEF tui_set_root_password, RootPass
<1>5. Sound(utils_create_new_user(T), T)
  <2>1. Sound(Pacstrap(T, {}), T)
    BY PacstrapSound
  <2>2. \A p : Sound(Chroot(p, p \cup {"user"}), p)
    BY ChrootSound
  <2> QED BY <2>1, <2>2 DEF utils_create_new_user
<1>6. Sound(tui_create_new_user(T), T)
  BY <1>5 DEF tui_create_new_user
<1>7. Sound(install_cust_pkgs(T), T)
  <2>1. \A new \in SUBSET {"pacman", "grub"} : Sound(Pacstrap(T, new), T)
    BY PacstrapSound
  <2> QED BY <2>1 DEF install_cust_pkgs
<1>8. Sound(tui_remove_pkgs(T), T)
  <2>1. \A s \in SUBSET {"pacman", "grub"} : Sound(utils_remove_pkgs(T, s), T)
    BY ChrootSound DEF utils_remove_pkgs
  <2> QED BY <2>1 DEF tui_remove_pkgs
<1>9. Sound(utils_install_base(T), T)
  <2>1. \A p : "etc" \in p => \A t \in generate_fstab(p \cup {"base_installed"}) : "etc" \in t
    BY DEF generate_fstab, Run
  <2> QED BY <2>1 DEF utils_install_base, Failed
<1>10. Sound(utils_install_base_throws(T), T)
  BY PacstrapSound DEF utils_install_base_throws
<1>11. Sound(utils_install_desktop(T), T)
  BY PacstrapSound DEF utils_install_desktop, Failed
<1>12. Sound(tui_install_desktop(T), T)
  BY <1>11 DEF tui_install_desktop
<1> QED BY <1>1, <1>2, <1>3, <1>4, <1>5, <1>6, <1>7, <1>8, <1>9, <1>10, <1>11, <1>12 DEF RootPass

\* Reinstalling the base removes the flag before anything else.
LEMMA SoundReinstall ==
    ASSUME NEW T
    PROVE  /\ Sound(tui_install_base(T), T)
           /\ Sound(utils_install_base_throws(T \ {"base_installed"}), T)
<1>1. FlagMeansFiles(T \ {"base_installed"})
  BY DEF FlagMeansFiles
<1> QED BY <1>1, SoundOperations DEF tui_install_base, Sound

\* A boot loader brings packages and directories, never the flag.
LEMMA SoundBootloader == ASSUME NEW T PROVE Sound(install_bootloader(T), T)
<1> USE DEF Sound
<1>0. \A p : FlagMeansFiles(p) => /\ FlagMeansFiles(p \cup {"bootloader"})
                                 /\ FlagMeansFiles(p \cup {"grub"})
  BY DEF FlagMeansFiles
<1>1. \A p : Sound(Chroot(p, p \cup {"bootloader"}), p)
  BY <1>0, ChrootSound
<1>2. Sound(Chroot(T, T \cup {"grub"}), T) /\ Sound(Pacstrap(T, {}), T)
  BY <1>0, ChrootSound, PacstrapSound
<1>3. Sound(bios_bootloader(T), T)
  BY <1>1 DEF bios_bootloader
<1>4. Sound(install_grub_uefi(T), T) /\ Sound(install_other_uefi(T), T)
  BY <1>1, <1>2 DEF install_grub_uefi, install_other_uefi
<1> QED BY <1>3, <1>4 DEF install_bootloader, write_bootloader, uefi_bootloader

\* A command with sound results keeps both file systems sound.
LEMMA BecomesSound ==
    ASSUME NEW S, Sound(S, Target), Becomes(S), BaseFlagMeansFiles
    PROVE  BaseFlagMeansFiles'
BY DEF Becomes, Sound, FlagMeansFiles, Target, BaseFlagMeansFiles

\* Working on the target keeps the flag honest.
LEMMA WorkSound == ASSUME WorkStep, BaseFlagMeansFiles PROVE BaseFlagMeansFiles'
<1>0. ASSUME NEW S, Sound(S, Target), Becomes(S) PROVE BaseFlagMeansFiles'
  BY <1>0, BecomesSound
<1>00. Nothing => BaseFlagMeansFiles'
  BY DEF Nothing, BaseFlagMeansFiles
<1>T. Sound({Target}, Target)
  BY DEF Sound
<1>1. CASE core_install_base
  BY <1>1, <1>0, <1>00, SoundReinstall DEF core_install_base, Stay
<1>2. CASE core_install_desktop
  BY <1>2, <1>0, <1>00, SoundOperations DEF core_install_desktop, Stay
<1>3. CASE core_install_cust_pkgs
  BY <1>3, <1>0, SoundOperations DEF core_install_cust_pkgs, Stay
<1>4. CASE config_base_menu
  <2>1. Sound({Target} \cup set_locale(Target), Target)
    BY SoundOperations DEF Sound
  <2> QED BY <1>4, <1>0, <1>00, <2>1, SoundOperations DEF config_base_menu, Stay
<1>5. CASE rescue_drivers
  BY <1>5, <1>0, <1>00, <1>T DEF rescue_drivers, Stay
<1>6. CASE rescue_install_cust_pkgs
  BY <1>6, <1>0, <1>00, SoundOperations DEF rescue_install_cust_pkgs, Stay
<1>7. CASE rescue_remove_pkgs
  BY <1>7, <1>0, SoundOperations DEF rescue_remove_pkgs
<1>8. CASE apply_settings
  <2>1. \A T \in generate_fstab(Target) : Sound({T} \cup set_locale(T), T)
    BY SoundOperations DEF Sound
  <2>2. Sound(UNION {{T} \cup set_locale(T) : T \in generate_fstab(Target)}, Target)
    BY <2>1, SoundOperations DEF Sound
  <2> QED BY <1>8, <1>0, <2>2 DEF apply_settings
<1>9. CASE apply_root_password
  BY <1>9, <1>0, SoundOperations DEF apply_root_password
<1>10. CASE apply_user
  BY <1>10, <1>0, SoundOperations DEF apply_user
<1>11. CASE apply_install_base
  BY <1>11, <1>0, SoundOperations, SoundReinstall DEF apply_install_base
<1>12. CASE apply_install_desktop
  <2>1. Sound({Target} \cup utils_install_desktop(Target), Target)
    BY SoundOperations DEF Sound
  <2> QED BY <1>12, <1>0, <2>1 DEF apply_install_desktop
<1> QED
  BY <1>1, <1>2, <1>3, <1>4, <1>5, <1>6, <1>7, <1>8, <1>9, <1>10, <1>11, <1>12 DEF WorkStep

\* Writing a boot loader does, too.
LEMMA BootloaderSound == ASSUME BootloaderStep, BaseFlagMeansFiles PROVE BaseFlagMeansFiles'
<1>1. Becomes(install_bootloader(Target)) \/ Nothing
  BY DEF BootloaderStep, core_install_bootloader, rescue_install_bootloader, apply_install_bootloader
<1>2. CASE Becomes(install_bootloader(Target))
  BY <1>2, SoundBootloader, BecomesSound
<1>3. CASE Nothing
  BY <1>3 DEF Nothing, BaseFlagMeansFiles
<1> QED BY <1>1, <1>2, <1>3

\* Partitioning, wherever it fails, leaves a file system as it is or nothing of it.
LEMMA PartitioningLeaves ==
    ASSUME NEW D, NEW bootloader, NEW R \in auto_partition(D, bootloader)
    PROVE  R = D \/ R = {}
<1>1. \A e \in erase_disk(D) : e.facts = D \/ e.facts = {}
  BY DEF erase_disk
<1>2. ASSUME NEW F, F = D \/ F = {}, NEW X \in run_sfdisk_part(F) PROVE X = D \/ X = {}
  BY <1>2 DEF run_sfdisk_part, Run
<1>3. \A X \in make_clean_partschema(D) : X = D \/ X = {}
  BY <1>1, <1>2 DEF make_clean_partschema
<1> QED BY <1>3 DEF auto_partition

\* What a quiet step may make of the file system D.
Left(D) == {D, {}, D \cup {"log"}}

\* A quiet step leaves each file system as it is, clears it, or adds the log.
LEMMA QuietLeaves == ASSUME QuietStep PROVE disk' \in Left(disk) /\ live' \in Left(live)
<1> USE ShellNothing DEF Left, Nothing
<1>1. CASE Startup
  BY <1>1 DEF Startup, main, id_system, handle_connection, wait_connection, prompt_wifi,
              show_iwctl, last_try, install_cachyos_repo, parse_config_absent, parse_config,
              parse_config_fails, init_menu
<1>2. CASE menu_advanced
  BY <1>2 DEF menu_advanced
<1>3. CASE Prep
  <2>1. \A D \in create_partitions(disk) : D = disk \/ D = {}
    <3>1. \A D \in secure_wipe(disk) : D = disk \/ D = {}
      BY DEF secure_wipe, Run
    <3>2. \A D \in tui_auto_partition(disk) : D = disk \/ D = {}
      <4>1. ASSUME NEW D \in tui_auto_partition(disk) PROVE \E b : D \in auto_partition(disk, b)
        BY <4>1 DEF tui_auto_partition
      <4> QED BY <4>1, PartitioningLeaves
    <3> QED BY <3>1, <3>2 DEF create_partitions
  <2> QED BY <1>3, <2>1 DEF Prep, prep_partition_disk, prep_mount_partitions, prep_devices,
              prep_refresh_keys, prep_menu, show_devices, set_cache, set_fsck_hook,
              configure_mirrorlist, edit_pacman_conf, Stay
<1>4. CASE core_config_base \/ core_tweaks \/ core_edit_configs \/ core_chroot \/ core_back
  BY <1>4 DEF core_config_base, core_tweaks, core_edit_configs, edit_configs, core_chroot, core_back
<1>5. CASE rescue_edit_configs \/ rescue_chroot \/ rescue_logs \/ logs_menu \/ rescue_back
  BY <1>5 DEF rescue_edit_configs, edit_configs, rescue_chroot, rescue_logs, logs_menu,
              rescue_back
<1>6. CASE gather_user_selections \/ apply_mounts
  BY <1>6, PartitioningLeaves DEF gather_user_selections, apply_mounts
<1>7. CASE exit_done
  <2>1. CASE UNCHANGED <<disk, live>>
    BY <2>1
  <2>2. CASE \E saved \in SUBSET {"log"} :
                IF mounted THEN disk' = disk \cup saved /\ UNCHANGED live
                           ELSE live' = live \cup saved /\ UNCHANGED disk
    <3>1. PICK saved \in SUBSET {"log"} :
                IF mounted THEN disk' = disk \cup saved /\ UNCHANGED live
                           ELSE live' = live \cup saved /\ UNCHANGED disk
      BY <2>2
    <3>2. saved = {} \/ saved = {"log"}
      OBVIOUS
    <3> QED BY <3>1, <3>2
  <2> QED BY <1>7, <2>1, <2>2 DEF exit_done
<1> QED BY <1>1, <1>2, <1>3, <1>4, <1>5, <1>6, <1>7 DEF QuietStep

\* For every order of menu entries and failures: .base_installed is never where no
\* system's directories are (utils::install_base and the rescue menu's removals).
THEOREM BaseFlagSafe == Spec => []BaseFlagMeansFiles
<1>1. Init => BaseFlagMeansFiles
  BY DEF Init, BaseFlagMeansFiles, OldSystem
<1>2. BaseFlagMeansFiles /\ [Next]_vars => BaseFlagMeansFiles'
  <2> SUFFICES ASSUME BaseFlagMeansFiles, [Next]_vars PROVE BaseFlagMeansFiles'
    OBVIOUS
  <2>1. CASE QuietStep
    BY <2>1, QuietLeaves DEF Left, BaseFlagMeansFiles
  <2>2. CASE WorkStep
    BY <2>2, WorkSound
  <2>3. CASE BootloaderStep
    BY <2>3, BootloaderSound
  <2>4. CASE UNCHANGED vars
    BY <2>4 DEF vars, BaseFlagMeansFiles
  <2> QED BY <2>1, <2>2, <2>3, <2>4, StepKinds
<1> QED BY <1>1, <1>2, PTL DEF Spec

-----------------------------------------------------------------------------
\* The closing question is asked of nothing but what is below /mnt: an empty list means
\* a base, a chroot that works, and a root password (tui::exit_done and final_check).
THEOREM ChecklistCorrect == Spec => ChecklistHonest
<1>1. Next => ((at \in {"exit_done", "simple_exit"} /\ checklist' = {}) =>
                  {"base_installed", "packages"} \subseteq Target /\ Target \cap RootPass # {})
  <2> SUFFICES ASSUME Next, at \in {"exit_done", "simple_exit"}, checklist' = {}
               PROVE  {"base_installed", "packages"} \subseteq Target /\ Target \cap RootPass # {}
    OBVIOUS
  <2>1. {} \in final_check(Target)
    <3>1. CASE exit_done
      BY <3>1 DEF exit_done
    <3>2. CASE Startup \/ menu_advanced \/ Prep
      BY <3>2 DEF Startup, main, id_system, handle_connection, wait_connection, prompt_wifi,
                  show_iwctl, last_try, install_cachyos_repo, parse_config_absent, parse_config,
                  parse_config_fails, init_menu, menu_advanced, Prep, prep_partition_disk,
                  prep_mount_partitions, prep_devices, prep_refresh_keys, prep_menu,
                  show_devices, set_cache, set_fsck_hook, configure_mirrorlist,
                  edit_pacman_conf, Stay, Nothing
    <3>3. CASE Core \/ Rescue \/ Simple
      BY <3>3 DEF Core, core_install_base, core_install_desktop, core_install_bootloader,
                  core_config_base, core_install_cust_pkgs, core_tweaks, core_edit_configs,
                  edit_configs, core_chroot, core_back, config_base_menu,
                  Rescue, rescue_drivers, rescue_install_bootloader, rescue_install_cust_pkgs,
                  rescue_remove_pkgs, rescue_edit_configs, rescue_chroot, rescue_logs, logs_menu,
                  rescue_back, Simple, gather_user_selections, apply_mounts, apply_settings,
                  apply_root_password, apply_user, apply_install_base, apply_install_desktop,
                  apply_install_bootloader
    <3> QED BY <3>1, <3>2, <3>3 DEF Next
  <2> QED BY <2>1 DEF final_check
<1>2. [Next]_vars => [(at \in {"exit_done", "simple_exit"} /\ checklist' = {}) =>
                          {"base_installed", "packages"} \subseteq Target
                            /\ Target \cap RootPass # {}]_vars
  BY <1>1
<1> QED BY <1>2, PTL DEF Spec, ChecklistHonest
=============================================================================
