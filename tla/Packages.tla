------------------------------ MODULE Packages ------------------------------
(****************************************************************************)
(* The package lists computed from the net profiles, and what is installed  *)
(* from them: kernels and base, desktops with their display manager, and    *)
(* drivers.  A list is a set, as pacstrap does not mind the order.  The     *)
(* hooks and the initramfs of install_base are in InstallBase, the checks   *)
(* of the menus in Installer.                                               *)
(****************************************************************************)
EXTENDS Naturals, FiniteSets

CONSTANTS
    Kernels, Cachy,         \* the kernels offered; those named linux-cachyos...
    Desktops, Wayland,      \* the desktops offered; those that need no xorg
    DisplayManagers, Rank,  \* in the order in which enable_services asks for them
    ManagerOf,              \* the display manager a desktop's profile brings, or Nothing
    DriverProfiles, Fitting,    \* what chwd lists; what it lists for this machine
    Nothing,
    MaxEntries              \* bound: menu entries chosen

ASSUME PackagesAssumption ==
    /\ Cachy \subseteq Kernels /\ Wayland \subseteq Desktops
    /\ Rank \in [DisplayManagers -> Nat]
    /\ \A a, b \in DisplayManagers : Rank[a] = Rank[b] => a = b
    /\ ManagerOf \in [Desktops -> DisplayManagers \cup {Nothing}]
    /\ Nothing \notin DisplayManagers /\ MaxEntries \in Nat

VARIABLES
    root_fs, server_mode,   \* get_mountpoint_fs(/mnt), Config SERVER_MODE
    urls,                   \* which of the two addresses Config has
    at, entries,
    installed,              \* the packages on the target
    base_installed,         \* /mnt/.base_installed
    DE,                     \* Config entry
    display_manager,        \* the display-manager.service alias
    drivers, video_installed,   \* profiles chwd installed; /mnt/.video_installed
    fetched                 \* the addresses' answers to the last fetch, and if it gave a list

target == <<installed, base_installed, DE, display_manager, drivers, video_installed>>
package_vars == <<root_fs, server_mode, urls, at, entries, target, fetched>>

\* Packages, by what they are for.
Pkg(kind, name) == [kind |-> kind, name |-> name]
PackageSet ==
    [kind : {"kernel", "headers", "zfs"}, name : Kernels]
        \cup [kind : {"desktop"}, name : Desktops] \cup [kind : {"dm"}, name : DisplayManagers]
        \cup [kind : {"base"}, name : {"base", "desktop", "snapper", "zfs-utils",
                                       "bcachefs-tools", "xorg"}]
Garbled == Pkg("garbled", Nothing)

Addresses == {"url", "fallback"}

\* What an address answers: nothing (or an error), something that is no TOML,
\* TOML without the tables asked for, or the profiles.
Answers == {"none", "malformed", "lacking", "good"}

PackagesTypeOK ==
    /\ root_fs \in {"ext4", "btrfs", "zfs", "bcachefs"} /\ server_mode \in BOOLEAN
    /\ urls \subseteq Addresses /\ at \in {"menu", "terminated"} /\ entries \in 0..MaxEntries
    /\ installed \subseteq PackageSet /\ base_installed \in BOOLEAN
    /\ DE \in Desktops \cup {Nothing} /\ display_manager \in DisplayManagers \cup {Nothing}
    /\ drivers \subseteq DriverProfiles \cup Fitting /\ video_installed \in BOOLEAN
    /\ fetched \in [answers : [Addresses -> Answers], list : BOOLEAN]

PackagesInit ==
    /\ root_fs \in {"ext4", "btrfs", "zfs", "bcachefs"} /\ server_mode \in BOOLEAN
    /\ urls \in SUBSET Addresses /\ at = "menu" /\ entries = 0
    /\ installed = {} /\ base_installed = FALSE /\ DE = Nothing /\ display_manager = Nothing
    /\ drivers = {} /\ video_installed = FALSE
    /\ fetched = [answers |-> [a \in Addresses |-> "none"], list |-> FALSE]

Choose == at = "menu" /\ entries < MaxEntries /\ entries' = entries + 1

------------------------------------------------------------------------------
(* Fetching and parsing.                                                    *)

\* The second address is only asked if the first gave nothing at all.
fetch_file_from_url(answers) ==
    IF answers["url"] # "none" THEN answers["url"] ELSE answers["fallback"]

\* An address that Config does not have answers nothing.
AnswersOf(given) == {a \in [Addresses -> Answers] : \A u \in Addresses \ given : a[u] = "none"}

\* There is a list from the profiles: nullopt without addresses, content or valid TOML; a
\* table that is not there is a null pointer dereferenced.
FromProfiles(answers) ==
    LET content == fetch_file_from_url(answers) IN
    /\ fetched' = [answers |-> answers, list |-> content = "good"]
    /\ at' = IF content = "lacking" THEN "terminated" ELSE at

\* Mutant: the loop stops one kernel short.
PerKernel_but_last(kernels, zfs) ==
    LET done == IF Cardinality(kernels) < 2 THEN kernels ELSE kernels \ {CHOOSE k \in kernels : TRUE}
    IN  {Pkg("kernel", k) : k \in kernels} \cup {Pkg("headers", k) : k \in done}

\* Each kernel, its headers and, on ZFS, its module.  The name of the module is
\* formatted from a reference that the emplace_back before it may have made
\* dangling: it is then garbled, or does not start with linux-cachyos.
PerKernel(kernels, zfs) ==
    {Pkg("kernel", k) : k \in kernels} \cup {Pkg("headers", k) : k \in kernels} \cup zfs

ZfsOutcomes(kernels) ==
    IF root_fs # "zfs" THEN {{}}
    ELSE {{Pkg("zfs", k) : k \in ks} : ks \in SUBSET (kernels \cap Cachy)} \cup {{Garbled}}

\* The profiles that were parsed; xorg is listed with the desktops, as a profile of its own.
NetProfiles ==
    [base_packages |-> {Pkg("base", "base")}, base_desktop_packages |-> {Pkg("base", "desktop")},
     desktop_profiles |-> [d \in Desktops |->
        {Pkg("desktop", d)} \cup {Pkg("dm", m) : m \in {ManagerOf[d]} \ {Nothing}}],
     xorg |-> {Pkg("base", "xorg")}]

get_pkglist_base(kernels, zfs) ==
    PerKernel(kernels, zfs)
        \cup (IF root_fs = "zfs" THEN {Pkg("base", "zfs-utils")} ELSE {})
        \cup (IF root_fs = "bcachefs" THEN {Pkg("base", "bcachefs-tools")} ELSE {})
        \cup (IF root_fs = "btrfs" /\ ~server_mode THEN {Pkg("base", "snapper")} ELSE {})
        \cup (IF server_mode THEN {} ELSE NetProfiles.base_desktop_packages)
        \cup NetProfiles.base_packages

\* The packages of the desktop's profile and, unless it is for Wayland, of xorg's.
get_pkglist_desktop(d) ==
    NetProfiles.desktop_profiles[d] \cup (IF d \in Wayland THEN {} ELSE NetProfiles.xorg)

\* pacstrap: all of the list or nothing; a name that is no package fails it.
install_from_pkglist(list) ==
    installed' \in {installed} \cup IF Garbled \in list THEN {} ELSE {installed \cup list}

------------------------------------------------------------------------------
(* Base, desktop, drivers.                                                  *)

\* chwd -a -f: every profile for this machine, unless it fails.
install_available_profiles == drivers' \in {drivers, drivers \cup Fitting}

\* tui::install_base asks before a second installation and removes the mark;
\* utils::install_base marks the base and runs chwd whatever pacstrap did.
install_base ==
    /\ Choose
    /\ \E kernels \in SUBSET Kernels \ {{}}, answers \in AnswersOf(urls) :
       \E zfs \in ZfsOutcomes(kernels) :
          /\ FromProfiles(answers)
          /\ IF fetched'.list
             THEN /\ install_from_pkglist(get_pkglist_base(kernels, zfs))
                  /\ install_available_profiles /\ base_installed' = TRUE
             ELSE UNCHANGED <<installed, drivers>> /\ base_installed' = FALSE
    /\ UNCHANGED <<root_fs, server_mode, urls, DE, display_manager, video_installed>>

\* Mutant: the last of the display managers is enabled when none is installed.
enable_services_unchecked(packages) ==
    display_manager' = IF display_manager # Nothing THEN display_manager
                       ELSE CHOOSE m \in DisplayManagers :
                                \A n \in DisplayManagers : Rank[m] >= Rank[n]

\* The first display manager that pacman -Qq knows is enabled, which may fail,
\* and does when another one has the alias.
enable_services(packages) ==
    LET there == {m \in DisplayManagers : Pkg("dm", m) \in packages}
        first == {m \in there : \A n \in there : Rank[m] <= Rank[n]}
    IN  display_manager' \in {display_manager} \cup
            IF display_manager = Nothing THEN first ELSE {}

\* DE is set, and the services are enabled, whatever pacstrap did.
install_desktop ==
    /\ Choose
    /\ \E d \in Desktops, answers \in AnswersOf(urls) :
          /\ FromProfiles(answers)
          /\ IF fetched'.list
             THEN /\ install_from_pkglist(get_pkglist_desktop(d))
                  /\ DE' = d /\ enable_services(installed')
             ELSE UNCHANGED <<installed, DE, display_manager>>
    /\ UNCHANGED <<root_fs, server_mode, urls, base_installed, drivers, video_installed>>

\* "Auto-install drivers" marks what worked.
auto_install_drivers ==
    /\ Choose
    /\ install_available_profiles
    /\ video_installed' \in {video_installed, TRUE}
    /\ video_installed' # video_installed => drivers' = drivers \cup Fitting
    /\ UNCHANGED <<root_fs, server_mode, urls, at, installed, base_installed, DE, display_manager,
                   fetched>>

get_all_profile_names == DriverProfiles
\* Of all profiles those that chwd lists for the machine.
get_available_profile_names ==
    IF get_all_profile_names = {} THEN {} ELSE {p \in get_all_profile_names : p \in Fitting}

\* "Select Display Driver" offers them, if any, and marks it in any case.
setup_graphics_card ==
    /\ Choose
    /\ \E driver \in get_available_profile_names : drivers' \in {drivers, drivers \cup {driver}}
    /\ video_installed' = TRUE
    /\ UNCHANGED <<root_fs, server_mode, urls, at, installed, base_installed, DE, display_manager,
                   fetched>>

install_graphics_menu == auto_install_drivers \/ setup_graphics_card
install_drivers_menu == install_graphics_menu

PackagesNext == install_base \/ install_desktop \/ install_drivers_menu

PackagesSpec == PackagesInit /\ [][PackagesNext]_package_vars

------------------------------------------------------------------------------
(* What should hold.                                                        *)

\* Every kernel on the target has its headers, which the drivers' modules are
\* built from, and a target on ZFS or bcachefs with a kernel has the tools.
KernelKit ==
    \A k \in Kernels : Pkg("kernel", k) \in installed =>
        /\ Pkg("headers", k) \in installed
        /\ root_fs = "zfs" => Pkg("base", "zfs-utils") \in installed
        /\ root_fs = "bcachefs" => Pkg("base", "bcachefs-tools") \in installed

\* A desktop that needs xorg never gets onto the target without it, whichever
\* desktops were tried before.
XorgComplete ==
    \A d \in Desktops \ Wayland : Pkg("desktop", d) \in installed => Pkg("base", "xorg") \in installed

\* The display manager that starts is an installed one, although the services
\* are enabled after a failed installation, too.
DisplayManagerInstalled ==
    display_manager # Nothing => Pkg("dm", display_manager) \in installed

\* If the first address is down the second one is enough.
FallbackUsed ==
    (fetched.answers["url"] = "none" /\ fetched.answers["fallback"] = "good") => fetched.list
==============================================================================
