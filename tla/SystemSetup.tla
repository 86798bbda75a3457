----------------------------- MODULE SystemSetup -----------------------------
(****************************************************************************)
(* "Configure base" and the settings of the simple and headless modes: host *)
(* name, locale, keyboard, time, accounts and automatic login, as files of  *)
(* the target and commands in its chroot.  Every one of them may fail, and  *)
(* does as long as nothing was installed: the menu checks for a base first, *)
(* apply_user_selections makes the settings before it installs one.  An     *)
(* action is the function of tui.cpp, which asks; the function of utils.cpp *)
(* behind it logs what the function of the library returns.                 *)
(****************************************************************************)
EXTENDS Naturals, Sequences, FiniteSets, SequencesExt

CONSTANTS
    Hosts, Locales, Layouts, Zones, Passwords,
    Extensions,     \* locale -> the locales whose names start with its name
    Users, Shells, Configured,  \* the shells; those that have a package of settings
    Groups,         \* default_user_groups, in order; the first is for sudoers
    Managers,       \* display managers
    Commented,      \* those whose stock file has the user's line commented out
    None,
    MaxCalls        \* bound: settings made

ASSUME SystemSetupAssumption ==
    /\ Extensions \in [Locales -> SUBSET Locales]
    /\ \A l \in Locales : l \in Extensions[l]
    /\ Configured \subseteq Shells /\ Commented \subseteq Managers
    /\ Groups \in Seq(STRING) /\ Groups # <<>>
    /\ \A s \in {Hosts, Locales, Layouts, Zones, Passwords, Users, Shells} : None \notin s
    /\ IsFiniteSet(Users) /\ "*" \notin Users /\ MaxCalls \in Nat

VARIABLES
    etc,            \* something was installed below the mount point
    dm,             \* the display manager that is enabled
    calls,
    fstab,          \* "none", "broken" (truncated by a failed genfstab) or "written"
    hostname, hosts,                    \* the name in /etc/hostname, in /etc/hosts
    locale_conf, locale_gen, generated, \* LANG; lines not commented out; locales there
    KEYMAP, console, xkbmap,            \* Config entry; loaded; XkbLayout
    localtime, clock,                   \* target of the link; utc or localtime
    shell_config,   \* shells whose settings are installed
    groups, users, sudoers, root_pass,
    autologin,      \* display manager -> the text after "user=", as names
    failed          \* the settings whose last call logged an error

files == <<fstab, hostname, hosts, locale_conf, locale_gen, generated, xkbmap, localtime, clock>>
accounts == <<shell_config, groups, users, sudoers, root_pass>>
vars == <<etc, dm, calls, files, KEYMAP, console, accounts, autologin, failed>>

Settings == {"fstab", "hostname", "locale", "clock", "root", "user", "autologin"}

\* openssl that fails leaves an empty hash, which usermod -p takes.
Empty == "empty"
Star == "*"         \* what the shell leaves of /mnt/home/* without a home

Account == [shell : Shells \cup {None}, groups : SUBSET ToSet(Groups),
            pass : Passwords \cup {Empty, None}]

ASSUME NoneAssumption == None \notin Account /\ None # Empty

TypeOK ==
    /\ etc \in BOOLEAN /\ dm \in Managers /\ calls \in 0..MaxCalls
    /\ fstab \in {"none", "broken", "written"}
    /\ hostname \in Hosts \cup {None} /\ hosts \in Hosts \cup {None}
    /\ locale_conf \in Locales \cup {None}
    /\ locale_gen \subseteq Locales /\ generated \subseteq locale_gen
    /\ KEYMAP \in Layouts /\ console \in Layouts \cup {None} /\ xkbmap \in Layouts \cup {None}
    /\ localtime \in Zones \cup {None} /\ clock \in {"utc", "localtime", None}
    /\ shell_config \subseteq Configured /\ groups \subseteq ToSet(Groups)
    /\ users \in [Users -> Account \cup {None}]
    /\ sudoers \in {"none", "0644", "0440"} /\ root_pass \in Passwords \cup {Empty, None}
    /\ autologin \in [Managers -> Seq(Users \cup {Star})] /\ failed \subseteq Settings

Init ==
    /\ etc \in BOOLEAN /\ dm \in Managers /\ calls = 0
    /\ fstab = "none" /\ hostname = None /\ hosts = None
    /\ locale_conf = None /\ locale_gen = {} /\ generated = {}
    /\ KEYMAP \in Layouts /\ console = None /\ xkbmap = None
    /\ localtime = None /\ clock = None
    /\ shell_config = {} /\ groups = {} /\ users = [u \in Users |-> None]
    /\ sudoers = "none" /\ root_pass = None
    /\ autologin = [m \in Managers |-> <<>>] /\ failed = {}

Call == calls < MaxCalls /\ calls' = calls + 1 /\ UNCHANGED dm

\* How many of n steps in a row, each of which ends the function on failure, are done.
Progress(there, n) == 0..(IF there THEN n ELSE 0)

\* The status of a command the user sees, otherwise what it printed.
exec(interactive, status, printed) == IF interactive THEN status ELSE printed
exec_checked(status) == exec(TRUE, status, {}) = 0

\* A command on the target works only where there is something.
Worked(ok) == \E status \in {0, 1} : ok = exec_checked(status) /\ (status = 0 => etc)

\* The whole file, if it can be opened.
create_file_for_overwrite(opened, data, old) == IF opened THEN data ELSE old

Logged(setting, ok) == failed' = IF ok THEN failed \ {setting} ELSE failed \cup {setting}

\* pacstrap of the base, in InstallBase and Packages: even a failed one has made
\* the directories.
utils_install_base ==
    /\ Call /\ etc' = TRUE
    /\ UNCHANGED <<files, KEYMAP, console, accounts, autologin, failed>>

------------------------------------------------------------------------------
(* Files.                                                                   *)

\* genfstab -U -p /mnt > /mnt/etc/fstab: the shell truncates the file first.  The
\* edits for the swap file and the subvolumes follow a genfstab that worked.
run_genfstab_on_mount(ok) == fstab' = IF ok THEN "written" ELSE IF etc THEN "broken" ELSE fstab

utils_generate_fstab ==
    \E ok \in BOOLEAN : Worked(ok) /\ run_genfstab_on_mount(ok) /\ Logged("fstab", ok)

generate_fstab ==
    /\ Call /\ utils_generate_fstab
    /\ UNCHANGED <<etc, hostname, hosts, locale_conf, locale_gen, generated, xkbmap, localtime,
                   clock, KEYMAP, console, accounts, autologin>>

\* The standard hosts and the given one, over the file that was there.
set_hosts(h) == h

\* /etc/hostname, then /etc/hosts.
user_set_hostname(h, done) ==
    /\ hostname' = create_file_for_overwrite(done > 0, h, hostname)
    /\ hosts' = create_file_for_overwrite(done > 1, set_hosts(h), hosts)

utils_set_hostname(h) ==
    \E done \in Progress(etc, 2) : user_set_hostname(h, done) /\ Logged("hostname", done = 2)

set_hostname ==
    /\ Call /\ \E h \in Hosts : utils_set_hostname(h)
    /\ UNCHANGED <<etc, fstab, locale_conf, locale_gen, generated, xkbmap, localtime, clock, KEYMAP,
                   console, accounts, autologin>>

\* Mutant: the line is searched with its name in full, as "#name UTF-8" of the list
\* shown, not as it is in the file.
Uncomment_none(l) == {}

\* sed s/#name/name/: every line that starts with the name.
Uncomment(l) == Extensions[l]

\* locale.conf, and a sed nobody checks.
prepare_locale_set(l, done, sed) ==
    /\ locale_conf' = create_file_for_overwrite(done > 0, l, locale_conf)
    /\ locale_gen' = IF done > 0 /\ sed THEN locale_gen \cup Uncomment(l) ELSE locale_gen

\* sed only fails where there is no locale.gen, and locale-gen fails there, too; one
\* that fails may have generated some of its lines.
locale_set_locale(l, done) ==
    \E sed \in BOOLEAN :
        /\ done = 2 => sed
        /\ prepare_locale_set(l, done, sed)
        /\ generated' \in IF done = 2 THEN {locale_gen'}
                          ELSE IF done = 1 THEN SUBSET locale_gen' ELSE {generated}

utils_set_locale(l) ==
    \E done \in Progress(etc, 2) : locale_set_locale(l, done) /\ Logged("locale", done = 2)

\* What locale.gen of the live system lists.
get_possible_locales == exec(FALSE, 0, Locales)

set_locale ==
    /\ Call /\ \E l \in get_possible_locales : utils_set_locale(l)
    /\ UNCHANGED <<etc, fstab, hostname, hosts, xkbmap, localtime, clock, KEYMAP, console, accounts,
                   autologin>>

\* echo into a directory that is there once xorg is.
utils_set_xkbmap(x) == xkbmap' \in {xkbmap} \cup IF etc THEN {x} ELSE {}

set_xkbmap ==
    /\ Call /\ \E x \in Layouts : utils_set_xkbmap(x)
    /\ UNCHANGED <<etc, fstab, hostname, hosts, locale_conf, locale_gen, generated, localtime, clock,
                   KEYMAP, console, accounts, autologin, failed>>

\* loadkeys of the Config entry.
set_keymap == console' \in {console, KEYMAP'}

\* "Yes" to the question with the current keymap asks for another one; the keymap is
\* loaded on the live system in either case.
select_keymap ==
    /\ Call /\ KEYMAP' \in Layouts /\ set_keymap
    /\ UNCHANGED <<etc, files, accounts, autologin, failed>>

\* The link is made by a command whose result is dropped.
set_timezone(z) == localtime' \in {localtime} \cup IF etc THEN {z} ELSE {}

\* utc has a second try with direct ISA access.
set_hwclock(type, first, second) == first \/ (type = "utc" /\ second)

utils_set_hw_clock(type) ==
    \E first, second \in BOOLEAN :
        LET ok == set_hwclock(type, first, second) IN
        Worked(ok) /\ clock' = (IF ok THEN type ELSE clock) /\ Logged("clock", ok)

\* Its menu may be left without a choice.
set_hw_clock ==
    \/ \E type \in {"utc", "localtime"} : utils_set_hw_clock(type)
    \/ UNCHANGED <<clock, failed>>

\* "Set Timezone and Clock": a time zone that is not confirmed closes the menu.
set_timezone_and_clock ==
    /\ Call
    /\ \E z \in Zones : set_timezone(z)
    /\ set_hw_clock
    /\ UNCHANGED <<etc, fstab, hostname, hosts, locale_conf, locale_gen, generated, xkbmap, KEYMAP,
                   console, accounts, autologin>>

------------------------------------------------------------------------------
(* Accounts.                                                                *)

\* The hash usermod is given.
set_user_password(p) == {p, Empty}
user_set_root_password(p) == set_user_password(p)

utils_set_root_password(p) ==
    \E ok \in BOOLEAN : Worked(ok) /\ Logged("root", ok)
        /\ root_pass' \in IF ok THEN user_set_root_password(p) ELSE {root_pass}

\* After unequal entries the dialogue runs again and then sets the first entry all
\* the same: any password typed may be the one that is left.
set_root_password ==
    /\ Call /\ \E p \in Passwords : utils_set_root_password(p)
    /\ UNCHANGED <<etc, files, KEYMAP, console, shell_config, groups, users, sudoers, autologin>>

\* groupadd --force for the first n of the groups.
create_group(n) == groups \cup {Groups[i] : i \in 1..n}

\* The account after useradd -m -U, usermod -aG, chown of the home and usermod -p,
\* as many of them as are done.
useradd(shell, pass, done) ==
    [shell |-> shell, groups |-> IF done > 1 THEN ToSet(Groups) ELSE {},
     pass |-> IF done > 3 THEN pass ELSE None]

\* Mutant: a useradd that fails is not an error.
Stages_goes_on(u) == Progress(etc', Len(Groups) + 6)

\* The groups, useradd, usermod -aG, chown, usermod -p, the sudoers file, its mode.
\* useradd fails for a name that is there.
Stages(u) == Progress(etc', IF users[u] = None THEN Len(Groups) + 6 ELSE Len(Groups))

\* /etc/sudoers.d/10-installer; overwriting the file keeps its mode.
sudo_rule(done) ==
    IF done = Len(Groups) + 6 THEN "0440"
    ELSE IF done = Len(Groups) + 5 /\ sudoers = "none" THEN "0644" ELSE sudoers

UserInfo(u, shell, pass) ==
    [username |-> u, password |-> pass, shell |-> shell, sudoers_group |-> Head(Groups)]

user_create_new_user(info, done) ==
    /\ groups' = create_group(IF done < Len(Groups) THEN done ELSE Len(Groups))
    /\ users' = IF done <= Len(Groups) THEN users
                ELSE [users EXCEPT ![info.username] =
                        useradd(info.shell, info.password, done - Len(Groups))]
    /\ sudoers' = sudo_rule(done)

\* pacstrap of the shell's settings, whose failure is only logged, then the user.
utils_create_new_user(u, shell, p) ==
    /\ etc' = (etc \/ shell \in Configured)
    /\ shell_config' \in {shell_config, shell_config \cup ({shell} \cap Configured)}
    /\ \E done \in Stages(u), pass \in set_user_password(p) :
          /\ user_create_new_user(UserInfo(u, shell, pass), done)
          /\ Logged("user", done = Len(Groups) + 6)

create_new_user ==
    /\ Call
    /\ \E u \in Users, shell \in Shells, p \in Passwords : utils_create_new_user(u, shell, p)
    /\ UNCHANGED <<files, KEYMAP, console, root_pass, autologin>>

------------------------------------------------------------------------------
(* Automatic login.                                                         *)

\* The directories below /mnt/home.
Homes == {u \in Users : users[u] # None}

\* Mutant: one of several homes is good enough.
AutologinUser_any == IF Homes = {} THEN {Star} ELSE Homes

\* Without a home the pattern itself is the only word; with several, nothing is done.
AutologinUser == IF Homes = {} THEN {Star} ELSE IF Cardinality(Homes) = 1 THEN Homes ELSE {}

\* A line that is commented out is found once; the others get the name in front of
\* what they have.
autologin_text(name) ==
    IF dm \in Commented /\ autologin[dm] # <<>> THEN autologin[dm] ELSE <<name>> \o autologin[dm]

\* The seds are not checked.  The groupadd of lightdm is run as "--systemautologin" and
\* fails, so no user is added to the group, and that is the only error there is.
user_enable_autologin(name, sed) ==
    autologin' = IF sed THEN [autologin EXCEPT ![dm] = autologin_text(name)] ELSE autologin

utils_enable_autologin(name) ==
    \E sed \in BOOLEAN :
        Worked(sed) /\ user_enable_autologin(name, sed) /\ Logged("autologin", dm # "lightdm")

enable_autologin ==
    /\ Call /\ \E name \in AutologinUser : utils_enable_autologin(name)
    /\ UNCHANGED <<etc, files, KEYMAP, console, accounts>>

Next ==
    \/ utils_install_base \/ generate_fstab \/ set_hostname \/ set_locale \/ set_xkbmap
    \/ select_keymap \/ set_timezone_and_clock \/ set_root_password \/ create_new_user
    \/ enable_autologin

Spec == Init /\ [][Next]_vars

------------------------------------------------------------------------------
(* What should hold.                                                        *)

\* The host name and the table of hosts disagree only after a call that failed half
\* way, and a later one that works repairs it.
HostsAgree == "hostname" \notin failed => hosts = hostname

\* The locale of locale.conf was generated unless the last call failed, whatever was
\* chosen, generated half way and uncommented before.
LocaleGenerated ==
    ("locale" \notin failed /\ locale_conf # None) => locale_conf \in generated

\* An account that can log in has all of its groups, wherever its creation stopped.
UserStages == \A u \in Homes : users[u].pass # None => users[u].groups = ToSet(Groups)

\* The rule for sudo is there only with an account it is for, one with a password.
SudoHasUser ==
    sudoers # "none" => \E u \in Homes : Head(Groups) \in users[u].groups /\ users[u].pass # None

\* Entering the name of an account again never changes its password, shell or groups.
AccountKept == [][\A u \in Homes : users'[u] = users[u]]_vars

\* The users that automatic login is for.
LoginNames == {u \in Users : \E m \in Managers : u \in ToSet(autologin[m])}

\* Automatic login is for one account at most, over all display managers and calls;
\* lightdm's and lxdm's line has one name.
AutologinOneUser ==
    /\ Cardinality(LoginNames) <= 1
    /\ \A m \in Commented : Len(autologin[m]) <= 1
==============================================================================
