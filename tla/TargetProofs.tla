----------------------------- MODULE TargetProofs -----------------------------
(****************************************************************************)
(* What the menus do to the target, first the settings and accounts of      *)
(* SystemSetup, then the packages of Packages: its type correctness, and    *)
(* that its lists keep together on the target what belongs together, for    *)
(* any kernels, desktops, display managers and answers of the two addresses.*)
(* Last where the packages come from: PacmanRepos, for every CPU and any    *)
(* number of starts, failures and stops.  As long as writes succeed, the    *)
(* configuration in effect keeps the distribution's repositories, the order *)
(* of the repositories, and only grows by what the CPU supports, one        *)
(* repository at a time.                                                    *)
(****************************************************************************)
EXTENDS SystemSetup, Packages, PacmanRepos, FiniteSetTheorems, TLAPS

\* A name other than "*" that automatic login is set to has a home, and there is
\* only one such name: it was the only home then, and homes are never removed.
LoginInv ==
    /\ autologin \in [Managers -> Seq(Users \cup {Star})]
    /\ LoginNames \subseteq Homes /\ \A a, b \in LoginNames : a = b
    /\ \A m \in Commented : Len(autologin[m]) <= 1

\* What the accounts are proved from: users is a function on Users, and what is
\* there is a record or None.
AccountInv ==
    /\ users \in [Users -> Account \cup {None}] /\ dm \in Managers
    /\ UserStages /\ SudoHasUser

\* What the locale is proved from: the types of its two files.
LocaleInv == locale_gen \subseteq Locales /\ locale_conf \in Locales \cup {None} /\ LocaleGenerated

------------------------------------------------------------------------------
(* Host name and locale.                                                    *)

\* A success of one setting says nothing of another.
LEMMA OtherLogged ==
    ASSUME NEW s, NEW t, s # t, NEW ok, Logged(t, ok)
    PROVE  s \in failed' <=> s \in failed
BY DEF Logged

LEMMA OwnLogged ==
    ASSUME NEW s, NEW ok \in BOOLEAN, Logged(s, ok)
    PROVE  s \in failed' <=> ~ok
BY DEF Logged

\* The host name is that of the host table after every call that worked.
THEOREM HostnameInHosts == Spec => []HostsAgree
<1>1. Init => HostsAgree
  BY DEF Init, HostsAgree
<1>2. ASSUME HostsAgree, [Next]_vars PROVE HostsAgree'
  <2>1. ASSUME set_hostname PROVE HostsAgree'
    <3>1. PICK h \in Hosts, done \in Progress(etc, 2) :
            /\ hostname' = IF done > 0 THEN h ELSE hostname
            /\ hosts' = IF done > 1 THEN set_hosts(h) ELSE hosts
            /\ Logged("hostname", done = 2)
      BY <2>1 DEF set_hostname, utils_set_hostname, user_set_hostname, create_file_for_overwrite
    <3>2. "hostname" \in failed' <=> done # 2
      BY <3>1, OwnLogged
    <3>3. done = 2 => hosts' = hostname'
      BY <3>1 DEF set_hosts
    <3> QED BY <3>2, <3>3 DEF HostsAgree
  <2>2. ASSUME UNCHANGED <<hostname, hosts>>, "hostname" \in failed' <=> "hostname" \in failed
        PROVE  HostsAgree'
    BY <1>2, <2>2 DEF HostsAgree
  <2>3. ASSUME NEW t, t # "hostname", NEW ok, Logged(t, ok), UNCHANGED <<hostname, hosts>>
        PROVE  HostsAgree'
    BY <2>2, <2>3, OtherLogged
  <2>4. generate_fstab \/ set_locale \/ set_root_password \/ create_new_user \/ enable_autologin
          => HostsAgree'
    BY <2>3 DEF generate_fstab, set_locale, set_root_password, create_new_user, enable_autologin,
                files, utils_generate_fstab, utils_set_locale, utils_set_root_password,
                utils_create_new_user, utils_enable_autologin
  <2>5. set_timezone_and_clock => HostsAgree'
    BY <2>2, <2>3 DEF set_timezone_and_clock, set_hw_clock, utils_set_hw_clock
  <2>6. utils_install_base \/ set_xkbmap \/ select_keymap \/ UNCHANGED vars => HostsAgree'
    BY <2>2 DEF utils_install_base, set_xkbmap, select_keymap, vars, files
  <2> QED BY <1>2, <2>1, <2>4, <2>5, <2>6 DEF Next
<1> QED BY <1>1, <1>2, PTL DEF Spec

\* The locale that locale.conf names is generated after every call that worked.
THEOREM LocaleIsGenerated == Spec => []LocaleGenerated
<1>1. Init => LocaleInv
  BY DEF Init, LocaleInv, LocaleGenerated
<1>2. ASSUME LocaleInv, [Next]_vars PROVE LocaleInv'
  <2>1. ASSUME set_locale PROVE LocaleInv'
    <3>1. PICK l \in Locales, done \in Progress(etc, 2), sed \in BOOLEAN :
            /\ done = 2 => sed
            /\ locale_conf' = IF done > 0 THEN l ELSE locale_conf
            /\ locale_gen' = IF done > 0 /\ sed THEN locale_gen \cup Uncomment(l) ELSE locale_gen
            /\ generated' \in IF done = 2 THEN {locale_gen'}
                              ELSE IF done = 1 THEN SUBSET locale_gen' ELSE {generated}
            /\ Logged("locale", done = 2)
      BY <2>1 DEF set_locale, utils_set_locale, locale_set_locale, prepare_locale_set,
                  get_possible_locales, exec, create_file_for_overwrite
    <3>2. Uncomment(l) \subseteq Locales /\ l \in Uncomment(l)
      BY SystemSetupAssumption DEF Uncomment
    <3>3. "locale" \in failed' <=> done # 2
      BY <3>1, OwnLogged
    <3>4. done = 2 => locale_conf' = l /\ l \in generated'
      BY <3>1, <3>2
    <3>5. locale_gen' \subseteq Locales /\ locale_conf' \in Locales \cup {None}
      BY <1>2, <3>1, <3>2 DEF LocaleInv
    <3> QED BY <3>3, <3>4, <3>5 DEF LocaleInv, LocaleGenerated
  <2>2. ASSUME UNCHANGED <<locale_conf, locale_gen, generated>>,
               "locale" \in failed' <=> "locale" \in failed
        PROVE  LocaleInv'
    BY <1>2, <2>2 DEF LocaleInv, LocaleGenerated
  <2>3. ASSUME NEW t, t # "locale", NEW ok, Logged(t, ok),
               UNCHANGED <<locale_conf, locale_gen, generated>>
        PROVE  LocaleInv'
    BY <2>2, <2>3, OtherLogged
  <2>4. generate_fstab \/ set_hostname \/ set_root_password \/ create_new_user \/ enable_autologin
          => LocaleInv'
    BY <2>3 DEF generate_fstab, set_hostname, set_root_password, create_new_user, enable_autologin,
                files, utils_generate_fstab, utils_set_hostname, utils_set_root_password,
                utils_create_new_user, utils_enable_autologin
  <2>5. set_timezone_and_clock => LocaleInv'
    BY <2>2, <2>3 DEF set_timezone_and_clock, set_hw_clock, utils_set_hw_clock
  <2>6. utils_install_base \/ set_xkbmap \/ select_keymap \/ UNCHANGED vars => LocaleInv'
    BY <2>2 DEF utils_install_base, set_xkbmap, select_keymap, vars, files
  <2> QED BY <1>2, <2>1, <2>4, <2>5, <2>6 DEF Next
<1>3. LocaleInv => LocaleGenerated
  BY DEF LocaleInv
<1> QED BY <1>1, <1>2, <1>3, PTL DEF Spec

------------------------------------------------------------------------------
(* Accounts.                                                                *)

\* A creation changes no account but the new one, which has its groups if it has a
\* password; the rule for sudo is written behind that.
LEMMA Creation ==
    ASSUME users \in [Users -> Account \cup {None}], create_new_user
    PROVE  /\ users' \in [Users -> Account \cup {None}]
           /\ \A u \in Users : users[u] # None => users'[u] = users[u]
           /\ UserStages => UserStages'
           /\ sudoers' # sudoers => \E u \in Users : /\ users'[u] # None
                                                     /\ Head(Groups) \in users'[u].groups
                                                     /\ users'[u].pass # None
<1> USE SystemSetupAssumption, NoneAssumption
<1>1. PICK u \in Users, shell \in Shells, p \in Passwords :
        \E done \in Stages(u), pass \in set_user_password(p) :
          /\ users' = IF done <= Len(Groups) THEN users
                      ELSE [users EXCEPT ![u] = useradd(shell, pass, done - Len(Groups))]
          /\ sudoers' = sudo_rule(done)
  BY DEF create_new_user, utils_create_new_user, user_create_new_user, UserInfo
<1>2. PICK done \in Stages(u), pass \in set_user_password(p) :
          /\ users' = IF done <= Len(Groups) THEN users
                      ELSE [users EXCEPT ![u] = useradd(shell, pass, done - Len(Groups))]
          /\ sudoers' = sudo_rule(done)
  BY <1>1
<1>3. Len(Groups) \in Nat /\ Head(Groups) \in ToSet(Groups)
  BY DEF ToSet
<1>4. done \in Nat /\ (users[u] # None => done <= Len(Groups))
  BY <1>3 DEF Stages, Progress
<1>5. CASE done <= Len(Groups)
  <2>1. users' = users /\ sudoers' = sudoers
    BY <1>2, <1>3, <1>4, <1>5 DEF sudo_rule
  <2> QED BY <2>1 DEF UserStages, Homes
<1>6. CASE done > Len(Groups)
  <2> DEFINE new == useradd(shell, pass, done - Len(Groups))
  <2>1. users[u] = None /\ users' = [users EXCEPT ![u] = new]
    BY <1>2, <1>3, <1>4, <1>6
  <2>2. pass \in Passwords \cup {Empty} /\ pass # None
    BY NoneAssumption DEF set_user_password
  <2>3. /\ new.groups = (IF done - Len(Groups) > 1 THEN ToSet(Groups) ELSE {})
        /\ new.pass = (IF done - Len(Groups) > 3 THEN pass ELSE None)
        /\ new \in Account
    BY <2>2 DEF useradd, Account
  <2> HIDE DEF new
  <2>4. users' \in [Users -> Account \cup {None}] /\ users'[u] = new
    BY <2>1, <2>3
  <2>5. \A v \in Users : v # u => users'[v] = users[v]
    BY <2>1
  <2>6. new.pass # None => new.groups = ToSet(Groups)
    BY <1>3, <1>4, <2>3
  <2>7. UserStages => UserStages'
    BY <2>4, <2>5, <2>6 DEF UserStages, Homes
  <2>8. sudoers' # sudoers => done - Len(Groups) > 3
    BY <1>2, <1>3, <1>4 DEF sudo_rule
  <2>9. sudoers' # sudoers => Head(Groups) \in new.groups /\ new.pass # None /\ new # None
    BY <1>3, <1>4, <2>2, <2>3, <2>8
  <2> QED BY <2>1, <2>4, <2>5, <2>7, <2>9
<1> QED BY <1>3, <1>4, <1>5, <1>6

\* Every other step leaves the accounts alone.
LEMMA OtherSteps ==
    ASSUME [Next]_vars, ~create_new_user
    PROVE  UNCHANGED <<users, sudoers>>
BY DEF Next, vars, accounts, utils_install_base, generate_fstab, set_hostname, set_locale, set_xkbmap,
       select_keymap, set_timezone_and_clock, set_root_password, enable_autologin

\* The accounts' invariant holds at the start and is kept.
LEMMA AccountsInit == Init => AccountInv
BY DEF Init, AccountInv, UserStages, SudoHasUser, Homes

LEMMA AccountsStep ==
    ASSUME AccountInv, [Next]_vars
    PROVE  AccountInv'
<1>1. dm' = dm
  BY DEF Next, vars, Call, utils_install_base, generate_fstab, set_hostname, set_locale, set_xkbmap,
         select_keymap, set_timezone_and_clock, set_root_password, create_new_user, enable_autologin
<1>2. CASE create_new_user
  <2>1. /\ users' \in [Users -> Account \cup {None}]
        /\ \A u \in Users : users[u] # None => users'[u] = users[u]
        /\ UserStages'
        /\ sudoers' # sudoers => \E u \in Users : /\ users'[u] # None
                                                  /\ Head(Groups) \in users'[u].groups
                                                  /\ users'[u].pass # None
    BY <1>2, Creation DEF AccountInv
  <2>2. SudoHasUser'
    <3>1. CASE sudoers' = sudoers
      BY <2>1, <3>1 DEF AccountInv, SudoHasUser, Homes
    <3>2. CASE sudoers' # sudoers
      BY <2>1, <3>2 DEF SudoHasUser, Homes
    <3> QED BY <3>1, <3>2
  <2> QED BY <1>1, <2>1, <2>2 DEF AccountInv
<1>3. CASE ~create_new_user
  <2>1. UNCHANGED <<users, sudoers>>
    BY <1>3, OtherSteps
  <2> QED BY <1>1, <2>1 DEF AccountInv, UserStages, SudoHasUser, Homes
<1> QED BY <1>2, <1>3

\* Wherever the creation of a user stops, an account with a password has its groups.
THEOREM UsersComplete == Spec => []UserStages
<1>1. AccountInv => UserStages
  BY DEF AccountInv
<1> QED BY <1>1, AccountsInit, AccountsStep, PTL DEF Spec

\* There is no rule for sudo without a user it is for.
THEOREM SudoForUser == Spec => []SudoHasUser
<1>1. AccountInv => SudoHasUser
  BY DEF AccountInv
<1> QED BY <1>1, AccountsInit, AccountsStep, PTL DEF Spec

\* No later call changes an account that is there.
THEOREM AccountsKept == Spec => AccountKept
<1>1. ASSUME AccountInv, [Next]_vars PROVE \A u \in Homes : users'[u] = users[u]
  <2>1. CASE create_new_user
    BY <1>1, <2>1, Creation DEF AccountInv, Homes
  <2>2. CASE ~create_new_user
    BY <1>1, <2>2, OtherSteps
  <2> QED BY <2>1, <2>2
<1>2. ASSUME AccountInv, [Next]_vars PROVE [\A u \in Homes : users'[u] = users[u]]_vars
  BY <1>1, <1>2
<1> QED BY <1>2, AccountsInit, AccountsStep, PTL DEF Spec, AccountKept

------------------------------------------------------------------------------
(* Automatic login.                                                         *)

\* The text gets the name of the only home or "*" in front, or stays.
LEMMA Login ==
    ASSUME AccountInv, LoginInv, enable_autologin
    PROVE  LoginInv'
<1>1. PICK name \in AutologinUser, sed \in BOOLEAN :
         autologin' = IF sed THEN [autologin EXCEPT ![dm] = autologin_text(name)] ELSE autologin
  BY DEF enable_autologin, utils_enable_autologin, user_enable_autologin
<1>2. Homes' = Homes
  BY DEF enable_autologin, accounts, Homes
<1>3. name = Star \/ (name \in Homes /\ \A u \in Homes : u = name)
  <2>1. CASE Homes = {}
    BY <2>1 DEF AutologinUser
  <2>2. CASE Homes # {}
    <3>1. name \in Homes /\ Cardinality(Homes) = 1
      BY <2>2 DEF AutologinUser
    <3>2. IsFiniteSet(Homes)
      BY SystemSetupAssumption, FS_Subset DEF Homes
    <3>3. PICK x : Homes = {x}
      BY <3>1, <3>2, FS_Singleton
    <3> QED BY <3>1, <3>3
  <2> QED BY <2>1, <2>2
<1>4. name \in Users \cup {Star} /\ dm \in Managers
  BY <1>3 DEF Homes, AccountInv
<1>5. CASE autologin' = autologin
  BY <1>2, <1>5 DEF LoginInv, LoginNames
<1>6. CASE autologin' = [autologin EXCEPT ![dm] = <<name>> \o autologin[dm]]
           /\ (dm \in Commented => autologin[dm] = <<>>)
  <2>1. autologin[dm] \in Seq(Users \cup {Star}) /\ <<name>> \in Seq(Users \cup {Star})
    BY <1>4 DEF LoginInv
  <2>2. autologin' \in [Managers -> Seq(Users \cup {Star})]
    <3>1. <<name>> \o autologin[dm] \in Seq(Users \cup {Star})
      BY <2>1
    <3> QED BY <1>6, <3>1 DEF LoginInv
  <2>3. autologin'[dm] = <<name>> \o autologin[dm] /\ \A m \in Managers \ {dm} : autologin'[m] = autologin[m]
    BY <1>4, <1>6 DEF LoginInv
  <2>4. ToSet(autologin'[dm]) \subseteq {name} \cup ToSet(autologin[dm])
    BY <2>1, <2>3 DEF ToSet
  <2>5. LoginNames' \subseteq ({name} \ {Star}) \cup LoginNames
    <3> SUFFICES ASSUME NEW x \in LoginNames' PROVE x \in ({name} \ {Star}) \cup LoginNames
      OBVIOUS
    <3>1. PICK m \in Managers : x \in ToSet(autologin'[m])
      BY DEF LoginNames
    <3>2. x \in ToSet(autologin[m]) => x \in LoginNames
      BY <3>1 DEF LoginNames
    <3>3. m # dm => autologin'[m] = autologin[m]
      BY <2>3
    <3>4. x \in Users /\ x # Star
      BY SystemSetupAssumption DEF LoginNames, Star
    <3> QED BY <2>4, <3>1, <3>2, <3>3, <3>4
  <2>6. LoginNames' \subseteq Homes' /\ \A a, b \in LoginNames' : a = b
    BY <1>2, <1>3, <2>5 DEF LoginInv
  <2>7. \A m \in Commented : Len(autologin'[m]) <= 1
    BY <1>4, <1>6, <2>1, <2>3, SystemSetupAssumption DEF LoginInv
  <2> QED BY <2>2, <2>6, <2>7 DEF LoginInv
<1>7. CASE dm \in Commented /\ autologin[dm] # <<>>
  <2>1. [autologin EXCEPT ![dm] = autologin_text(name)] = autologin
    BY <1>4, <1>7 DEF autologin_text, LoginInv
  <2> QED BY <1>1, <1>5, <2>1
<1>8. CASE ~(dm \in Commented /\ autologin[dm] # <<>>)
  <2>1. autologin_text(name) = <<name>> \o autologin[dm]
    BY <1>8 DEF autologin_text
  <2> QED BY <1>1, <1>5, <1>6, <1>8, <2>1
<1> QED BY <1>7, <1>8

\* No line names anybody at first, and every step keeps the one name there may be.
LEMMA LoginInit == ASSUME Init PROVE LoginInv
<1>1. \A m \in Managers : autologin[m] = <<>> /\ ToSet(autologin[m]) = {} /\ Len(autologin[m]) = 0
  BY DEF Init, ToSet
<1>2. LoginNames = {}
  BY <1>1 DEF LoginNames
<1>3. autologin \in [Managers -> Seq(Users \cup {Star})]
  BY DEF Init
<1> QED BY <1>1, <1>2, <1>3, SystemSetupAssumption DEF LoginInv

LEMMA LoginStep == ASSUME AccountInv, LoginInv, [Next]_vars PROVE LoginInv'
<1>1. CASE enable_autologin
  BY <1>1, Login
<1>2. CASE ~enable_autologin
  <2>1. autologin' = autologin
    BY <1>2 DEF Next, vars, utils_install_base, generate_fstab, set_hostname, set_locale,
       set_xkbmap, select_keymap, set_timezone_and_clock, set_root_password, create_new_user
  <2>2. Homes \subseteq Homes'
    <3>1. CASE create_new_user
      BY <3>1, Creation DEF AccountInv, Homes
    <3>2. CASE ~create_new_user
      BY <3>2, OtherSteps DEF Homes
    <3> QED BY <3>1, <3>2
  <2> QED BY <2>1, <2>2 DEF LoginInv, LoginNames
<1> QED BY <1>1, <1>2

\* Automatic login is for one user at most, and lightdm's and lxdm's line has one
\* name, however often and for whatever display managers it is enabled.
THEOREM OneAutologin == Spec => []AutologinOneUser
<1>1. LoginInv => AutologinOneUser
  <2> SUFFICES ASSUME LoginInv PROVE Cardinality(LoginNames) <= 1
    BY DEF LoginInv, AutologinOneUser, LoginNames
  <2>1. CASE LoginNames = {}
    BY <2>1, FS_EmptySet
  <2>2. CASE LoginNames # {}
    <3>1. PICK a : a \in LoginNames
      BY <2>2
    <3>2. LoginNames = {a}
      BY <3>1 DEF LoginInv
    <3>3. Cardinality({a}) = 1
      BY FS_Singleton
    <3> QED BY <3>2, <3>3
  <2> QED BY <2>1, <2>2
<1> QED BY <1>1, LoginInit, LoginStep, AccountsInit, AccountsStep, PTL DEF Spec

------------------------------------------------------------------------------
(* Types.                                                                   *)

\* A logged result keeps the list of failures one of settings.
LEMMA LoggedTypes ==
    ASSUME failed \subseteq Settings, NEW s \in Settings, NEW ok, Logged(s, ok)
    PROVE  failed' \subseteq Settings
BY DEF Logged

\* What the calls that write one of the files may leave in it.
LEMMA FileSteps ==
    ASSUME TypeOK,
           \/ generate_fstab \/ set_hostname \/ set_locale \/ set_xkbmap \/ select_keymap
           \/ set_timezone_and_clock
    PROVE  TypeOK'
<1> USE DEF TypeOK, Call, accounts, Settings
<1>0. calls + 1 \in 0..MaxCalls \/ ~Call
  BY SystemSetupAssumption
<1>1. CASE generate_fstab
  BY <1>0, <1>1, LoggedTypes DEF generate_fstab, utils_generate_fstab, run_genfstab_on_mount
<1>2. CASE set_hostname
  <2>1. PICK h \in Hosts, done \in Progress(etc, 2) :
          user_set_hostname(h, done) /\ Logged("hostname", done = 2)
    BY <1>2 DEF set_hostname, utils_set_hostname
  <2>2. failed' \subseteq Settings
    BY <2>1, LoggedTypes
  <2> QED BY <1>0, <1>2, <2>1, <2>2
          DEF set_hostname, user_set_hostname, create_file_for_overwrite, set_hosts
<1>3. CASE set_locale
  <2>1. PICK l \in Locales, done \in Progress(etc, 2) :
          locale_set_locale(l, done) /\ Logged("locale", done = 2)
    BY <1>3 DEF set_locale, utils_set_locale, get_possible_locales, exec
  <2>2. failed' \subseteq Settings
    BY <2>1, LoggedTypes
  <2>3. Uncomment(l) \subseteq Locales
    BY SystemSetupAssumption DEF Uncomment
  <2>4. /\ locale_conf' \in Locales \cup {None} /\ locale_gen' \subseteq Locales
        /\ generated' \subseteq locale_gen'
    BY <2>1, <2>3 DEF locale_set_locale, prepare_locale_set, create_file_for_overwrite
  <2> QED BY <1>0, <1>3, <2>2, <2>4 DEF set_locale
<1>4. CASE set_xkbmap
  BY <1>0, <1>4 DEF set_xkbmap, utils_set_xkbmap
<1>5. CASE select_keymap
  BY <1>0, <1>5 DEF select_keymap, set_keymap, files
<1>6. CASE set_timezone_and_clock
  <2>1. localtime' \in Zones \cup {None}
    BY <1>6 DEF set_timezone_and_clock, set_timezone
  <2>2. clock' \in {"utc", "localtime", None} /\ failed' \subseteq Settings
    <3>1. CASE UNCHANGED <<clock, failed>>
      BY <3>1
    <3>2. ASSUME NEW type \in {"utc", "localtime"}, utils_set_hw_clock(type)
          PROVE  clock' \in {"utc", "localtime", None} /\ failed' \subseteq Settings
      BY <3>2, LoggedTypes DEF utils_set_hw_clock
    <3> QED BY <1>6, <3>1, <3>2 DEF set_timezone_and_clock, set_hw_clock
  <2> QED BY <1>0, <1>6, <2>1, <2>2 DEF set_timezone_and_clock
<1> QED BY <1>1, <1>2, <1>3, <1>4, <1>5, <1>6

\* What the calls for an account may leave.
LEMMA AccountSteps ==
    ASSUME TypeOK, AccountInv', LoginInv',
           utils_install_base \/ set_root_password \/ create_new_user \/ enable_autologin
    PROVE  TypeOK'
<1> USE DEF TypeOK, Call, Settings, files, AccountInv, LoginInv
<1>0. calls + 1 \in 0..MaxCalls \/ ~Call
  BY SystemSetupAssumption
<1>1. CASE utils_install_base
  BY <1>0, <1>1 DEF utils_install_base, accounts
<1>2. CASE set_root_password
  <2>1. PICK p \in Passwords, ok \in BOOLEAN :
          /\ Logged("root", ok)
          /\ root_pass' \in IF ok THEN user_set_root_password(p) ELSE {root_pass}
    BY <1>2 DEF set_root_password, utils_set_root_password
  <2>2. failed' \subseteq Settings
    BY <2>1, LoggedTypes
  <2> QED BY <1>0, <1>2, <2>1, <2>2
          DEF set_root_password, user_set_root_password, set_user_password
<1>3. CASE create_new_user
  <2>1. PICK u \in Users, shell \in Shells, p \in Passwords : utils_create_new_user(u, shell, p)
    BY <1>3 DEF create_new_user
  <2>2. PICK done \in Stages(u), pass \in set_user_password(p) :
          /\ user_create_new_user(UserInfo(u, shell, pass), done)
          /\ Logged("user", done = Len(Groups) + 6)
    BY <2>1 DEF utils_create_new_user
  <2>3. failed' \subseteq Settings
    BY <2>2, LoggedTypes
  <2>4. etc' \in BOOLEAN /\ shell_config' \subseteq Configured
    BY <2>1 DEF utils_create_new_user
  <2>5. Len(Groups) \in Nat /\ done \in Nat
    BY SystemSetupAssumption DEF Stages, Progress
  <2>6. groups' \subseteq ToSet(Groups)
    BY <2>2, <2>5 DEF user_create_new_user, create_group, ToSet
  <2>7. sudoers' \in {"none", "0644", "0440"}
    BY <2>2 DEF user_create_new_user, sudo_rule
  <2> QED BY <1>0, <1>3, <2>3, <2>4, <2>6, <2>7 DEF create_new_user
<1>4. CASE enable_autologin
  <2>1. failed' \subseteq Settings
    BY <1>4, LoggedTypes DEF enable_autologin, utils_enable_autologin
  <2> QED BY <1>0, <1>4, <2>1 DEF enable_autologin, accounts
<1> QED BY <1>1, <1>2, <1>3, <1>4

\* The files, accounts and settings keep their types, whichever calls fail.
THEOREM SettingsTypes == Spec => []TypeOK
<1>1. Init => TypeOK
  BY SystemSetupAssumption DEF Init, TypeOK
<1>2. TypeOK /\ AccountInv' /\ LoginInv' /\ [Next]_vars => TypeOK'
  <2> SUFFICES ASSUME TypeOK, AccountInv', LoginInv', [Next]_vars PROVE TypeOK'
    OBVIOUS
  <2>1. CASE UNCHANGED vars
    BY <2>1 DEF vars, files, accounts, TypeOK
  <2> QED BY <2>1, FileSteps, AccountSteps DEF Next
<1> QED BY <1>1, <1>2, LoginInit, LoginStep, AccountsInit, AccountsStep, PTL DEF Spec

------------------------------------------------------------------------------
(* Packages.                                                                *)

\* What the four facts about the target are proved from.
Kit == PackagesTypeOK /\ KernelKit /\ XorgComplete /\ DisplayManagerInstalled

\* The names of packages tell their kinds apart.
LEMMA PkgFields ==
    ASSUME NEW k1, NEW n1, NEW k2, NEW n2, Pkg(k1, n1) = Pkg(k2, n2)
    PROVE  k1 = k2 /\ n1 = n2
<1>1. Pkg(k1, n1).kind = k1 /\ Pkg(k1, n1).name = n1
  BY DEF Pkg
<1>2. Pkg(k2, n2).kind = k2 /\ Pkg(k2, n2).name = n2
  BY DEF Pkg
<1> QED BY <1>1, <1>2

\* pacstrap leaves the target as it was or adds the whole list, and that only
\* if every name of the list is one of a package.
LEMMA Pacstrap ==
    ASSUME NEW list, install_from_pkglist(list)
    PROVE  installed' = installed \/ (Garbled \notin list /\ installed' = installed \cup list)
BY DEF install_from_pkglist

\* The list for the base has no name that is not a package's unless it is the
\* garbled one, and holds the headers and tools with every kernel; it adds neither
\* a desktop nor a display manager.
LEMMA BaseList ==
    ASSUME NEW kernels \in SUBSET Kernels, NEW zfs \in ZfsOutcomes(kernels)
    PROVE  LET list == get_pkglist_base(kernels, zfs) IN
           /\ Garbled \notin list => list \subseteq PackageSet
           /\ \A k \in Kernels : Pkg("kernel", k) \in list =>
                /\ Pkg("headers", k) \in list
                /\ root_fs = "zfs" => Pkg("base", "zfs-utils") \in list
                /\ root_fs = "bcachefs" => Pkg("base", "bcachefs-tools") \in list
           /\ \A d : Pkg("desktop", d) \notin list
<1> DEFINE list == get_pkglist_base(kernels, zfs)
           tools == (IF root_fs = "zfs" THEN {Pkg("base", "zfs-utils")} ELSE {})
                        \cup (IF root_fs = "bcachefs" THEN {Pkg("base", "bcachefs-tools")} ELSE {})
           common == (IF root_fs = "btrfs" /\ ~server_mode THEN {Pkg("base", "snapper")} ELSE {})
                        \cup (IF server_mode THEN {} ELSE NetProfiles.base_desktop_packages)
                        \cup NetProfiles.base_packages
           per == PerKernel(kernels, zfs)
<1>1. list = per \cup tools \cup common
  BY DEF get_pkglist_base
<1>2. \A p \in zfs : p = Garbled \/ \E k \in Kernels : p = Pkg("zfs", k)
  BY DEF ZfsOutcomes
<1>3. \A p \in per : (\E k \in kernels : p = Pkg("kernel", k) \/ p = Pkg("headers", k)) \/ p \in zfs
  BY DEF PerKernel
<1>4. \A p \in tools \cup common :
        \E n \in {"base", "desktop", "snapper", "zfs-utils", "bcachefs-tools"} : p = Pkg("base", n)
  BY DEF NetProfiles
<1>5. Garbled \notin list => list \subseteq PackageSet
  BY <1>1, <1>2, <1>3, <1>4 DEF PackageSet, Pkg
<1>6. ASSUME NEW k \in Kernels, Pkg("kernel", k) \in list
      PROVE  /\ Pkg("headers", k) \in list
             /\ root_fs = "zfs" => Pkg("base", "zfs-utils") \in list
             /\ root_fs = "bcachefs" => Pkg("base", "bcachefs-tools") \in list
  <2>1. Pkg("kernel", k) \notin tools \cup common
    BY <1>4, PkgFields
  <2>2. Pkg("kernel", k) \notin zfs
    BY <1>2, PkgFields DEF Garbled
  <2>3. k \in kernels
    BY <1>1, <1>3, <1>6, <2>1, <2>2, PkgFields
  <2>4. Pkg("headers", k) \in per
    BY <2>3 DEF PerKernel
  <2> QED BY <1>1, <2>4
<1>7. ASSUME NEW d PROVE Pkg("desktop", d) \notin list
  BY <1>1, <1>2, <1>3, <1>4, PkgFields DEF Garbled
<1> QED BY <1>5, <1>6, <1>7

\* The list of a desktop names packages only, no kernel, no other desktop, and
\* xorg unless the desktop does without.
LEMMA DesktopList ==
    ASSUME NEW d \in Desktops, ManagerOf \in [Desktops -> DisplayManagers \cup {Nothing}]
    PROVE  LET list == get_pkglist_desktop(d) IN
           /\ list \subseteq PackageSet
           /\ \A k : Pkg("kernel", k) \notin list
           /\ \A e \in Desktops : Pkg("desktop", e) \in list => e = d
           /\ d \notin Wayland => Pkg("base", "xorg") \in list
<1> DEFINE list == get_pkglist_desktop(d)
<1>1. \A p \in list : \/ p = Pkg("desktop", d)
                      \/ \E m \in DisplayManagers : p = Pkg("dm", m)
                      \/ p = Pkg("base", "xorg")
  BY DEF get_pkglist_desktop, NetProfiles
<1>2. list \subseteq PackageSet
  BY <1>1 DEF PackageSet, Pkg
<1>3. d \notin Wayland => Pkg("base", "xorg") \in list
  BY DEF get_pkglist_desktop, NetProfiles
<1>4. \A k : Pkg("kernel", k) \notin list
  BY <1>1, PkgFields
<1>5. \A e \in Desktops : Pkg("desktop", e) \in list => e = d
  BY <1>1, PkgFields
<1> QED BY <1>2, <1>3, <1>4, <1>5

\* A display manager that is enabled is the one that was, or an installed one.
LEMMA Services ==
    ASSUME NEW packages, enable_services(packages)
    PROVE  \/ display_manager' = display_manager
           \/ display_manager' \in DisplayManagers /\ Pkg("dm", display_manager') \in packages
BY DEF enable_services

\* What parsing leaves is of the right type.
LEMMA Profiles ==
    ASSUME at \in {"menu", "terminated"}, NEW answers \in AnswersOf(urls), FromProfiles(answers)
    PROVE  /\ at' \in {"menu", "terminated"}
           /\ fetched' \in [answers : [Addresses -> Answers], list : BOOLEAN]
BY DEF FromProfiles, AnswersOf

\* Every step keeps the types and the four facts about the target.
LEMMA KitStep ==
    ASSUME Kit, [PackagesNext]_package_vars
    PROVE  Kit'
<1> USE PackagesAssumption DEF Kit
<1>0. entries < MaxEntries => entries + 1 \in 0..MaxEntries
  BY DEF PackagesTypeOK
<1>1. ASSUME install_base PROVE Kit'
  <2>1. PICK kernels \in SUBSET Kernels \ {{}}, answers \in AnswersOf(urls) :
          \E zfs \in ZfsOutcomes(kernels) :
            /\ FromProfiles(answers)
            /\ IF fetched'.list
               THEN /\ install_from_pkglist(get_pkglist_base(kernels, zfs))
                    /\ install_available_profiles /\ base_installed' = TRUE
               ELSE UNCHANGED <<installed, drivers>> /\ base_installed' = FALSE
    BY <1>1 DEF install_base
  <2>2. PICK zfs \in ZfsOutcomes(kernels) :
            /\ FromProfiles(answers)
            /\ IF fetched'.list
               THEN /\ install_from_pkglist(get_pkglist_base(kernels, zfs))
                    /\ install_available_profiles /\ base_installed' = TRUE
               ELSE UNCHANGED <<installed, drivers>> /\ base_installed' = FALSE
    BY <2>1
  <2> DEFINE list == get_pkglist_base(kernels, zfs)
  <2>3. installed' = installed \/ (Garbled \notin list /\ installed' = installed \cup list)
    BY <2>2, Pacstrap
  <2>4. /\ Garbled \notin list => list \subseteq PackageSet
        /\ \A k \in Kernels : Pkg("kernel", k) \in list =>
                /\ Pkg("headers", k) \in list
                /\ root_fs = "zfs" => Pkg("base", "zfs-utils") \in list
                /\ root_fs = "bcachefs" => Pkg("base", "bcachefs-tools") \in list
        /\ \A d : Pkg("desktop", d) \notin list
    BY BaseList
  <2> HIDE DEF list
  <2>5. UNCHANGED <<root_fs, server_mode, urls, DE, display_manager, video_installed>> /\ Choose
    BY <1>1 DEF install_base
  <2>6. drivers' \subseteq DriverProfiles \cup Fitting
    <3>1. drivers' = drivers \/ drivers' = drivers \cup Fitting
      BY <2>2, Zenon DEF install_available_profiles
    <3> QED BY <3>1 DEF PackagesTypeOK
  <2>61. base_installed' \in BOOLEAN
    BY <2>2, Zenon
  <2>7. PackagesTypeOK'
    BY <1>0, <2>2, <2>3, <2>4, <2>5, <2>6, <2>61, Profiles DEF PackagesTypeOK, Choose
  <2>8. KernelKit'
    BY <2>3, <2>4, <2>5 DEF KernelKit
  <2>9. XorgComplete' /\ DisplayManagerInstalled'
    BY <2>3, <2>4, <2>5 DEF XorgComplete, DisplayManagerInstalled
  <2> QED BY <2>7, <2>8, <2>9
<1>2. ASSUME install_desktop PROVE Kit'
  <2>1. PICK d \in Desktops, answers \in AnswersOf(urls) :
            /\ FromProfiles(answers)
            /\ IF fetched'.list
               THEN /\ install_from_pkglist(get_pkglist_desktop(d))
                    /\ DE' = d /\ enable_services(installed')
               ELSE UNCHANGED <<installed, DE, display_manager>>
    BY <1>2 DEF install_desktop
  <2> DEFINE list == get_pkglist_desktop(d)
  <2>2. installed' = installed \/ (Garbled \notin list /\ installed' = installed \cup list)
    BY <2>1, Pacstrap
  <2>3. /\ list \subseteq PackageSet
        /\ \A k : Pkg("kernel", k) \notin list
        /\ \A e \in Desktops : Pkg("desktop", e) \in list => e = d
        /\ d \notin Wayland => Pkg("base", "xorg") \in list
    BY DesktopList
  <2> HIDE DEF list
  <2>4. \/ display_manager' = display_manager
        \/ display_manager' \in DisplayManagers /\ Pkg("dm", display_manager') \in installed'
    BY <2>1, Services
  <2>5. /\ UNCHANGED <<root_fs, server_mode, urls, base_installed, drivers, video_installed>>
        /\ Choose
    BY <1>2 DEF install_desktop
  <2>6. DE' \in Desktops \cup {Nothing}
    BY <2>1 DEF PackagesTypeOK
  <2>7. PackagesTypeOK'
    BY <1>0, <2>1, <2>2, <2>3, <2>4, <2>5, <2>6, Profiles DEF PackagesTypeOK, Choose
  <2>8. KernelKit' /\ XorgComplete'
    BY <2>2, <2>3, <2>5 DEF KernelKit, XorgComplete
  <2>9. DisplayManagerInstalled'
    BY <2>2, <2>4 DEF DisplayManagerInstalled
  <2> QED BY <2>7, <2>8, <2>9
<1>3. ASSUME auto_install_drivers PROVE Kit'
  <2>1. PackagesTypeOK'
    BY <1>0, <1>3 DEF auto_install_drivers, install_available_profiles, PackagesTypeOK, Choose
  <2> QED BY <1>3, <2>1 DEF auto_install_drivers, KernelKit, XorgComplete, DisplayManagerInstalled
<1>4. ASSUME setup_graphics_card PROVE Kit'
  <2>1. PackagesTypeOK'
    BY <1>0, <1>4 DEF setup_graphics_card, get_available_profile_names, get_all_profile_names, PackagesTypeOK, Choose
  <2> QED BY <1>4, <2>1 DEF setup_graphics_card, KernelKit, XorgComplete, DisplayManagerInstalled
<1>5. ASSUME UNCHANGED package_vars PROVE Kit'
  BY <1>5 DEF package_vars, target, PackagesTypeOK, KernelKit, XorgComplete, DisplayManagerInstalled
<1> QED BY <1>1, <1>2, <1>3, <1>4, <1>5 DEF PackagesNext, install_drivers_menu, install_graphics_menu

\* The facts hold of a target with nothing on it.
LEMMA KitInit == PackagesInit => Kit
<1> SUFFICES ASSUME PackagesInit PROVE Kit
  OBVIOUS
<1>1. [a \in Addresses |-> "none"] \in [Addresses -> Answers]
  BY DEF Answers
<1>2. fetched \in [answers : [Addresses -> Answers], list : BOOLEAN]
  BY <1>1 DEF PackagesInit
<1>3. entries \in 0..MaxEntries /\ installed \subseteq PackageSet
  BY PackagesAssumption DEF PackagesInit
<1>4. base_installed \in BOOLEAN /\ drivers \subseteq DriverProfiles \cup Fitting /\ video_installed \in BOOLEAN
  BY DEF PackagesInit
<1>5. PackagesTypeOK
  BY <1>2, <1>3, <1>4 DEF PackagesInit, PackagesTypeOK
<1> QED BY <1>5 DEF PackagesInit, Kit, KernelKit, XorgComplete, DisplayManagerInstalled

\* In every behaviour every variable keeps its type.
THEOREM PackagesTypes == PackagesSpec => []PackagesTypeOK
<1>1. Kit => PackagesTypeOK
  BY DEF Kit
<1> QED BY <1>1, KitInit, KitStep, PTL DEF PackagesSpec

\* Every kernel that pacstrap put on the target has its headers and the tools of
\* the root's file system, whatever fetches and installations failed.
THEOREM KernelsWithKit == PackagesSpec => []KernelKit
<1>1. Kit => KernelKit
  BY DEF Kit
<1> QED BY <1>1, KitInit, KitStep, PTL DEF PackagesSpec

\* A desktop that needs xorg is never on the target without it.
THEOREM DesktopsWithXorg == PackagesSpec => []XorgComplete
<1>1. Kit => XorgComplete
  BY DEF Kit
<1> QED BY <1>1, KitInit, KitStep, PTL DEF PackagesSpec

\* The display manager enabled is an installed one, after failed installations too.
THEOREM ManagersInstalled == PackagesSpec => []DisplayManagerInstalled
<1>1. Kit => DisplayManagerInstalled
  BY DEF Kit
<1> QED BY <1>1, KitInit, KitStep, PTL DEF PackagesSpec

\* With the first address down and the second one good there is a list: the
\* result of the last fetch is that of its answers.
THEOREM FallbackSuffices == PackagesSpec => []FallbackUsed
<1> DEFINE Parsed == fetched.list = (fetch_file_from_url(fetched.answers) = "good")
<1>1. ASSUME PackagesInit PROVE Parsed
  <2>1. fetched.list = FALSE /\ fetched.answers = [a \in Addresses |-> "none"]
    BY <1>1 DEF PackagesInit
  <2>2. fetched.answers["url"] = "none" /\ fetched.answers["fallback"] = "none"
    BY <2>1 DEF Addresses
  <2> QED BY <2>1, <2>2 DEF fetch_file_from_url
<1>2. ASSUME Parsed, [PackagesNext]_package_vars PROVE Parsed'
  <2>1. ASSUME NEW answers, FromProfiles(answers) PROVE Parsed'
    BY <2>1 DEF FromProfiles, fetch_file_from_url
  <2>2. UNCHANGED fetched => Parsed'
    BY <1>2 DEF fetch_file_from_url
  <2> QED BY <1>2, <2>1, <2>2 DEF PackagesNext, package_vars, install_base, install_desktop, install_drivers_menu,
             install_graphics_menu, auto_install_drivers, setup_graphics_card
<1>3. Parsed => FallbackUsed
  BY DEF FallbackUsed, fetch_file_from_url
<1> QED BY <1>1, <1>2, <1>3, PTL DEF PackagesSpec

------------------------------------------------------------------------------
(* The repositories.                                                        *)

\* The repositories for one level, and what may be listed at all.
Levels == {"v3", "v4", "znver4"}
Listable == Repos \cup {"core", "extra"}

Ordered(f) ==
    \A i, j \in DOMAIN f : i < j => RepoRank[f[i]] <= RepoRank[f[j]] /\ f[i] # f[j]

\* A configuration that pacman can be left with: no level comes before "cachyos" is there.
Conf(f) ==
    /\ f \in Seq(Listable) /\ f # <<>>
    /\ {"core", "extra"} \subseteq ToSet(f)
    /\ Ordered(f)
    /\ ToSet(f) \cap Levels # {} => "cachyos" \in ToSet(f)

Adding == {"copy_file", "push_repos_front", "backup", "replace"}

\* What is still to be added.
TodoInv ==
    /\ call # "idle" => todo \in {Selected, Tail(Selected), <<>>}
    /\ call \in Adding => todo # <<>> /\ Head(todo) \in Supported

\* The three files: one of them is good at any time, and the working copy is what was
\* good with the repository in front of it.
FilesInv ==
    /\ Conf(InEffect)
    /\ call = "copy_file" => Head(todo) \notin Sections(pacman_conf)
    /\ call = "push_repos_front" => pacman_conf # Absent /\ pacman_conf_cachyos = pacman_conf
    /\ call = "backup" => pacman_conf # Absent
    /\ call = "replace" => pacman_conf = Absent
    /\ call \in {"backup", "replace"} => pacman_conf_cachyos = <<Head(todo)>> \o InEffect
    /\ call \in Adding \ {"copy_file"} => Head(todo) \notin ToSet(InEffect)

\* What is no longer to be added is listed.
DoneInv ==
    /\ call \in {"check", "copy_file"} => Supported \ ToSet(todo) \subseteq Sections(pacman_conf)
    /\ call \in Adding \ {"copy_file"} => Supported \ ToSet(todo) \subseteq ToSet(InEffect)
    /\ result = "true" => call = "idle" /\ Supported \subseteq Sections(pacman_conf)

ReposInv == TodoInv /\ FilesInv /\ DoneInv

------------------------------------------------------------------------------
\* A section in front of a sequence of sections (push_repos_front's insertion).
LEMMA InFront ==
    ASSUME NEW S, NEW f \in Seq(S), NEW r \in S
    PROVE  /\ <<r>> \o f \in Seq(S) /\ <<r>> \o f # <<>>
           /\ Len(<<r>> \o f) = Len(f) + 1
           /\ (<<r>> \o f)[1] = r
           /\ \A i \in DOMAIN f : (<<r>> \o f)[i + 1] = f[i]
           /\ ToSet(<<r>> \o f) = {r} \cup ToSet(f)
<1>1. /\ <<r>> \o f \in Seq(S) /\ <<r>> \o f # <<>>
      /\ Len(<<r>> \o f) = Len(f) + 1
      /\ (<<r>> \o f)[1] = r
      /\ \A i \in DOMAIN f : (<<r>> \o f)[i + 1] = f[i]
  OBVIOUS
<1>2. DOMAIN (<<r>> \o f) = 1..(Len(f) + 1) /\ DOMAIN f = 1..Len(f) /\ Len(f) \in Nat
  BY <1>1
<1>3. ASSUME NEW i \in DOMAIN (<<r>> \o f) PROVE (<<r>> \o f)[i] \in {r} \cup ToSet(f)
  <2>1. CASE i = 1
    BY <2>1, <1>1
  <2>2. CASE i # 1
    <3>1. i - 1 \in DOMAIN f /\ (i - 1) + 1 = i
      BY <1>2, <1>3, <2>2
    <3> QED BY <3>1, <1>1 DEF ToSet
  <2> QED BY <2>1, <2>2
<1>4. \A i \in DOMAIN f : f[i] \in ToSet(<<r>> \o f)
  <2> TAKE i \in DOMAIN f
  <2>1. i + 1 \in DOMAIN (<<r>> \o f)
    BY <1>2
  <2>2. (<<r>> \o f)[i + 1] = f[i]
    BY <1>1
  <2> QED BY <2>1, <2>2 DEF ToSet
<1>5. r \in ToSet(<<r>> \o f)
  BY <1>1, <1>2 DEF ToSet
<1> QED BY <1>1, <1>3, <1>4, <1>5 DEF ToSet

\* The sections of a good configuration have a rank, and none of them is the mark of an
\* absent file.
LEMMA ConfSections ==
    ASSUME NEW f, Conf(f)
    PROVE  /\ f # Absent /\ Sections(f) = ToSet(f)
           /\ ToSet(f) \subseteq Listable
           /\ \A s \in ToSet(f) : RepoRank[s] \in {1, 2, 3, 4}
<1>1. ToSet(f) \subseteq Listable
  BY DEF Conf, ToSet
<1>2. ToSet(Absent) = {"absent"}
  BY DEF Absent, ToSet
<1>3. f # Absent
  BY <1>2 DEF Conf
<1>4. \A s \in Listable : RepoRank[s] \in {1, 2, 3, 4}
  BY DEF Listable, Repos, IsaLevel, RepoRank
<1> QED BY <1>1, <1>3, <1>4 DEF Sections

\* A repository of the right rank in front of a good configuration makes a good one.
LEMMA PushConf ==
    ASSUME NEW f, Conf(f), NEW r \in Repos, r \notin ToSet(f),
           r = "cachyos" \/ (r \in Levels /\ "cachyos" \in ToSet(f))
    PROVE  /\ Conf(<<r>> \o f)
           /\ ToSet(<<r>> \o f) = {r} \cup ToSet(f)
           /\ \A s \in ToSet(f) : RepoRank[r] <= RepoRank[s]
<1>1. r \in Listable /\ f \in Seq(Listable)
  BY DEF Listable, Conf
<1>2. ToSet(f) \subseteq Listable /\ \A s \in ToSet(f) : RepoRank[s] \in {1, 2, 3, 4}
  BY ConfSections
<1>3. \A s \in ToSet(f) : RepoRank[r] <= RepoRank[s]
  <2>1. CASE r = "cachyos"
    <3>1. ToSet(f) \cap Levels = {}
      BY <2>1 DEF Conf
    <3>2. \A s \in ToSet(f) : s \in {"core", "extra"}
      BY <1>2, <2>1, <3>1 DEF Listable, Repos, IsaLevel, Levels
    <3> QED BY <2>1, <3>2 DEF RepoRank
  <2>2. CASE r \in Levels
    <3>1. RepoRank[r] = 1
      BY <2>2 DEF Levels, RepoRank
    <3> QED BY <1>2, <3>1
  <2> QED BY <2>1, <2>2
<1> DEFINE g == <<r>> \o f
<1>4. /\ g \in Seq(Listable) /\ g # <<>> /\ Len(g) = Len(f) + 1 /\ g[1] = r
      /\ \A i \in DOMAIN f : g[i + 1] = f[i]
      /\ ToSet(g) = {r} \cup ToSet(f)
  BY <1>1, InFront
<1>5. Ordered(g)
  <2> SUFFICES ASSUME NEW i \in DOMAIN g, NEW j \in DOMAIN g, i < j
               PROVE  RepoRank[g[i]] <= RepoRank[g[j]] /\ g[i] # g[j]
    BY DEF Ordered
  <2> HIDE DEF g
  <2>1. DOMAIN g = 1..(Len(f) + 1) /\ DOMAIN f = 1..Len(f) /\ Len(f) \in Nat
    BY <1>1, <1>4
  <2>2. j - 1 \in DOMAIN f /\ (j - 1) + 1 = j
    BY <2>1
  <2>3. g[j] = f[j - 1] /\ g[j] \in ToSet(f)
    BY <2>2, <1>4 DEF ToSet
  <2>4. CASE i = 1
    BY <2>3, <2>4, <1>3, <1>4
  <2>5. CASE i # 1
    <3>1. i - 1 \in DOMAIN f /\ (i - 1) + 1 = i /\ i - 1 < j - 1
      BY <2>1, <2>5
    <3>2. g[i] = f[i - 1]
      BY <3>1, <1>4
    <3> QED BY <2>2, <2>3, <3>1, <3>2 DEF Conf, Ordered
  <2> QED BY <2>4, <2>5
<1>6. ToSet(g) \cap Levels # {} => "cachyos" \in ToSet(g)
  BY <1>4 DEF Conf
<1> HIDE DEF g
<1>7. Conf(g)
  BY <1>4, <1>5, <1>6 DEF Conf
<1> QED BY <1>3, <1>4, <1>7 DEF g

------------------------------------------------------------------------------
\* One section in front of another.
LEMMA OneInFront == ASSUME NEW a, NEW b PROVE <<a>> \o <<b>> = <<a, b>>
<1> DEFINE s == <<a>> \o <<b>>
<1>1. s \in Seq({a, b}) /\ Len(s) = 2 /\ s[1] = a /\ s[2] = b
  OBVIOUS
<1>2. \A u, v \in Seq({a, b}) :
         (Len(u) = 2 /\ Len(v) = 2 /\ u[1] = v[1] /\ u[2] = v[2]) => u = v
  OBVIOUS
<1>3. <<a, b>> \in Seq({a, b})
  OBVIOUS
<1> HIDE DEF s
<1>4. s = <<a, b>>
  BY <1>1, <1>2, <1>3
<1> QED BY <1>4 DEF s

\* install_cachyos_repos tries the generic repository, then at most one for a level.
LEMMA SelectedShape ==
    Selected = <<"cachyos">> \/ \E l \in Levels : Selected = <<"cachyos", l>>
<1>1. ASSUME NEW s, s \in {<<>>, <<"znver4">>, <<"v4">>, <<"v3">>}
      PROVE  <<"cachyos">> \o s = <<"cachyos">>
                \/ \E l \in Levels : <<"cachyos">> \o s = <<"cachyos", l>>
  <2>1. CASE s = <<>>
    BY <2>1
  <2>2. ASSUME NEW l \in Levels, s = <<l>>
        PROVE  <<"cachyos">> \o s = <<"cachyos", l>>
    BY <2>2, OneInFront
  <2> QED BY <1>1, <2>1, <2>2 DEF Levels
<1>2. \E s \in {<<>>, <<"znver4">>, <<"v4">>, <<"v3">>} : Selected = <<"cachyos">> \o s
  BY DEF Selected
<1> QED BY <1>1, <1>2

\* The generic repository is for every CPU.
LEMMA GenericSupported == "cachyos" \in Supported
<1>1. "cachyos" \in ToSet(Selected)
  BY SelectedShape DEF ToSet
<1>2. IsaLevel["cachyos"] \in get_isa_levels
  BY DEF IsaLevel, get_isa_levels
<1> QED BY <1>1, <1>2 DEF Supported

\* The CPU and the virtual machine decide what is selected, and nothing else.
LEMMA SameCpu == UNCHANGED cpu => UNCHANGED <<Selected, Supported>>
<1>1. UNCHANGED cpu => UNCHANGED get_isa_levels
  BY DEF cpu, get_isa_levels, get_cpu_features
<1>2. UNCHANGED cpu => UNCHANGED Selected
  BY <1>1 DEF cpu, Selected, check_supported_znver45
<1> QED BY <1>1, <1>2 DEF Supported

\* What is still to be added is in front of the rest.
LEMMA TodoShape ==
    ASSUME todo \in {Selected, Tail(Selected), <<>>}
    PROVE  /\ todo # <<>> =>
                 /\ Head(todo) \in Repos
                 /\ Tail(todo) \in {Selected, Tail(Selected), <<>>}
                 /\ ToSet(todo) = {Head(todo)} \cup ToSet(Tail(todo))
                 /\ Head(todo) = "cachyos"
                       \/ (Head(todo) \in Levels /\ "cachyos" \notin ToSet(todo))
           /\ todo = <<>> => ToSet(todo) = {}
<1>0. Levels \subseteq Repos /\ "cachyos" \in Repos /\ "cachyos" \notin Levels
  BY DEF Levels, Repos, IsaLevel
<1>1. CASE Selected = <<"cachyos">>
  <2>1. Tail(Selected) = <<>>
    BY <1>1
  <2>2. ToSet(<<"cachyos">>) = {"cachyos"} /\ ToSet(<<>>) = {}
    BY DEF ToSet
  <2>3. CASE todo = <<"cachyos">>
    BY <1>0, <1>1, <2>1, <2>2, <2>3
  <2>4. CASE todo = <<>>
    BY <2>2, <2>4
  <2> QED BY <1>1, <2>1, <2>3, <2>4
<1>2. ASSUME NEW l \in Levels, Selected = <<"cachyos", l>>
      PROVE  /\ todo # <<>> =>
                   /\ Head(todo) \in Repos
                   /\ Tail(todo) \in {Selected, Tail(Selected), <<>>}
                   /\ ToSet(todo) = {Head(todo)} \cup ToSet(Tail(todo))
                   /\ Head(todo) = "cachyos"
                         \/ (Head(todo) \in Levels /\ "cachyos" \notin ToSet(todo))
             /\ todo = <<>> => ToSet(todo) = {}
  <2>1. Tail(Selected) = <<l>> /\ Tail(<<l>>) = <<>>
    BY <1>2
  <2>2. ToSet(<<"cachyos", l>>) = {"cachyos", l} /\ ToSet(<<l>>) = {l} /\ ToSet(<<>>) = {}
    BY DEF ToSet
  <2>3. CASE todo = Selected
    BY <1>0, <1>2, <2>1, <2>2, <2>3
  <2>4. CASE todo = <<l>>
    BY <1>0, <1>2, <2>1, <2>2, <2>4
  <2>5. CASE todo = <<>>
    BY <2>2, <2>5
  <2> QED BY <2>1, <2>3, <2>4, <2>5
<1> QED BY <1>1, <1>2, SelectedShape

\* Nothing is added that was not selected.
LEMMA TodoOfSelected ==
    ASSUME todo \in {Selected, Tail(Selected), <<>>}
    PROVE  ToSet(todo) \subseteq ToSet(Selected)
<1>1. ToSet(Tail(Selected)) \subseteq ToSet(Selected) /\ ToSet(<<>>) = {}
  BY SelectedShape DEF ToSet
<1> QED BY <1>1

------------------------------------------------------------------------------
\* Two sections in front of two others, at once or one after the other.
LEMMA TwoInFront ==
    ASSUME NEW a, NEW b, NEW c, NEW d
    PROVE  <<a, b>> \o <<c, d>> = <<a>> \o (<<b>> \o <<c, d>>)
<1> DEFINE S == {a, b, c, d}  s == <<a, b>> \o <<c, d>>  t == <<a>> \o (<<b>> \o <<c, d>>)
<1>1. s \in Seq(S) /\ Len(s) = 4 /\ s[1] = a /\ s[2] = b /\ s[3] = c /\ s[4] = d
  OBVIOUS
<1>2. <<b>> \o <<c, d>> \in Seq(S) /\ Len(<<b>> \o <<c, d>>) = 3
  OBVIOUS
<1>3. /\ (<<b>> \o <<c, d>>)[1] = b /\ (<<b>> \o <<c, d>>)[2] = c
      /\ (<<b>> \o <<c, d>>)[3] = d
  OBVIOUS
<1>4. t \in Seq(S) /\ Len(t) = 4 /\ t[1] = a /\ t[2] = b /\ t[3] = c /\ t[4] = d
  BY <1>2, <1>3
<1>5. \A u, v \in Seq(S) :
         (Len(u) = 4 /\ Len(v) = 4 /\ u[1] = v[1] /\ u[2] = v[2] /\ u[3] = v[3] /\ u[4] = v[4])
            => u = v
  OBVIOUS
<1> HIDE DEF s, t
<1>6. s = t
  BY <1>1, <1>4, <1>5
<1> QED BY <1>6 DEF s, t

\* The configuration the installer finds is a good one.
LEMMA ReposStart == ReposInit => ReposInv
<1> SUFFICES ASSUME ReposInit PROVE ReposInv
  OBVIOUS
<1> DEFINE generic == <<"cachyos">> \o Distribution
<1>1. Conf(Distribution) /\ ToSet(Distribution) = {"core", "extra"}
  BY DEF Distribution, Conf, Ordered, RepoRank, Listable, Repos, IsaLevel, Levels, ToSet
<1>2. Conf(generic) /\ ToSet(generic) = {"cachyos", "core", "extra"}
  <2>1. "cachyos" \in Repos
    BY DEF Repos, IsaLevel
  <2> QED BY <1>1, <2>1, PushConf
<1>3. Conf(<<"v3">> \o generic)
  <2>1. "v3" \in Repos /\ "v3" \in Levels
    BY DEF Repos, IsaLevel, Levels
  <2> HIDE DEF generic
  <2> QED BY <1>2, <2>1, PushConf
<1>4. <<"v3", "cachyos">> \o Distribution = <<"v3">> \o generic
  BY TwoInFront DEF Distribution
<1>5. Conf(pacman_conf)
  BY <1>1, <1>2, <1>3, <1>4 DEF ReposInit, InitialConfs
<1>6. InEffect = pacman_conf
  BY <1>5, ConfSections DEF InEffect
<1> QED BY <1>5, <1>6 DEF ReposInit, ReposInv, TodoInv, FilesInv, DoneInv, Adding

\* The repository being added is one that may go in front of what there is.
LEMMA HeadFits ==
    ASSUME ReposInv, call \in Adding \ {"copy_file"}
    PROVE  /\ Head(todo) \in Repos /\ Head(todo) \in Supported \ ToSet(InEffect)
           /\ Head(todo) = "cachyos" \/ (Head(todo) \in Levels /\ "cachyos" \in ToSet(InEffect))
<1>1. todo # <<>> /\ Head(todo) \in Supported /\ todo \in {Selected, Tail(Selected), <<>>}
  BY DEF ReposInv, TodoInv, Adding
<1>2. Supported \ ToSet(todo) \subseteq ToSet(InEffect) /\ Head(todo) \notin ToSet(InEffect)
  BY DEF ReposInv, FilesInv, DoneInv
<1> QED BY <1>1, <1>2, TodoShape, GenericSupported

\* replace puts the repository in front of the configuration in effect.
LEMMA ReplaceAdds ==
    ASSUME ReposInv, replace, pacman_conf' # Absent
    PROVE  /\ InEffect' = <<Head(todo)>> \o InEffect /\ Conf(InEffect') /\ pacman_conf' = InEffect'
           /\ ToSet(InEffect') = {Head(todo)} \cup ToSet(InEffect)
           /\ \A s \in ToSet(InEffect) : RepoRank[Head(todo)] <= RepoRank[s]
<1>1. call = "replace" /\ pacman_conf = Absent
  BY DEF replace, ReposInv, FilesInv
<1>2. pacman_conf' = pacman_conf_cachyos /\ pacman_conf_cachyos = <<Head(todo)>> \o InEffect
  BY <1>1 DEF replace, ReposInv, FilesInv
<1>3. InEffect' = <<Head(todo)>> \o InEffect
  BY <1>2 DEF InEffect
<1>4. Conf(InEffect)
  BY DEF ReposInv, FilesInv
<1>5. /\ Head(todo) \in Repos /\ Head(todo) \notin ToSet(InEffect)
      /\ Head(todo) = "cachyos" \/ (Head(todo) \in Levels /\ "cachyos" \in ToSet(InEffect))
  BY <1>1, HeadFits DEF Adding
<1> QED BY <1>2, <1>3, <1>4, <1>5, PushConf

\* Every step other than replace leaves the configuration in effect as it is.
LEMMA EffectStays ==
    ASSUME ReposInv, ReposNext, ~(replace /\ pacman_conf' # Absent)
    PROVE  InEffect' = InEffect /\ (pacman_conf' = pacman_conf \/ (backup /\ pacman_conf' = Absent))
<1>1. CASE backup
  <2>1. pacman_conf # Absent
    BY <1>1 DEF backup, ReposInv, FilesInv
  <2> QED BY <1>1, <2>1 DEF backup, InEffect
<1>2. CASE replace
  BY <1>2 DEF replace, InEffect, ReposInv, FilesInv
<1>3. CASE \/ install_cachyos_repos \/ install_cachyos_repos_returns \/ skip_repo
           \/ check_repo \/ copy_file \/ push_repos_front \/ stopped
  BY <1>3 DEF install_cachyos_repos, install_cachyos_repos_returns, skip_repo, check_repo,
              copy_file, push_repos_front, stopped, confs, InEffect
<1> QED BY <1>1, <1>2, <1>3 DEF ReposNext

\* A start that gives up, at whichever call, has left the configuration in effect alone.
LEMMA GivesUp ==
    ASSUME ReposInv, UNCHANGED <<InEffect, Selected, Supported>>,
           call' = "idle", todo' = <<>>, result' \in {"none", "false"}
    PROVE  ReposInv'
BY DEF ReposInv, TodoInv, FilesInv, DoneInv, Adding

\* No step changes the CPU.
LEMMA NextSameCpu == [ReposNext]_repos_vars => UNCHANGED <<cpu, Selected, Supported>>
<1> SUFFICES ASSUME [ReposNext]_repos_vars PROVE UNCHANGED <<cpu, Selected, Supported>>
  OBVIOUS
<1>1. UNCHANGED cpu
  BY DEF ReposNext, repos_vars, install_cachyos_repos, install_cachyos_repos_returns, skip_repo,
         check_repo, copy_file, push_repos_front, backup, replace, stopped
<1> QED BY <1>1, SameCpu

\* Where writes succeed, every call and every stop between two calls keeps the files good.
LEMMA ReposStep == ASSUME ~WritesFail, ReposInv, [ReposNext]_repos_vars PROVE ReposInv'
<1>0. UNCHANGED <<Selected, Supported>>
  BY NextSameCpu
<1>1. CASE UNCHANGED repos_vars
  <2>1. UNCHANGED InEffect
    BY <1>1 DEF repos_vars, confs, InEffect
  <2> QED BY <1>0, <1>1, <2>1
          DEF repos_vars, confs, Sections, ReposInv, TodoInv, FilesInv, DoneInv, Adding
<1>2. CASE install_cachyos_repos
  <2>1. UNCHANGED <<pacman_conf, InEffect>>
    BY <1>2 DEF install_cachyos_repos, confs, InEffect
  <2>2. CASE call' = "check" /\ todo' = Selected /\ result' = "none"
    <3>1. Supported \subseteq ToSet(Selected)
      BY DEF Supported
    <3>2. Supported' \ ToSet(todo') = {}
      BY <1>0, <2>2, <3>1
    <3> QED BY <1>0, <2>1, <2>2, <3>2 DEF ReposInv, TodoInv, FilesInv, DoneInv, Adding
  <2>3. CASE Return("false")
    BY <1>0, <2>1, <2>3, GivesUp DEF Return
  <2> QED BY <1>2, <2>2, <2>3 DEF install_cachyos_repos
<1>3. CASE install_cachyos_repos_returns
  <2>1. UNCHANGED <<pacman_conf, InEffect>> /\ call' = "idle" /\ result' = "true" /\ todo' = <<>>
    BY <1>3 DEF install_cachyos_repos_returns, Return, confs, InEffect
  <2>2. Supported \subseteq Sections(pacman_conf)
    BY <1>3 DEF install_cachyos_repos_returns, ReposInv, DoneInv, ToSet
  <2>3. Sections(pacman_conf)' = Sections(pacman_conf)
    BY <2>1 DEF Sections
  <2> QED BY <1>0, <2>1, <2>2, <2>3 DEF ReposInv, TodoInv, FilesInv, DoneInv, Adding
<1>4. CASE skip_repo
  <2>1. /\ call = "check" /\ todo # <<>> /\ todo' = Tail(todo)
        /\ UNCHANGED <<pacman_conf, InEffect, call, result>>
    BY <1>4 DEF skip_repo, confs, InEffect
  <2>2. Sections(pacman_conf)' = Sections(pacman_conf)
    BY <2>1 DEF Sections
  <2>3. Head(todo) \in Supported => Head(todo) \in Sections(pacman_conf)
    BY <1>4 DEF skip_repo, Supported
  <2>4. /\ ToSet(todo) = {Head(todo)} \cup ToSet(Tail(todo))
        /\ Tail(todo) \in {Selected, Tail(Selected), <<>>}
    BY <2>1, TodoShape DEF ReposInv, TodoInv
  <2>5. Supported \ ToSet(Tail(todo)) \subseteq Sections(pacman_conf)
    BY <2>1, <2>3, <2>4 DEF ReposInv, DoneInv
  <2> QED BY <1>0, <2>1, <2>2, <2>4, <2>5 DEF ReposInv, TodoInv, FilesInv, DoneInv, Adding
<1>5. CASE check_repo
  <2>1. /\ call = "check" /\ call' = "copy_file" /\ todo # <<>>
        /\ UNCHANGED <<pacman_conf, InEffect, todo, result>>
        /\ Head(todo) \notin Sections(pacman_conf)
    BY <1>5 DEF check_repo, Goto, confs, InEffect
  <2>2. Sections(pacman_conf)' = Sections(pacman_conf)
    BY <2>1 DEF Sections
  <2>3. Head(todo) \in Supported
    <3>1. Head(todo) \in ToSet(todo) /\ ToSet(todo) \subseteq ToSet(Selected)
      BY <2>1, TodoShape, TodoOfSelected DEF ReposInv, TodoInv
    <3> QED BY <1>5, <3>1 DEF check_repo, Supported
  <2> QED BY <1>0, <2>1, <2>2, <2>3 DEF ReposInv, TodoInv, FilesInv, DoneInv, Adding
<1>6. CASE copy_file
  <2>1. call = "copy_file" /\ UNCHANGED <<pacman_conf, InEffect>>
    BY <1>6 DEF copy_file, InEffect
  <2>2. CASE /\ pacman_conf # Absent /\ pacman_conf_cachyos' = pacman_conf
             /\ Goto("push_repos_front")
    <3>1. InEffect = pacman_conf /\ Sections(pacman_conf) = ToSet(InEffect)
      BY <2>2 DEF InEffect, Sections
    <3> QED BY <1>0, <2>1, <2>2, <3>1
            DEF Goto, Sections, ReposInv, TodoInv, FilesInv, DoneInv, Adding
  <2>3. CASE Return("false")
    BY <1>0, <2>1, <2>3, GivesUp DEF Return
  <2> QED BY <1>6, <2>2, <2>3 DEF copy_file
<1>7. CASE push_repos_front
  <2>1. /\ call = "push_repos_front" /\ call' = "backup"
        /\ UNCHANGED <<pacman_conf, InEffect, todo, result>>
    BY <1>7 DEF push_repos_front, Goto, InEffect
  <2>2. pacman_conf # Absent /\ pacman_conf_cachyos = pacman_conf /\ InEffect = pacman_conf
    BY <2>1 DEF ReposInv, FilesInv, InEffect
  <2>3. pacman_conf_cachyos' = <<Head(todo)>> \o InEffect
    <3>1. InEffect # <<>>
      BY DEF ReposInv, FilesInv, Conf
    <3> QED BY <1>7, <2>2, <3>1 DEF push_repos_front
  <2> QED BY <1>0, <2>1, <2>2, <2>3 DEF ReposInv, TodoInv, FilesInv, DoneInv, Adding
<1>8. CASE backup
  <2>1. call = "backup" /\ pacman_conf # Absent
    BY <1>8 DEF backup, ReposInv, FilesInv
  <2>2. UNCHANGED InEffect
    BY <1>8, <2>1 DEF backup, InEffect
  <2>3. CASE /\ pacman_conf' = Absent /\ pacman_conf_cachyos' = pacman_conf_cachyos
             /\ Goto("replace")
    BY <1>0, <2>1, <2>2, <2>3 DEF Goto, ReposInv, TodoInv, FilesInv, DoneInv, Adding
  <2>4. CASE Return("false")
    BY <1>0, <2>2, <2>4, GivesUp DEF Return
  <2> QED BY <1>8, <2>3, <2>4 DEF backup
<1>9. CASE replace
  <2>1. call = "replace" /\ pacman_conf = Absent
    BY <1>9 DEF replace, ReposInv, FilesInv
  <2>2. CASE /\ pacman_conf' = pacman_conf_cachyos
             /\ call' = "check" /\ todo' = Tail(todo) /\ result' = result
    <3>1. pacman_conf_cachyos # Absent
      <4>1. Conf(InEffect) /\ pacman_conf_cachyos = <<Head(todo)>> \o InEffect
        BY <2>1 DEF ReposInv, FilesInv
      <4> QED BY <2>1, <4>1, HeadFits, PushConf, ConfSections DEF Adding
    <3>2. /\ Conf(InEffect') /\ pacman_conf' = InEffect'
          /\ ToSet(InEffect') = {Head(todo)} \cup ToSet(InEffect)
      BY <1>9, <2>2, <3>1, ReplaceAdds
    <3>3. /\ ToSet(todo) = {Head(todo)} \cup ToSet(Tail(todo))
          /\ Tail(todo) \in {Selected, Tail(Selected), <<>>}
      BY <2>1, TodoShape DEF ReposInv, TodoInv, Adding
    <3>4. Supported \ ToSet(Tail(todo)) \subseteq ToSet(InEffect')
      BY <2>1, <3>2, <3>3 DEF ReposInv, DoneInv, Adding
    <3>5. Sections(pacman_conf)' = ToSet(InEffect')
      BY <2>2, <3>1, <3>2 DEF Sections
    <3>6. result' # "true"
      BY <2>1, <2>2 DEF ReposInv, DoneInv
    <3> QED BY <1>0, <2>2, <3>2, <3>3, <3>4, <3>5, <3>6
            DEF ReposInv, TodoInv, FilesInv, DoneInv, Adding
  <2>3. CASE Return("false") /\ UNCHANGED pacman_conf
    <3>1. UNCHANGED InEffect
      BY <1>9, <2>3 DEF replace, InEffect
    <3> QED BY <1>0, <2>3, <3>1, GivesUp DEF Return
  <2> QED BY <1>9, <2>2, <2>3 DEF replace
<1>10. CASE stopped
  <2>1. UNCHANGED InEffect
    BY <1>10 DEF stopped, confs, InEffect
  <2> QED BY <1>0, <1>10, <2>1, GivesUp DEF stopped
<1> QED BY <1>1, <1>2, <1>3, <1>4, <1>5, <1>6, <1>7, <1>8, <1>9, <1>10 DEF ReposNext

------------------------------------------------------------------------------
\* The files are good at any time.
LEMMA ReposCorrect == ~WritesFail => (ReposSpec => []ReposInv)
<1> SUFFICES ASSUME ~WritesFail PROVE ReposSpec => []ReposInv
  OBVIOUS
<1>1. ReposInit => ReposInv
  BY ReposStart
<1>2. ReposInv /\ [ReposNext]_repos_vars => ReposInv'
  BY ReposStep
<1> QED BY <1>1, <1>2, PTL DEF ReposSpec

\* The distribution's own repositories stay listed in pacman.conf, or in the backup while
\* there is no pacman.conf, wherever a start fails or is stopped
\* (add_arch_specific_repo renames the file away before it renames the copy into place).
THEOREM RepositoriesKept == ~WritesFail => (ReposSpec => []NothingLost)
<1> SUFFICES ASSUME ~WritesFail PROVE ReposSpec => []NothingLost
  OBVIOUS
<1>1. ReposInv => NothingLost
  <2> SUFFICES ASSUME ReposInv PROVE NothingLost
    OBVIOUS
  <2>1. Conf(InEffect) /\ Sections(InEffect) = ToSet(InEffect)
    BY ConfSections DEF ReposInv, FilesInv
  <2>2. ToSet(Distribution) = {"core", "extra"}
    BY DEF Distribution, ToSet
  <2> QED BY <2>1, <2>2 DEF NothingLost, Conf
<1> QED BY <1>1, ReposCorrect, PTL

\* Whatever the starts before left behind, the repository for this CPU precedes the generic
\* one, which precedes the distribution's, and none is listed twice (push_repos_front).
THEOREM PriorityCorrect == ~WritesFail => (ReposSpec => []Priority)
<1> SUFFICES ASSUME ~WritesFail PROVE ReposSpec => []Priority
  OBVIOUS
<1>1. ReposInv => Priority
  <2> SUFFICES ASSUME ReposInv, pacman_conf # Absent PROVE Ordered(pacman_conf)
    BY DEF Priority, Ordered
  <2> QED BY DEF ReposInv, FilesInv, Conf, InEffect
<1> QED BY <1>1, ReposCorrect, PTL

\* install_cachyos_repos returns true only when every selected repository that this CPU
\* supports is listed.
THEOREM TrueIsHonest == ~WritesFail => (ReposSpec => []TrueMeansListed)
<1> SUFFICES ASSUME ~WritesFail PROVE ReposSpec => []TrueMeansListed
  OBVIOUS
<1>1. ReposInv => TrueMeansListed
  BY DEF ReposInv, DoneInv, TrueMeansListed
<1> QED BY <1>1, ReposCorrect, PTL

\* The five calls that add_arch_specific_repo makes for a repository are one addition to the
\* configuration in effect, in front of all it may take packages from, or nothing.
THEOREM ConfGrows == ~WritesFail => (ReposSpec => ImplementsGrowingConf)
<1> SUFFICES ASSUME ~WritesFail PROVE ReposSpec => ImplementsGrowingConf
  OBVIOUS
<1>1. ReposInit => GC!Init
  <2> SUFFICES ASSUME ReposInit PROVE GC!Init
    OBVIOUS
  <2>1. Conf(InEffect) /\ (pacman_conf = Absent => InEffect = Absent)
    BY ReposStart DEF ReposInv, FilesInv, InEffect, ReposInit
  <2>2. InEffect = pacman_conf
    BY <2>1, ConfSections DEF InEffect
  <2> QED BY <2>2 DEF GC!Init, ReposInit
<1>2. ReposInv /\ [ReposNext]_repos_vars => [GC!Add]_(GC!vars)
  <2> SUFFICES ASSUME ReposInv, [ReposNext]_repos_vars PROVE GC!Add \/ UNCHANGED <<InEffect, Supported>>
    BY DEF GC!vars
  <2>1. UNCHANGED Supported
    BY NextSameCpu
  <2>2. CASE UNCHANGED repos_vars
    BY <2>1, <2>2 DEF repos_vars, confs, InEffect
  <2>3. CASE ReposNext /\ ~(replace /\ pacman_conf' # Absent)
    BY <2>1, <2>3, EffectStays
  <2>4. CASE replace /\ pacman_conf' # Absent
    <3>1. /\ InEffect' = <<Head(todo)>> \o InEffect
          /\ \A s \in ToSet(InEffect) : RepoRank[Head(todo)] <= RepoRank[s]
      BY <2>4, ReplaceAdds
    <3>2. Head(todo) \in Supported \ ToSet(InEffect)
      BY <2>4, HeadFits DEF replace, Adding
    <3> QED BY <2>1, <3>1, <3>2 DEF GC!Add, GC!ToSet, ToSet
  <2> QED BY <2>2, <2>3, <2>4
<1> QED BY <1>1, <1>2, ReposCorrect, PTL DEF ReposSpec, ImplementsGrowingConf, GC!Spec

------------------------------------------------------------------------------
\* The instructions that get_cpu_features reports are the CPU's, and those of the wide
\* registers are only reported when the running system saves them.
LEMMA FeaturesUsable ==
    /\ get_cpu_features \subseteq cpuid.leaf1 \cup cpuid.leaf7
    /\ get_cpu_features \cap {"AVX", "AVX2"} # {} =>
          "OSXSAVE" \in cpuid.leaf1 /\ {"SSE", "AVX"} \subseteq cpuid.mask
    /\ get_cpu_features \cap Avx512 # {} => Registers \subseteq cpuid.mask
BY DEF get_cpu_features, Leaf1, Avx512, Registers

\* get_isa_levels reports a level only with the instructions it is made of.
LEMMA LevelsNeedFeatures ==
    /\ "x86_64_v3" \in get_isa_levels =>
          {"SSSE3", "SSE41", "SSE42", "AVX", "AVX2"} \subseteq get_cpu_features
    /\ "x86_64_v4" \in get_isa_levels =>
          {"SSSE3", "SSE41", "SSE42", "AVX", "AVX2"} \cup Avx512 \subseteq get_cpu_features
BY DEF get_isa_levels

\* What is built for a supported repository runs on this CPU.
LEMMA SupportedRuns ==
    ASSUME NEW r \in Supported
    PROVE  /\ Needs[IsaLevel[r]].cpu \subseteq cpuid.leaf1 \cup cpuid.leaf7
           /\ Needs[IsaLevel[r]].saved \subseteq cpuid.mask
<1>1. IsaLevel[r] \in get_isa_levels /\ IsaLevel[r] \in {"x86_64", "x86_64_v3", "x86_64_v4"}
  <2>1. r \in Repos
    BY SelectedShape DEF Supported, ToSet, Levels, Repos, IsaLevel
  <2> QED BY <2>1 DEF Supported, Repos, IsaLevel
<1>2. CASE IsaLevel[r] = "x86_64"
  BY <1>2 DEF Needs
<1>3. CASE IsaLevel[r] = "x86_64_v3"
  <2>1. {"SSSE3", "SSE41", "SSE42", "AVX", "AVX2"} \subseteq get_cpu_features
    BY <1>1, <1>3, LevelsNeedFeatures
  <2> QED BY <1>3, <2>1, FeaturesUsable DEF Needs, Leaf1
<1>4. CASE IsaLevel[r] = "x86_64_v4"
  <2>1. {"SSSE3", "SSE41", "SSE42", "AVX", "AVX2"} \cup Avx512 \subseteq get_cpu_features
    BY <1>1, <1>4, LevelsNeedFeatures
  <2> QED BY <1>4, <2>1, FeaturesUsable DEF Needs, Leaf1, Leaf7, Avx512
<1> QED BY <1>1, <1>2, <1>3, <1>4

\* A new pacman.conf lists all that the one in the backup lists, and what is new was built
\* for instructions this CPU has and registers the running system saves
\* (get_cpu_features asks for both before get_isa_levels counts an instruction).
THEOREM OnlyAddsCorrect == ~WritesFail => (ReposSpec => OnlyAdds)
<1> SUFFICES ASSUME ~WritesFail PROVE ReposSpec => OnlyAdds
  OBVIOUS
<1> DEFINE Usable(r) == /\ Needs[IsaLevel[r]].cpu \subseteq cpuid.leaf1 \cup cpuid.leaf7
                        /\ Needs[IsaLevel[r]].saved \subseteq cpuid.mask
           Grows == pacman_conf = Absent /\ pacman_conf' # Absent =>
                       /\ Sections(pacman_conf_path_backup) \subseteq Sections(pacman_conf')
                       /\ \A r \in Sections(pacman_conf') \ Sections(pacman_conf_path_backup) :
                             Usable(r)
<1>1. ASSUME ReposInv, [ReposNext]_repos_vars PROVE [Grows]_repos_vars
  <2> HIDE DEF Usable
  <2> SUFFICES ASSUME pacman_conf = Absent, pacman_conf' # Absent
               PROVE  /\ Sections(pacman_conf_path_backup) \subseteq Sections(pacman_conf')
                      /\ \A r \in Sections(pacman_conf') \ Sections(pacman_conf_path_backup) :
                            Usable(r)
    OBVIOUS
  <2>1. replace
    <3>1. ReposNext
      BY <1>1 DEF repos_vars, confs
    <3> QED BY <1>1, <3>1, EffectStays
  <2>2. /\ pacman_conf' = InEffect' /\ Conf(InEffect')
        /\ ToSet(InEffect') = {Head(todo)} \cup ToSet(InEffect)
    BY <1>1, <2>1, ReplaceAdds
  <2>3. Sections(pacman_conf') = {Head(todo)} \cup ToSet(InEffect)
    BY <2>2 DEF Sections
  <2>4. Sections(pacman_conf_path_backup) = ToSet(InEffect)
    <3>1. InEffect = pacman_conf_path_backup /\ Conf(InEffect)
      BY <1>1 DEF InEffect, ReposInv, FilesInv
    <3> QED BY <3>1, ConfSections
  <2>5. Usable(Head(todo))
    <3>1. Head(todo) \in Supported
      BY <1>1, <2>1 DEF replace, ReposInv, TodoInv, Adding
    <3> QED BY <3>1, SupportedRuns DEF Usable
  <2> QED BY <2>3, <2>4, <2>5
<1>2. ReposSpec => [][Grows]_repos_vars
  <2> HIDE DEF Grows
  <2> QED BY <1>1, ReposCorrect, PTL DEF ReposSpec
<1> QED BY <1>2 DEF OnlyAdds

------------------------------------------------------------------------------
\* With the variables' types, whether writes succeed or not: a repository is being added in
\* the calls for it, and push_repos_front has a copy to write to.
TypeInv ==
    /\ ReposTypeOK
    /\ call \in Adding => todo # <<>>
    /\ call = "push_repos_front" => pacman_conf_cachyos # Absent

\* The variables keep their types, even when writes fail.
LEMMA NextTypeInv == ASSUME TypeInv, [ReposNext]_repos_vars PROVE TypeInv'
<1>0. <<>> \in Seq(Repos) /\ <<>> \in FileType /\ Absent \in FileType
  BY DEF FileType
<1> USE DEF TypeInv, ReposTypeOK, Adding
<1>1. CASE UNCHANGED repos_vars
  BY <1>1 DEF repos_vars, confs, cpu
<1>2. CASE install_cachyos_repos
  <2>1. Selected \in Seq(Repos)
    <3>1. Levels \subseteq Repos /\ "cachyos" \in Repos
      BY DEF Levels, Repos, IsaLevel
    <3>2. \A l \in Levels : <<"cachyos">> \in Seq(Repos) /\ <<"cachyos", l>> \in Seq(Repos)
      <4> TAKE l \in Levels
      <4>1. l \in Repos /\ "cachyos" \in Repos
        BY <3>1
      <4> HIDE DEF Repos
      <4> QED BY <4>1
    <3>3. <<"cachyos">> \in Seq(Repos)
      BY <3>1
    <3> QED BY <3>2, <3>3, SelectedShape
  <2>2. starts + 1 \in 0..MaxStarts
    BY <1>2, ReposAssumption DEF install_cachyos_repos
  <2> QED BY <1>0, <1>2, <2>1, <2>2 DEF install_cachyos_repos, Return, confs, cpu
<1>3. CASE install_cachyos_repos_returns
  BY <1>0, <1>3 DEF install_cachyos_repos_returns, Return, confs, cpu
<1>4. CASE skip_repo
  <2>1. Tail(todo) \in Seq(Repos)
    BY <1>4 DEF skip_repo
  <2> QED BY <1>4, <2>1 DEF skip_repo, confs, cpu
<1>5. CASE check_repo
  BY <1>5 DEF check_repo, Goto, confs, cpu
<1>6. CASE copy_file
  BY <1>0, <1>6 DEF copy_file, Goto, Return, cpu
<1>7. CASE push_repos_front
  <2>1. /\ pacman_conf_cachyos \in Seq(Repos \cup ToSet(Distribution))
        /\ Head(todo) \in Repos
    BY <1>7 DEF push_repos_front, FileType
  <2>2. <<Head(todo)>> \o pacman_conf_cachyos \in FileType
    BY <2>1 DEF FileType
  <2> QED BY <1>0, <1>7, <2>2 DEF push_repos_front, Goto, cpu
<1>8. CASE backup
  BY <1>0, <1>8 DEF backup, Goto, Return, cpu
<1>9. CASE replace
  <2>1. Tail(todo) \in Seq(Repos)
    BY <1>9 DEF replace
  <2> QED BY <1>0, <1>9, <2>1 DEF replace, Return, cpu
<1>10. CASE stopped
  BY <1>0, <1>10 DEF stopped, confs, cpu
<1> QED BY <1>1, <1>2, <1>3, <1>4, <1>5, <1>6, <1>7, <1>8, <1>9, <1>10 DEF ReposNext

\* The files, the repositories still to be added and the program counter keep their types,
\* whichever calls fail.
THEOREM ReposTypes == ReposSpec => []ReposTypeOK
<1>1. ReposInit => TypeInv
  <2> SUFFICES ASSUME ReposInit PROVE TypeInv
    OBVIOUS
  <2>1. pacman_conf \in FileType
    <3>1. pacman_conf \in Seq(Listable)
      BY ReposStart, ConfSections DEF ReposInv, FilesInv, InEffect, Conf, ReposInit
    <3>2. Listable = Repos \cup ToSet(Distribution)
      BY DEF Listable, Distribution, ToSet
    <3> QED BY <3>1, <3>2 DEF FileType
  <2>2. Absent \in FileType /\ <<>> \in Seq(Repos)
    BY DEF FileType
  <2> QED BY <2>1, <2>2, ReposAssumption DEF ReposInit, TypeInv, ReposTypeOK, Adding
<1>2. TypeInv /\ [ReposNext]_repos_vars => TypeInv'
  BY NextTypeInv
<1>3. TypeInv => ReposTypeOK
  BY DEF TypeInv
<1> QED BY <1>1, <1>2, <1>3, PTL DEF ReposSpec
==============================================================================
