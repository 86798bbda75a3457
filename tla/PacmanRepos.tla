----------------------------- MODULE PacmanRepos -----------------------------
(****************************************************************************)
(* gucc::repos::install_cachyos_repos() as every start of the installer     *)
(* runs it: for each repository this CPU should get, /etc/pacman.conf is    *)
(* copied to ./pacman.conf, the repository is put in front of the first one *)
(* of the copy, /etc/pacman.conf is renamed to /etc/pacman.conf.bak and the *)
(* copy is renamed to /etc/pacman.conf.  Any of these calls may fail and    *)
(* the installer may be stopped and started again between any two of them.  *)
(* A file is the sequence of its repository sections, or Absent.            *)
(****************************************************************************)
EXTENDS Naturals, Sequences, FiniteSets, SequencesExt

CONSTANTS
    Cpus,           \* the CPUs this may run on: what cpuid and xgetbv answer
    WritesFail,     \* whether writing ./pacman.conf may fail
    MaxStarts       \* bound: starts of the installer

\* The vector registers an operating system may save, and the instructions of levels 2
\* to 4 by the cpuid leaf that reports them.
Registers == {"SSE", "AVX", "opmask", "ZMM_Hi256", "Hi16_ZMM"}
Leaf1 == {"SSSE3", "SSE41", "SSE42", "AVX"}
Avx512 == {"AVX512F", "AVX512VL", "AVX512BW", "AVX512CD", "AVX512DQ"}
Leaf7 == {"AVX2"} \cup Avx512

ASSUME ReposAssumption ==
    /\ Cpus \subseteq [leaf1 : SUBSET (Leaf1 \cup {"OSXSAVE"}), leaf7 : SUBSET Leaf7,
                     max_id : Nat, mask : SUBSET Registers]
    /\ WritesFail \in BOOLEAN /\ MaxStarts \in Nat

VARIABLES
    pacman_conf, pacman_conf_cachyos, pacman_conf_path_backup,
    cpuid, znver45, oracle,         \* the CPU and the virtual machine
    todo,                           \* repositories still to be added
    call,                           \* next call of add_arch_specific_repo
    result,                         \* of the last install_cachyos_repos
    starts

confs == <<pacman_conf, pacman_conf_cachyos, pacman_conf_path_backup>>
cpu == <<cpuid, znver45, oracle>>
repos_vars == <<confs, cpu, todo, call, result, starts>>

\* The ISA level each repository (a block of them, after the first) is for.
IsaLevel == [cachyos |-> "x86_64", znver4 |-> "x86_64_v4",
             v4 |-> "x86_64_v4", v3 |-> "x86_64_v3"]
Repos == DOMAIN IsaLevel
Distribution == <<"core", "extra">>

\* What a live system's pacman.conf may list before the first start.
InitialConfs == {Distribution, <<"cachyos">> \o Distribution,
                 <<"v3", "cachyos">> \o Distribution}

Absent == <<"absent">>
FileType == Seq(Repos \cup ToSet(Distribution)) \cup {Absent}

ReposTypeOK ==
    /\ pacman_conf \in FileType
    /\ pacman_conf_cachyos \in FileType
    /\ pacman_conf_path_backup \in FileType
    /\ cpuid \in Cpus
    /\ znver45 \in BOOLEAN /\ oracle \in BOOLEAN
    /\ todo \in Seq(Repos)
    /\ call \in {"idle", "check", "copy_file", "push_repos_front", "backup", "replace"}
    /\ result \in {"none", "true", "false"}
    /\ starts \in 0..MaxStarts

ReposInit ==
    /\ pacman_conf \in InitialConfs
    /\ pacman_conf_cachyos = Absent /\ pacman_conf_path_backup = Absent
    /\ cpuid \in Cpus
    /\ znver45 \in BOOLEAN /\ oracle \in BOOLEAN
    /\ todo = <<>> /\ call = "idle" /\ result = "none" /\ starts = 0

\* The sections of a file that pacman, and get_repo_list, can read.
Sections(f) == IF f = Absent THEN {} ELSE ToSet(f)

\* Mutant: whether the operating system saves the registers is not asked.
get_cpu_features_unsaved ==
    (cpuid.leaf1 \cap Leaf1) \cup IF cpuid.max_id >= 7 THEN cpuid.leaf7 ELSE {}

\* Leaf 7 is only asked for, and only counts, with the registers it needs.
get_cpu_features ==
    LET saved == IF "OSXSAVE" \in cpuid.leaf1 THEN cpuid.mask ELSE {}
        avx == {"SSE", "AVX"} \subseteq saved
        zmm == avx /\ {"opmask", "ZMM_Hi256", "Hi16_ZMM"} \subseteq saved
        leaf7 == IF cpuid.max_id >= 7 THEN cpuid.leaf7 ELSE {}
    IN  (cpuid.leaf1 \cap (Leaf1 \ {"AVX"}))
            \cup (IF avx THEN (cpuid.leaf1 \cap {"AVX"}) \cup (leaf7 \cap {"AVX2"}) ELSE {})
            \cup (IF zmm THEN leaf7 \cap Avx512 ELSE {})

\* The machine name of uname is x86_64.
get_isa_levels ==
    LET features == get_cpu_features
        v2 == {"SSSE3", "SSE41", "SSE42"} \subseteq features
        v3 == v2 /\ {"AVX", "AVX2"} \subseteq features
        v4 == v3 /\ Avx512 \subseteq features
    IN  {"x86_64"} \cup {l \in {"x86_64_v2", "x86_64_v3", "x86_64_v4"} :
            CASE l = "x86_64_v2" -> v2 [] l = "x86_64_v3" -> v3 [] l = "x86_64_v4" -> v4}

\* gcc of the live system knows the CPU for a Zen 4 or 5.
check_supported_znver45 == znver45

\* Which repositories install_cachyos_repos tries, in this order.
Selected ==
    <<"cachyos">> \o
    CASE oracle -> <<>>
      [] ~oracle /\ check_supported_znver45 -> <<"znver4">>
      [] ~oracle /\ ~check_supported_znver45 /\ "x86_64_v4" \in get_isa_levels -> <<"v4">>
      [] ~oracle /\ ~check_supported_znver45 /\ "x86_64_v4" \notin get_isa_levels
            /\ "x86_64_v3" \in get_isa_levels -> <<"v3">>
      [] OTHER -> <<>>

Return(r) == call' = "idle" /\ result' = r /\ todo' = <<>>
Goto(step) == call' = step /\ UNCHANGED <<todo, result>>

------------------------------------------------------------------------------
\* The installer is started; receiving or signing the key may fail.
install_cachyos_repos ==
    /\ call = "idle" /\ starts < MaxStarts
    /\ starts' = starts + 1
    /\ \/ call' = "check" /\ todo' = Selected /\ result' = "none"
       \/ Return("false")
    /\ UNCHANGED <<confs, cpu>>

\* All repositories are dealt with.
install_cachyos_repos_returns ==
    /\ call = "check" /\ todo = <<>>
    /\ Return("true")
    /\ UNCHANGED <<confs, cpu, starts>>

\* add_arch_specific_repo: not for this CPU, or already there.
skip_repo ==
    /\ call = "check" /\ todo # <<>>
    /\ IsaLevel[Head(todo)] \notin get_isa_levels \/ Head(todo) \in Sections(pacman_conf)
    /\ todo' = Tail(todo)
    /\ UNCHANGED <<confs, cpu, call, result, starts>>

check_repo ==
    /\ call = "check" /\ todo # <<>>
    /\ IsaLevel[Head(todo)] \in get_isa_levels
    /\ Head(todo) \notin Sections(pacman_conf)
    /\ Goto("copy_file")
    /\ UNCHANGED <<confs, cpu, starts>>

\* Mutant: a failed copy only skips the repository.
copy_file_skips ==
    /\ call = "copy_file"
    /\ \/ /\ pacman_conf # Absent /\ pacman_conf_cachyos = Absent
          /\ pacman_conf_cachyos' = pacman_conf /\ Goto("push_repos_front")
       \/ /\ call' = "check" /\ todo' = Tail(todo)
          /\ UNCHANGED <<result, pacman_conf_cachyos>>
    /\ UNCHANGED <<pacman_conf, pacman_conf_path_backup, cpu, starts>>

\* copy_file without overwrite_existing: fails if the copy exists, if there is
\* nothing to copy, or on the way, which leaves an empty copy.
copy_file ==
    /\ call = "copy_file"
    /\ \/ /\ pacman_conf # Absent /\ pacman_conf_cachyos = Absent
          /\ \/ pacman_conf_cachyos' = pacman_conf /\ Goto("push_repos_front")
             \/ pacman_conf_cachyos' = <<>> /\ Return("false")
       \/ /\ pacman_conf = Absent \/ pacman_conf_cachyos # Absent
          /\ Return("false") /\ UNCHANGED pacman_conf_cachyos
    /\ UNCHANGED <<pacman_conf, pacman_conf_path_backup, cpu, starts>>

\* Mutant: the repository goes to the end of the file.
push_repos_front_at_end ==
    /\ call = "push_repos_front" /\ Goto("backup")
    /\ pacman_conf_cachyos' = Append(pacman_conf_cachyos, Head(todo))
    /\ UNCHANGED <<pacman_conf, pacman_conf_path_backup, cpu, starts>>

\* The result is ignored.  Without a section to insert before the copy stays as
\* it is; a write error leaves it empty.
push_repos_front ==
    /\ call = "push_repos_front" /\ Goto("backup")
    /\ pacman_conf_cachyos' \in
          {IF pacman_conf_cachyos = <<>> THEN <<>>
           ELSE <<Head(todo)>> \o pacman_conf_cachyos}
          \cup IF WritesFail THEN {<<>>, pacman_conf_cachyos} ELSE {}
    /\ UNCHANGED <<pacman_conf, pacman_conf_path_backup, cpu, starts>>

\* Mutant: the old file is removed, not renamed.
backup_removes ==
    /\ call = "backup"
    /\ pacman_conf' = Absent /\ Goto("replace")
    /\ UNCHANGED <<pacman_conf_cachyos, pacman_conf_path_backup, cpu, starts>>

backup ==
    /\ call = "backup"
    /\ \/ /\ pacman_conf_path_backup' = pacman_conf /\ pacman_conf' = Absent
          /\ Goto("replace")
       \/ Return("false") /\ UNCHANGED <<pacman_conf, pacman_conf_path_backup>>
    /\ UNCHANGED <<pacman_conf_cachyos, cpu, starts>>

replace ==
    /\ call = "replace"
    /\ \/ /\ pacman_conf' = pacman_conf_cachyos /\ pacman_conf_cachyos' = Absent
          /\ call' = "check" /\ todo' = Tail(todo) /\ UNCHANGED result
       \/ Return("false") /\ UNCHANGED <<pacman_conf, pacman_conf_cachyos>>
    /\ UNCHANGED <<pacman_conf_path_backup, cpu, starts>>

\* The installer is stopped.
stopped ==
    /\ call # "idle"
    /\ call' = "idle" /\ todo' = <<>> /\ result' = "none"
    /\ UNCHANGED <<confs, cpu, starts>>

ReposNext ==
    \/ install_cachyos_repos \/ install_cachyos_repos_returns \/ skip_repo
    \/ check_repo \/ copy_file \/ push_repos_front \/ backup \/ replace \/ stopped

ReposSpec == ReposInit /\ [][ReposNext]_repos_vars

------------------------------------------------------------------------------
(* What should hold.                                                        *)

\* What pacman can be given to read: the backup while there is no pacman.conf.
InEffect == IF pacman_conf = Absent THEN pacman_conf_path_backup ELSE pacman_conf

\* However often the installer fails, is stopped and is started again, the
\* distribution's own repositories stay listed in pacman.conf, or in the backup
\* while there is no pacman.conf.
NothingLost == ToSet(Distribution) \subseteq Sections(InEffect)

RepoRank == [v3 |-> 1, v4 |-> 1, znver4 |-> 1, cachyos |-> 2, core |-> 3, extra |-> 4]

\* pacman takes a package from the first repository that has it: the one built
\* for this CPU precedes the generic one, which precedes the distribution's, and none
\* is listed twice by a start after an interrupted one.
Priority ==
    pacman_conf # Absent =>
        \A i, j \in DOMAIN pacman_conf :
            i < j => /\ RepoRank[pacman_conf[i]] <= RepoRank[pacman_conf[j]]
                     /\ pacman_conf[i] # pacman_conf[j]

\* The selected repositories that this CPU supports.
Supported == {r \in ToSet(Selected) : IsaLevel[r] \in get_isa_levels}

\* install_cachyos_repos returns true only when pacman.conf lists every selected
\* repository this CPU supports.
TrueMeansListed == result = "true" => Supported \subseteq Sections(pacman_conf)

\* What the packages of a level may use: instructions, and registers that are saved.
Needs ==
    LET v3 == Leaf1 \cup {"AVX2", "OSXSAVE"}
    IN  [x86_64 |-> [cpu |-> {}, saved |-> {}],
         x86_64_v3 |-> [cpu |-> v3, saved |-> {"SSE", "AVX"}],
         x86_64_v4 |-> [cpu |-> v3 \cup Leaf7, saved |-> Registers]]

\* A start only ever adds sections: the new pacman.conf has all that the one in the
\* backup has, and what is new was built for instructions this CPU has and registers
\* the running system saves.
OnlyAdds ==
    [][pacman_conf = Absent /\ pacman_conf' # Absent =>
          /\ Sections(pacman_conf_path_backup) \subseteq Sections(pacman_conf')
          /\ \A r \in Sections(pacman_conf') \ Sections(pacman_conf_path_backup) :
                /\ Needs[IsaLevel[r]].cpu \subseteq cpuid.leaf1 \cup cpuid.leaf7
                /\ Needs[IsaLevel[r]].saved \subseteq cpuid.mask]_repos_vars

\* As long as writes succeed, the five calls for a repository are one atomic addition
\* to the configuration in effect, or nothing, wherever they fail or are stopped.
GC == INSTANCE GrowingConf WITH
        Start <- InitialConfs, Rank <- RepoRank, conf <- InEffect, supported <- Supported
ImplementsGrowingConf == GC!Spec
==============================================================================
