--------------------------- MODULE BootloaderProofs ---------------------------
(****************************************************************************)
(* Bootloader for any devices and any number of passes, mounts and          *)
(* installations: type correctness, and that what the passes leave in       *)
(* Config is enough for grub to unlock the root and to read /boot.          *)
(****************************************************************************)
EXTENDS Bootloader, SequenceTheorems, TLAPS

\* No root is mounted before it is chosen.  The first word of LUKS_DEV is its,
\* from the moment a root of TYPE crypt is mounted in the advanced mode.
RootFirst ==
    /\ at = "root" => mounted["/"] = None /\ count < MaxMounts
    /\ (mode = "advanced" /\ mounted["/"] # None /\ Type(mounted["/"]) = "crypt") =>
          LUKS_DEV # <<>> /\ Head(LUKS_DEV) = Word("container", mounted["/"])

\* LVM_SEP_BOOT tells what was entered last for /boot, in whichever pass.
BootOnLvm == boot_part # None => LVM_SEP_BOOT = sep_boot(boot_part)

\* A key is in a slot.
KeyCount == \A d \in Devices : key[d].added <= key[d].slots

\* What grub.cfg is asked for holds of the file it is made of, too.
GrubReady == (mode = "advanced" => Unlocks(grub)) /\ (SYSTEM = "BIOS" => Preloads(grub))

\* The inductive invariant.
BootInv ==
    /\ TypeOK /\ RootFirst /\ BootOnLvm /\ KeyCount
    /\ CryptRootUnlocked /\ LvmBootPreloaded /\ KeySlotsLeft /\ KeyFileUsable /\ GrubAgrees /\ GrubReady

------------------------------------------------------------------------------
(* The operators.                                                           *)

\* Appending a word leaves a sequence of words, not empty, with the same head.
LEMMA Appended ==
    ASSUME NEW s \in Seq(CryptWord), NEW w \in CryptWord
    PROVE  /\ Append(s, w) \in Seq(CryptWord) /\ Append(s, w) # <<>>
           /\ s # <<>> => Head(Append(s, w)) = Head(s)
           /\ s = <<>> => Head(Append(s, w)) = w
OBVIOUS

LEMMA Words ==
    ASSUME NEW d \in Devices
    PROVE  Word("container", d) \in CryptWord /\ Word("filesystem", d) \in CryptWord
BY DEF Word, CryptWord

\* query_partition keeps the types, and puts a word behind those that are there.
LEMMA Query ==
    ASSUME NEW d \in Devices, NEW luks0 \in {0, 1}, NEW lvm0 \in {0, 1},
           NEW dev0 \in Seq(CryptWord), query_partition(d, luks0, lvm0, dev0)
    PROVE  /\ LUKS' \in {0, 1} /\ LVM' \in {0, 1} /\ LUKS_DEV' \in Seq(CryptWord)
           /\ dev0 # <<>> => LUKS_DEV' # <<>> /\ Head(LUKS_DEV') = Head(dev0)
           /\ (dev0 = <<>> /\ Type(d) = "crypt") =>
                 LUKS_DEV' # <<>> /\ Head(LUKS_DEV') = Word("container", d)
BY Appended, Words DEF query_partition

\* What is listed at /boot changes LUKS_DEV only behind its first word.
LEMMA Cryptboot ==
    ASSUME LUKS_DEV \in Seq(CryptWord), NEW listed \in SUBSET Devices, get_cryptboot(listed)
    PROVE  /\ LUKS_DEV' \in Seq(CryptWord)
           /\ LUKS_DEV # <<>> => LUKS_DEV' # <<>> /\ Head(LUKS_DEV') = Head(LUKS_DEV)
BY Appended, Words DEF get_cryptboot

\* A mount at /boot keeps the types, and leaves the root.
LEMMA Placed ==
    ASSUME NEW d \in Devices, mounted \in [Points -> Devices \cup {None}],
           hidden \subseteq Devices, mount_boot(d) \/ UNCHANGED <<mounted, hidden>>
    PROVE  /\ mounted' \in [Points -> Devices \cup {None}] /\ hidden' \subseteq Devices
           /\ mounted'["/"] = mounted["/"]
BY DEF mount_boot, ListedAtBoot, Points

\* The key file's set-up keeps the facts about keys, one container at a time.
LEMMA Keyfile ==
    ASSUME TypeOK, KeyCount, KeySlotsLeft, KeyFileUsable, NEW d \in Devices, setup_luks_keyfile(d)
    PROVE  /\ key' \in [Devices -> [slots : 0..8, file : BOOLEAN, added : 0..8]]
           /\ files' \in [Devices -> BOOLEAN] /\ image' \in [Devices -> BOOLEAN]
           /\ KeyCount' /\ KeySlotsLeft' /\ KeyFileUsable'
<1>1. CASE UNCHANGED luks
  BY <1>1 DEF luks, TypeOK, KeyCount, KeySlotsLeft, KeyFileUsable
<1>2. CASE key[d].slots < 4 /\ luks1_setup_keyfile(d)
  <2>1. PICK ok \in 0..3 :
          LET adds == ok >= 1 /\ key[d].file /\ HoldsKeys(d) IN
          /\ key' = IF adds THEN [key EXCEPT ![d].slots = @ + 1, ![d].added = @ + 1] ELSE key
          /\ files' = [files EXCEPT ![d] = @ \/ (adds /\ ok >= 2)]
          /\ image' = [image EXCEPT ![d] = IF adds /\ ok = 3 THEN files'[d] ELSE @]
    BY <1>2 DEF luks1_setup_keyfile
  <2> DEFINE adds == ok >= 1 /\ key[d].file /\ HoldsKeys(d)
  <2>2. key[d].slots \in 0..3 /\ key[d].added \in 0..3 /\ key[d].file \in BOOLEAN
    <3>1. key[d] \in [slots : 0..8, file : BOOLEAN, added : 0..8]
      BY DEF TypeOK
    <3>2. key[d].added <= key[d].slots
      BY DEF KeyCount
    <3>3. key[d].slots \in 0..8 /\ key[d].added \in 0..8 /\ key[d].file \in BOOLEAN
      BY <3>1
    <3> QED BY <1>2, <3>2, <3>3
  <2>3. key' = IF adds THEN [key EXCEPT ![d] = [slots |-> key[d].slots + 1, file |-> key[d].file,
                                                added |-> key[d].added + 1]]
               ELSE key
    BY <2>1, <2>2 DEF TypeOK
  <2>4. key' \in [Devices -> [slots : 0..8, file : BOOLEAN, added : 0..8]]
    BY <2>2, <2>3 DEF TypeOK
  <2>5. /\ \A e \in Devices \ {d} : key'[e] = key[e]
        /\ adds => key'[d].slots = key[d].slots + 1 /\ key'[d].added = key[d].added + 1
        /\ ~adds => key'[d] = key[d]
    BY <2>2, <2>3 DEF TypeOK
  <2>6. \A e \in Devices : key[e].added \in 0..8 /\ key[e].slots \in 0..8
    BY DEF TypeOK
  <2>7. KeyCount' /\ KeySlotsLeft'
    BY <2>2, <2>5, <2>6 DEF KeyCount, KeySlotsLeft
  <2>8. files' \in [Devices -> BOOLEAN] /\ image' \in [Devices -> BOOLEAN]
    <3>1. (files[d] \/ (adds /\ ok >= 2)) \in BOOLEAN
      OBVIOUS
    <3>2. files' \in [Devices -> BOOLEAN]
      BY <2>1, <3>1 DEF TypeOK
    <3>3. files'[d] \in BOOLEAN /\ image[d] \in BOOLEAN
      BY <3>2 DEF TypeOK
    <3> QED BY <2>1, <3>2, <3>3 DEF TypeOK
  <2>9. KeyFileUsable'
    <3>1. ASSUME NEW e \in Devices \ {d}, files'[e] \/ image'[e] PROVE key'[e].added > 0
      <4>1. files'[e] = files[e] /\ image'[e] = image[e]
        BY <2>1 DEF TypeOK
      <4> QED BY <2>5, <3>1, <4>1 DEF KeyFileUsable
    <3>2. ASSUME files'[d] \/ image'[d] PROVE key'[d].added > 0
      <4>1. CASE adds
        BY <2>2, <2>5, <4>1
      <4>2. CASE ~adds
        <5>1. files'[d] = (files[d] \/ (adds /\ ok >= 2))
          BY <2>1 DEF TypeOK
        <5>2. image'[d] = image[d]
          BY <2>1, <4>2 DEF TypeOK
        <5>3. files[d] \/ image[d]
          BY <3>2, <4>2, <5>1, <5>2
        <5> QED BY <2>5, <4>2, <5>3 DEF KeyFileUsable
      <4> QED BY <4>1, <4>2
    <3> QED BY <3>1, <3>2 DEF KeyFileUsable
  <2> QED BY <2>4, <2>7, <2>8, <2>9
<1> QED BY <1>1, <1>2 DEF setup_luks_keyfile

\* The options made from Config are of their type, and they unlock and preload.
LEMMA Options ==
    ASSUME BootInv, mounted["/"] # None
    PROVE  /\ grub_config \in GrubConfig
           /\ (mode = "advanced" /\ Type(mounted["/"]) = "crypt") =>
                 grub_config.crypt = Word("container", mounted["/"])
           /\ (SYSTEM = "BIOS" /\ boot_part # None) => (grub_config.lvm <=> Type(boot_part) = "lvm")
           /\ grub_config.root = mounted["/"] /\ grub_config.boot_part = boot_part
<1> USE DEF BootInv
<1>1. /\ mounted["/"] \in Devices /\ mounted["/boot"] \in Devices \cup {None}
      /\ boot_part \in Devices \cup {None}
  BY DEF TypeOK, Points
<1>2. Crypt \in CryptWord \cup {None}
  BY DEF Crypt, TypeOK
<1>3. fde \in BOOLEAN
  <2>1. /\ (LUKS = 1 \/ Encrypted(mounted["/"])) \in BOOLEAN
        /\ (\E d \in ListedAtBoot : Type(d) = "crypt" \/ (ListedAtBoot = {d} /\ Encrypted(d))) \in BOOLEAN
    BY DEF Encrypted
  <2> QED BY <2>1 DEF fde
<1>4. grub_config \in GrubConfig
  BY <1>1, <1>2, <1>3 DEF grub_config, GrubConfig
<1>5. (mode = "advanced" /\ Type(mounted["/"]) = "crypt") =>
         Crypt = Word("container", mounted["/"])
  BY DEF RootFirst, Crypt
<1>6. boot_part # None => (((LVM = 1 /\ LVM_SEP_BOOT = 0) \/ LVM_SEP_BOOT = 2) <=> Type(boot_part) = "lvm")
  BY DEF BootOnLvm, sep_boot
<1> QED BY <1>4, <1>5, <1>6 DEF grub_config

\* The file that is written has the options.
LEMMA Written ==
    ASSUME BootInv, mounted["/"] # None
    PROVE  /\ write_grub_config \in GrubFile
           /\ write_grub_config.root = grub_config.root
           /\ write_grub_config.boot_part = grub_config.boot_part
           /\ write_grub_config.crypt = grub_config.crypt
           /\ write_grub_config.lvm = grub_config.lvm
<1>1. grub_config \in GrubConfig
  BY Options
<1>2. write_grub_config \in GrubFile
  BY <1>1 DEF write_grub_config, GrubFile
<1> QED BY <1>2 DEF write_grub_config, gen_grub_config

\* install_grub keeps the facts about grub's files.
LEMMA Grub ==
    ASSUME BootInv, mounted["/"] # None, NEW ok \in 0..3, NEW bootid \in BootIds,
           install_grub(ok, bootid), UNCHANGED where
    PROVE  /\ grub' \in GrubFile \cup {None} /\ grub_cfg' \in GrubFile \cup {None}
           /\ efi' \in [BootIds -> Binaries]
           /\ report' \in {"failed", "grub"} /\ (ok = 3 => report' = "grub")
           /\ CryptRootUnlocked' /\ LvmBootPreloaded' /\ GrubAgrees' /\ GrubReady'
<1> USE DEF BootInv
<1>1. grub' \in GrubFile \cup {None} /\ grub_cfg' \in GrubFile \cup {None}
  BY Written DEF install_grub, TypeOK
<1>2. efi' \in [BootIds -> Binaries]
  BY DEF install_grub, TypeOK, Binaries
<1>3. report' \in {"failed", "grub"} /\ (ok = 3 => report' = "grub")
  BY DEF install_grub
<1>4. grub_cfg' = grub_cfg \/ grub_cfg' = write_grub_config
  BY DEF install_grub
<1>w. (mode = "advanced" => Unlocks(write_grub_config)) /\ (SYSTEM = "BIOS" => Preloads(write_grub_config))
  BY Options, Written DEF Unlocks, Preloads, AsEntered
<1>5. CryptRootUnlocked'
  BY <1>4, <1>w DEF CryptRootUnlocked, where
<1>6. LvmBootPreloaded'
  BY <1>4, <1>w DEF LvmBootPreloaded, where
<1>7. GrubAgrees'
  BY DEF install_grub, GrubAgrees
<1>8. GrubReady'
  <2>1. grub' = grub \/ grub' = write_grub_config
    BY DEF install_grub
  <2> QED BY <1>w, <2>1 DEF GrubReady, where
<1> QED BY <1>1, <1>2, <1>3, <1>5, <1>6, <1>7, <1>8

------------------------------------------------------------------------------
(* The invariant.                                                           *)

LEMMA BootInit == Init => BootInv
<1> SUFFICES ASSUME Init PROVE BootInv
  OBVIOUS
<1> USE DevicesAssumption DEF Init
<1>1. /\ mounted \in [Points -> Devices \cup {None}] /\ mounted["/"] = None
      /\ hidden \subseteq Devices /\ boot_part = None
  BY DEF Points
<1>2. PICK used \in InitialKeys :
        key = [d \in Devices |-> [slots |-> IF HoldsKeys(d) THEN used.slots ELSE 0,
                                  file |-> used.file, added |-> 0]]
  OBVIOUS
<1>3. used.slots \in 0..8 /\ used.file \in BOOLEAN
  OBVIOUS
<1>4. key \in [Devices -> [slots : 0..8, file : BOOLEAN, added : 0..8]]
  BY <1>2, <1>3
<1>5. \A d \in Devices : key[d].added = 0 /\ key[d].slots \in 0..8
  BY <1>2, <1>3
<1>6. files \in [Devices -> BOOLEAN] /\ image \in [Devices -> BOOLEAN]
  OBVIOUS
<1>7. \A d \in Devices : ~files[d] /\ ~image[d]
  OBVIOUS
<1>8. efi \in [BootIds -> Binaries] /\ bootx64 \in Binaries
  <2>1. PICK old \in {None, "old"} : efi = [id \in BootIds |-> IF id = "cachyos" THEN old ELSE None]
    OBVIOUS
  <2> QED BY <2>1 DEF Binaries
<1>9. passes \in 0..MaxPasses /\ count \in 0..MaxMounts /\ installs \in 0..MaxInstalls
  OBVIOUS
<1>10. LUKS_DEV \in Seq(CryptWord)
  OBVIOUS
<1>11. autodetect \in BOOLEAN /\ params \in Seq(CryptWord) \cup {None}
  OBVIOUS
<1>12. TypeOK
  BY <1>1, <1>4, <1>6, <1>8, <1>9, <1>10, <1>11 DEF TypeOK
<1>13. KeyCount /\ KeySlotsLeft
  BY <1>5 DEF KeyCount, KeySlotsLeft
<1>14. KeyFileUsable
  BY <1>7 DEF KeyFileUsable
<1> QED BY <1>1, <1>12, <1>13, <1>14 DEF BootInv, RootFirst, BootOnLvm, CryptRootUnlocked,
           LvmBootPreloaded, GrubAgrees, GrubReady, Unlocks, Preloads, AsEntered

\* A step that mounts, and leaves the keys and the boot loader's files alone.
LEMMA MountStep ==
    ASSUME BootInv, UNCHANGED <<where, luks, loader>>, TypeOK', RootFirst', BootOnLvm'
    PROVE  BootInv'
BY DEF BootInv, where, luks, loader, KeyCount, CryptRootUnlocked, LvmBootPreloaded, KeySlotsLeft,
       KeyFileUsable, GrubAgrees, GrubReady

\* An installation leaves the mounts and Config alone.
LEMMA InstallStep ==
    ASSUME BootInv, UNCHANGED <<where, passes, count, places, config>>, TypeOK',
           at' \in {at, "terminated"},
           KeyCount', KeySlotsLeft', KeyFileUsable', CryptRootUnlocked', LvmBootPreloaded',
           GrubAgrees', GrubReady'
    PROVE  BootInv'
BY DEF BootInv, where, places, config, RootFirst, BootOnLvm

\* One that is not of grub leaves the keys and grub's files alone, too.
LEMMA OtherStep ==
    ASSUME BootInv, UNCHANGED <<where, passes, count, places, config, luks, grub, grub_cfg>>,
           TypeOK', at' \in {at, "terminated"}, report' \in {report, "failed", "refind", "systemd-boot", "limine"}
    PROVE  BootInv'
<1>1. /\ KeyCount' /\ KeySlotsLeft' /\ KeyFileUsable' /\ CryptRootUnlocked' /\ LvmBootPreloaded'
      /\ GrubReady'
  BY DEF BootInv, where, luks, KeyCount, CryptRootUnlocked, LvmBootPreloaded, KeySlotsLeft,
         KeyFileUsable, GrubReady
<1>2. GrubAgrees'
  BY DEF BootInv, GrubAgrees
<1> QED BY <1>1, <1>2, InstallStep
\* Every step keeps the invariant.
LEMMA BootStep ==
    ASSUME BootInv, [Next]_vars
    PROVE  BootInv'
<1> USE DevicesAssumption
<1>0. TypeOK /\ RootFirst /\ BootOnLvm
  BY DEF BootInv
<1>1. ASSUME mount_partitions PROVE BootInv'
  <2>1. mounted' \in [Points -> Devices \cup {None}] /\ mounted'["/"] = None /\ hidden' = {}
    BY <1>1 DEF mount_partitions, Points
  <2>2. /\ passes' \in 0..MaxPasses /\ count' \in 0..MaxMounts /\ count' < MaxMounts
        /\ at' \in {"root", "mounting"}
    BY <1>0, <1>1 DEF mount_partitions, TypeOK
  <2>3. UNCHANGED <<where, installs, boot_part, config, luks, loader>>
    BY <1>1 DEF mount_partitions
  <2>4. TypeOK'
    BY <1>0, <2>1, <2>2, <2>3 DEF TypeOK, where, config, luks, loader
  <2>5. RootFirst' /\ BootOnLvm'
    BY <1>0, <2>1, <2>2, <2>3 DEF RootFirst, BootOnLvm, sep_boot, Type, config
  <2> QED BY <2>3, <2>4, <2>5, MountStep
<1>2. ASSUME apply_root_partition_actions PROVE BootInv'
  <2>1. PICK d \in Devices :
          \/ mounted' = [mounted EXCEPT !["/"] = d] /\ query_partition(d, 0, 0, <<>>)
          \/ UNCHANGED mounted /\ LUKS' = 0 /\ LVM' = 0 /\ LUKS_DEV' = <<>>
    BY <1>2 DEF apply_root_partition_actions, mount_root
  <2>2. /\ UNCHANGED <<where, passes, installs, boot_part, LVM_SEP_BOOT, LUKS_ROOT_NAME, luks, loader>>
        /\ UNCHANGED hidden
    BY <1>2 DEF apply_root_partition_actions, mount_root
  <2>3. <<>> \in Seq(CryptWord)
    OBVIOUS
  <2>4. LUKS' \in {0, 1} /\ LVM' \in {0, 1} /\ LUKS_DEV' \in Seq(CryptWord)
    BY <2>1, <2>3, Query
  <2>5. mounted["/"] = None /\ at' = "mounting"
    BY <1>0, <1>2 DEF RootFirst, apply_root_partition_actions
  <2>6. mounted' \in [Points -> Devices \cup {None}]
    BY <1>0, <2>1 DEF TypeOK, Points
  <2>7. (mounted'["/"] # None /\ Type(mounted'["/"]) = "crypt") =>
           LUKS_DEV' # <<>> /\ Head(LUKS_DEV') = Word("container", mounted'["/"])
    <3>1. CASE UNCHANGED mounted
      BY <2>5, <3>1
    <3>2. CASE mounted' = [mounted EXCEPT !["/"] = d] /\ query_partition(d, 0, 0, <<>>)
      <4>1. mounted'["/"] = d
        BY <1>0, <3>2 DEF TypeOK, Points
      <4> QED BY <2>3, <3>2, <4>1, Query
    <3> QED BY <2>1, <3>1, <3>2
  <2>8. RootFirst' /\ BootOnLvm'
    BY <1>0, <2>2, <2>5, <2>7 DEF RootFirst, BootOnLvm
  <2>9. count' \in 0..MaxMounts
    BY <1>0, <1>2 DEF apply_root_partition_actions, RootFirst, TypeOK
  <2>10. TypeOK'
    BY <1>0, <2>2, <2>4, <2>5, <2>6, <2>9 DEF TypeOK, where, luks, loader
  <2> QED BY <2>2, <2>8, <2>10, MountStep
<1>3. ASSUME mount_current_partition PROVE BootInv'
  <2>1. PICK d \in Devices : enter_boot(d) \/ enter_elsewhere(d) \/ enter_root(d)
    BY <1>3 DEF mount_current_partition
  <2>2. UNCHANGED <<where, at, passes, installs, LUKS_ROOT_NAME, luks, loader>>
    BY <1>3 DEF mount_current_partition
  <2>3. at = "mounting" /\ at' = "mounting" /\ count' \in 0..MaxMounts
    BY <1>0, <1>3 DEF mount_current_partition, TypeOK
  <2>4. \/ query_partition(d, LUKS, LVM, LUKS_DEV)
        \/ UNCHANGED <<LUKS, LVM, LUKS_DEV>>
    BY <2>1 DEF enter_boot, enter_elsewhere, enter_root
  <2>5. /\ LUKS' \in {0, 1} /\ LVM' \in {0, 1} /\ LUKS_DEV' \in Seq(CryptWord)
        /\ LUKS_DEV # <<>> => LUKS_DEV' # <<>> /\ Head(LUKS_DEV') = Head(LUKS_DEV)
    <3>1. LUKS \in {0, 1} /\ LVM \in {0, 1} /\ LUKS_DEV \in Seq(CryptWord)
      BY <1>0 DEF TypeOK
    <3> QED BY <2>4, <3>1, Query
  <2>6. /\ mounted' \in [Points -> Devices \cup {None}] /\ hidden' \subseteq Devices
        /\ mode = "advanced" => mounted'["/"] = mounted["/"]
    <3>1. CASE enter_boot(d)
      BY <1>0, <3>1, Placed DEF enter_boot, TypeOK
    <3>2. CASE enter_elsewhere(d)
      BY <1>0, <3>2 DEF enter_elsewhere, places, TypeOK
    <3>3. CASE enter_root(d)
      BY <1>0, <3>3 DEF enter_root, mount_root, TypeOK
    <3> QED BY <2>1, <3>1, <3>2, <3>3
  <2>7. BootOnLvm' /\ boot_part' \in Devices \cup {None} /\ LVM_SEP_BOOT' \in 0..2
    <3>1. CASE enter_boot(d)
      BY <3>1 DEF enter_boot, BootOnLvm, sep_boot
    <3>2. CASE enter_elsewhere(d) \/ enter_root(d)
      BY <1>0, <3>2 DEF enter_elsewhere, enter_root, places, TypeOK, BootOnLvm
    <3> QED BY <2>1, <3>1, <3>2
  <2>8. RootFirst'
    BY <1>0, <2>2, <2>3, <2>5, <2>6 DEF RootFirst, where
  <2>9. TypeOK'
    BY <1>0, <2>2, <2>3, <2>5, <2>6, <2>7 DEF TypeOK, where, luks, loader
  <2> QED BY <2>2, <2>7, <2>8, <2>9, MountStep
<1>4. ASSUME make_esp PROVE BootInv'
  <2>1. /\ \/ UNCHANGED <<mounted, hidden>>
           \/ \E d \in Devices : mount_boot(d)
        /\ get_cryptroot /\ get_cryptboot(ListedAtBoot')
        /\ LUKS' = IF MountedAs("/", "crypt") \/ LUKS_DEV' # LUKS_DEV THEN 1 ELSE LUKS
    BY <1>4 DEF make_esp
  <2>2. UNCHANGED <<where, passes, installs, boot_part, LVM, LVM_SEP_BOOT, luks, loader>>
    BY <1>4 DEF make_esp
  <2>3. /\ mounted' \in [Points -> Devices \cup {None}] /\ hidden' \subseteq Devices
        /\ mounted'["/"] = mounted["/"]
    BY <1>0, <2>1, Placed DEF TypeOK
  <2>4. ListedAtBoot' \in SUBSET Devices
    BY <2>3 DEF ListedAtBoot, Points
  <2>5. LUKS_ROOT_NAME' \in Devices \cup {None}
    BY <1>0, <2>1 DEF TypeOK, Points, get_cryptroot, MountedAs
  <2>6. /\ LUKS_DEV' \in Seq(CryptWord)
        /\ LUKS_DEV # <<>> => LUKS_DEV' # <<>> /\ Head(LUKS_DEV') = Head(LUKS_DEV)
    BY <1>0, <2>1, <2>4, Cryptboot DEF TypeOK
  <2>7. LUKS' \in {0, 1}
    BY <1>0, <2>1 DEF TypeOK
  <2>8. at' \in {"menu", "mounting"} /\ count' \in 0..MaxMounts
    BY <1>0, <1>4 DEF make_esp, TypeOK
  <2>9. RootFirst'
    BY <1>0, <2>2, <2>3, <2>6, <2>8 DEF RootFirst, where
  <2>10. BootOnLvm'
    BY <1>0, <2>2 DEF BootOnLvm
  <2>11. TypeOK'
    BY <1>0, <2>2, <2>3, <2>5, <2>6, <2>7, <2>8 DEF TypeOK, where, luks, loader
  <2> QED BY <2>2, <2>9, <2>10, <2>11, MountStep
<1>5. ASSUME mounting_ends PROVE BootInv'
  <2>1. UNCHANGED <<where, passes, count, installs, places, config, luks, loader>> /\ at' = "menu"
    BY <1>5 DEF mounting_ends
  <2>2. TypeOK' /\ RootFirst' /\ BootOnLvm'
    BY <1>0, <2>1 DEF TypeOK, RootFirst, BootOnLvm, where, places, config, luks, loader
  <2> QED BY <2>1, <2>2, MountStep
<1>6. ASSUME Installs PROVE mounted["/"] # None /\ mounted["/"] \in Devices /\ installs' \in 0..MaxInstalls
  BY <1>0, <1>6 DEF Installs, TypeOK, Points
<1>7. ASSUME boot_encrypted_setting, mounted["/"] \in Devices
      PROVE  /\ key' \in [Devices -> [slots : 0..8, file : BOOLEAN, added : 0..8]]
             /\ files' \in [Devices -> BOOLEAN] /\ image' \in [Devices -> BOOLEAN]
             /\ KeyCount' /\ KeySlotsLeft' /\ KeyFileUsable'
  <2>1. CASE setup_luks_keyfile(mounted["/"])
    BY <1>7, <2>1, Keyfile DEF BootInv
  <2>2. CASE UNCHANGED luks
    BY <2>2 DEF BootInv, luks, TypeOK, KeyCount, KeySlotsLeft, KeyFileUsable
  <2> QED BY <1>7, <2>1, <2>2 DEF boot_encrypted_setting
<1>8. ASSUME bios_bootloader PROVE BootInv'
  <2>1. PICK ok \in 0..3 : install_grub(ok, "cachyos")
    BY <1>8 DEF bios_bootloader
  <2>2. UNCHANGED <<where, at, passes, count, places, config, bootx64, autodetect, params>>
    BY <1>8 DEF bios_bootloader
  <2>3. /\ mounted["/"] # None /\ mounted["/"] \in Devices /\ installs' \in 0..MaxInstalls
        /\ boot_encrypted_setting
    BY <1>6, <1>8 DEF bios_bootloader
  <2>4. /\ grub' \in GrubFile \cup {None} /\ grub_cfg' \in GrubFile \cup {None}
        /\ efi' \in [BootIds -> Binaries] /\ report' \in {"failed", "grub"}
        /\ CryptRootUnlocked' /\ LvmBootPreloaded' /\ GrubAgrees' /\ GrubReady'
    BY <2>1, <2>2, <2>3, Grub DEF BootIds
  <2>5. TypeOK'
    BY <1>0, <1>7, <2>2, <2>3, <2>4 DEF TypeOK, where, places, config
  <2> QED BY <1>7, <2>2, <2>3, <2>4, <2>5, InstallStep
<1>9. ASSUME NEW bootid \in BootIds, NEW as_default \in BOOLEAN,
             install_grub_uefi(bootid, as_default)
      PROVE  BootInv'
  <2>1. PICK ok \in 0..3 :
          /\ install_grub(ok, bootid)
          /\ bootx64' = IF as_default /\ copies(ok) /\ efi'["cachyos"] # None THEN efi'["cachyos"]
                        ELSE IF ok >= 2 /\ removable THEN "new" ELSE bootx64
          /\ at' = IF as_default /\ copies(ok) /\ efi'["cachyos"] = None THEN "terminated" ELSE at
    BY <1>9 DEF install_grub_uefi
  <2>2. UNCHANGED <<where, passes, count, places, config, autodetect, params>>
    BY <1>9 DEF install_grub_uefi
  <2>3. /\ mounted["/"] # None /\ mounted["/"] \in Devices /\ installs' \in 0..MaxInstalls
        /\ boot_encrypted_setting
    BY <1>6, <1>9 DEF install_grub_uefi
  <2>4. /\ grub' \in GrubFile \cup {None} /\ grub_cfg' \in GrubFile \cup {None}
        /\ efi' \in [BootIds -> Binaries] /\ report' \in {"failed", "grub"}
        /\ CryptRootUnlocked' /\ LvmBootPreloaded' /\ GrubAgrees' /\ GrubReady'
    BY <2>1, <2>2, <2>3, Grub
  <2>5. bootx64' \in Binaries /\ at' \in {at, "terminated"}
    BY <1>0, <2>1, <2>4 DEF TypeOK, Binaries, BootIds
  <2>6. TypeOK'
    BY <1>0, <1>7, <2>2, <2>3, <2>4, <2>5 DEF TypeOK, where, places, config
  <2> QED BY <1>7, <2>2, <2>3, <2>4, <2>5, <2>6, InstallStep
<1>10. get_kernel_params \in Seq(CryptWord)
  BY <1>0 DEF get_kernel_params, TypeOK
<1>11. ASSUME utils_install_refind PROVE BootInv'
  <2>1. /\ UNCHANGED <<where, at, passes, count, places, config, luks, grub, grub_cfg, efi, bootx64>>
        /\ installs' \in 0..MaxInstalls /\ report' \in {"refind", "failed"}
    BY <1>6, <1>11 DEF utils_install_refind, install_refind
  <2>2. autodetect' \in BOOLEAN
    BY <1>0, <1>11 DEF utils_install_refind, install_refind, RefindInstallConfig, TypeOK
  <2>3. params' \in Seq(CryptWord) \cup {None}
    BY <1>0, <1>10, <1>11 DEF utils_install_refind, install_refind, RefindInstallConfig, TypeOK
  <2>4. TypeOK'
    BY <1>0, <2>1, <2>2, <2>3 DEF TypeOK, where, places, config, luks
  <2> QED BY <2>1, <2>4, OtherStep
<1>12. ASSUME utils_install_systemd_boot PROVE BootInv'
  <2>1. /\ UNCHANGED <<where, at, passes, count, places, config, luks, grub, grub_cfg, efi, bootx64,
                       params>>
        /\ installs' \in 0..MaxInstalls /\ report' \in {"systemd-boot", "failed"}
    BY <1>6, <1>12 DEF utils_install_systemd_boot, install_systemd_boot
  <2>2. autodetect' \in BOOLEAN
    BY <1>0, <1>12 DEF utils_install_systemd_boot, install_systemd_boot, TypeOK
  <2>3. TypeOK'
    BY <1>0, <2>1, <2>2 DEF TypeOK, where, places, config, luks
  <2> QED BY <2>1, <2>3, OtherStep
<1>13. ASSUME utils_install_limine PROVE BootInv'
  <2>1. /\ UNCHANGED <<where, passes, count, places, config, luks, grub, grub_cfg, efi, bootx64,
                       autodetect>>
        /\ installs' \in 0..MaxInstalls /\ report' \in {"limine", "failed", report}
        /\ at' \in {at, "terminated"}
    BY <1>6, <1>13 DEF utils_install_limine, install_limine
  <2>2. params' \in Seq(CryptWord) \cup {None}
    BY <1>0, <1>10, <1>13 DEF utils_install_limine, install_limine, LimineInstallConfig, TypeOK
  <2>3. TypeOK'
    BY <1>0, <2>1, <2>2 DEF TypeOK, where, places, config, luks
  <2> QED BY <2>1, <2>3, OtherStep
<1>14. ASSUME UNCHANGED vars PROVE BootInv'
  <2>1. UNCHANGED <<where, at, passes, count, installs, places, config, luks, loader>>
    BY <1>14 DEF vars
  <2>2. TypeOK' /\ RootFirst' /\ BootOnLvm'
    BY <1>0, <2>1 DEF TypeOK, RootFirst, BootOnLvm, where, places, config, luks, loader
  <2> QED BY <2>1, <2>2, MountStep
<1>15. ASSUME efivarfs_fails PROVE BootInv'
  <2>1. /\ UNCHANGED <<where, passes, count, places, config, luks, loader>>
        /\ installs' \in 0..MaxInstalls /\ at' = "terminated"
    BY <1>6, <1>15 DEF efivarfs_fails
  <2>2. TypeOK' /\ RootFirst' /\ BootOnLvm'
    BY <1>0, <2>1 DEF TypeOK, RootFirst, BootOnLvm, where, places, config, luks, loader
  <2> QED BY <2>1, <2>2, MountStep
<1>16. ASSUME tui_install_bootloader \/ install_bootloader PROVE BootInv'
  <2>1. CASE tui_install_grub_uefi
    BY <1>9, <2>1 DEF tui_install_grub_uefi
  <2>2. CASE install_grub_uefi("cachyos", TRUE)
    BY <1>9, <2>2 DEF BootIds
  <2> QED BY <1>8, <1>11, <1>12, <1>13, <1>15, <1>16, <2>1, <2>2
          DEF tui_install_bootloader, install_bootloader, tui_bios_bootloader, tui_uefi_bootloader,
              uefi_bootloader, tui_install_refind, tui_install_systemd_boot, tui_install_limine
<1>17. ASSUME Reviewed
       PROVE  /\ UNCHANGED <<where, at, passes, count, installs, places, config>>
              /\ mounted["/"] \in Devices /\ grub \in GrubFile
  <2>1. grub \in GrubFile
    BY <1>0, <1>17 DEF Reviewed, TypeOK
  <2>2. PICK c \in GrubConfig : grub = gen_grub_config(c)
    BY <2>1 DEF GrubFile
  <2>3. grub.root \in Devices
    BY <2>2 DEF gen_grub_config, GrubConfig
  <2> QED BY <1>17, <2>1, <2>3 DEF Reviewed
<1>18. ASSUME edit_grub PROVE BootInv'
  <2>1. /\ UNCHANGED <<where, at, passes, count, installs, places, config>>
        /\ UNCHANGED <<luks, grub, efi, bootx64, autodetect, params, report>>
        /\ grub_cfg' \in {grub_cfg, grub}
    BY <1>17, <1>18 DEF edit_grub, grub_mkconfig
  <2>2. TypeOK'
    BY <1>0, <2>1 DEF TypeOK, where, places, config, luks
  <2>3. KeyCount' /\ KeySlotsLeft' /\ KeyFileUsable' /\ GrubReady'
    BY <2>1 DEF BootInv, where, luks, KeyCount, KeySlotsLeft, KeyFileUsable, GrubReady
  <2>4. CryptRootUnlocked' /\ LvmBootPreloaded' /\ GrubAgrees'
    BY <2>1 DEF BootInv, where, GrubReady, CryptRootUnlocked, LvmBootPreloaded, GrubAgrees
  <2> QED BY <2>1, <2>2, <2>3, <2>4, InstallStep
<1>19. ASSUME edit_mkinitcpio PROVE BootInv'
  <2>1. /\ UNCHANGED <<where, at, passes, count, installs, places, config>>
        /\ UNCHANGED <<key, files, loader>>
        /\ image' \in {image, [image EXCEPT ![mounted["/"]] = files[mounted["/"]]]}
    BY <1>17, <1>19 DEF edit_mkinitcpio
  <2>2. files[mounted["/"]] \in BOOLEAN
    BY <1>0, <1>17, <1>19 DEF edit_mkinitcpio, TypeOK
  <2>3. /\ image' \in [Devices -> BOOLEAN]
        /\ \A d \in Devices : image'[d] => image[d] \/ files[d]
    BY <1>0, <2>1, <2>2 DEF TypeOK
  <2>4. TypeOK'
    BY <1>0, <2>1, <2>3 DEF TypeOK, where, places, config, loader
  <2>5. KeyCount' /\ KeySlotsLeft' /\ KeyFileUsable'
    BY <2>1, <2>3 DEF BootInv, KeyCount, KeySlotsLeft, KeyFileUsable
  <2>6. CryptRootUnlocked' /\ LvmBootPreloaded' /\ GrubAgrees' /\ GrubReady'
    BY <2>1 DEF BootInv, where, loader, GrubReady, CryptRootUnlocked, LvmBootPreloaded, GrubAgrees
  <2> QED BY <2>1, <2>4, <2>5, <2>6, InstallStep
<1> QED BY <1>1, <1>2, <1>3, <1>4, <1>5, <1>14, <1>16, <1>18, <1>19 DEF Next

\* In every behaviour every variable keeps its type.
THEOREM BootloaderTypes == Spec => []TypeOK
<1>1. BootInv => TypeOK
  BY DEF BootInv
<1> QED BY <1>1, BootInit, BootStep, PTL DEF Spec

\* A root that is an opened container is unlocked by grub's command line, after any
\* passes, failed mounts and other encrypted partitions of the advanced mode.
THEOREM RootUnlocked == Spec => []CryptRootUnlocked
<1>1. BootInv => CryptRootUnlocked
  BY DEF BootInv
<1> QED BY <1>1, BootInit, BootStep, PTL DEF Spec

\* grub preloads the lvm module on BIOS exactly when a logical volume is at /boot, if
\* that is what was entered last for it, after any passes, failed mounts and repeated
\* entries.
THEOREM LvmPreloaded == Spec => []LvmBootPreloaded
<1>1. BootInv => LvmBootPreloaded
  BY DEF BootInv
<1> QED BY <1>1, BootInit, BootStep, PTL DEF Spec

\* Any number of installations leaves four key slots of a container.
THEOREM SlotsLeft == Spec => []KeySlotsLeft
<1>1. BootInv => KeySlotsLeft
  BY DEF BootInv
<1> QED BY <1>1, BootInit, BootStep, PTL DEF Spec

\* A key file that mkinitcpio.conf or the initramfs lists opens the container.
THEOREM KeyFilesUsable == Spec => []KeyFileUsable
<1>1. BootInv => KeyFileUsable
  BY DEF BootInv
<1> QED BY <1>1, BootInit, BootStep, PTL DEF Spec

\* After a reported success grub.cfg is that of /etc/default/grub.
THEOREM GrubFilesAgree == Spec => []GrubAgrees
<1>1. BootInv => GrubAgrees
  BY DEF BootInv
<1> QED BY <1>1, BootInit, BootStep, PTL DEF Spec

\* No failure replaces the loader the firmware starts by default.
THEOREM DefaultLoaderKept == Spec => DefaultKept
<1>1. ASSUME NEW bootid \in BootIds, NEW as_default \in BOOLEAN,
             install_grub_uefi(bootid, as_default)
      PROVE  bootx64' # bootx64 => removable \/ report' = "grub"
  BY <1>1 DEF install_grub_uefi, install_grub, copies
<1>2. ASSUME [Next]_vars
      PROVE  bootx64' # bootx64 => removable \/ report' = "grub"
  <2>1. CASE tui_install_bootloader \/ install_bootloader
    <3>1. CASE tui_install_grub_uefi
      BY <1>1, <3>1 DEF tui_install_grub_uefi
    <3>2. CASE install_grub_uefi("cachyos", TRUE)
      BY <1>1, <3>2 DEF BootIds
    <3>3. CASE bios_bootloader \/ utils_install_refind \/ utils_install_systemd_boot \/ utils_install_limine
               \/ efivarfs_fails
      BY <3>3 DEF bios_bootloader, utils_install_refind, utils_install_systemd_boot, utils_install_limine,
                  efivarfs_fails, loader
    <3> QED BY <2>1, <3>1, <3>2, <3>3
            DEF tui_install_bootloader, install_bootloader, tui_bios_bootloader,
                tui_uefi_bootloader, uefi_bootloader, tui_install_refind,
                tui_install_systemd_boot, tui_install_limine
  <2>2. CASE \/ mount_partitions \/ apply_root_partition_actions \/ mount_current_partition
             \/ make_esp \/ mounting_ends \/ edit_grub \/ edit_mkinitcpio \/ UNCHANGED vars
    BY <2>2 DEF vars, loader, edit_grub, edit_mkinitcpio, mount_partitions, apply_root_partition_actions,
       mount_current_partition, make_esp, mounting_ends
  <2> QED BY <1>2, <2>1, <2>2 DEF Next
<1>3. [Next]_vars => [bootx64' # bootx64 => removable \/ report' = "grub"]_vars
  BY <1>2
<1> QED BY <1>3, PTL DEF Spec, DefaultKept
===============================================================================
