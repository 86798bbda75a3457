------------------------------ MODULE DiskProofs ------------------------------
(* Proofs about MountPartitions for every set of partitions, every overlap   *)
(* of their names and any number of calls; then about DiskMenus for any      *)
(* disks, partitions, names and passwords: what the LUKS dialogues say they  *)
(* did is on the disk, and an array never takes an open container's disk.    *)
EXTENDS MountPartitions, DiskMenus, ListLemmas, FiniteSetTheorems, TLAPS

\* The list and the count, with the types they need.
CountInv ==
    /\ disk \subseteq Parts /\ PARTITIONS \subseteq Parts
    /\ NUMBER_PARTITIONS \in Int
    /\ CountCoversList

\* From the umount at the start of a call until make_swap nothing is swapped on,
\* provided that swapoff works.
SwapInv ==
    /\ SwapTracked
    /\ at \in {"root", "root_mkfs", "swap"} => swaps = {}

\* The schema is empty wherever umount_partitions can run or has just run: its
\* swapoff cannot leave an entry without its swap.
SchemaInv ==
    /\ SwapEntryActive
    /\ at \in {"prep_menu", "root", "root_mkfs"} => partitions = {}

------------------------------------------------------------------------------
\* Taking at least one element off a finite set that n covers.
LEMMA Shrinks ==
    ASSUME NEW S, IsFiniteSet(S), NEW p \in S, NEW R, R \subseteq S \ {p},
           NEW n \in Int, n >= Cardinality(S)
    PROVE  n - 1 >= Cardinality(R)
  <1>1. IsFiniteSet(S \ {p}) /\ Cardinality(S \ {p}) = Cardinality(S) - 1
    BY FS_RemoveElement
  <1>2. IsFiniteSet(R) /\ Cardinality(R) <= Cardinality(S \ {p})
    BY <1>1, FS_Subset
  <1>3. Cardinality(S) \in Nat /\ Cardinality(R) \in Nat
    BY <1>2, FS_CardinalityType
  <1> QED  BY <1>1, <1>2, <1>3

\* Erasing the lines that contain a listed partition's name takes off at least
\* that partition's own line.
LEMMA EraseShrinks ==
    ASSUME CountInv, NEW p \in PARTITIONS, UsePartition(p)
    PROVE  PARTITIONS' \subseteq Parts /\ NUMBER_PARTITIONS' \in Int /\ CountCoversList'
  <1>1. PARTITIONS \subseteq Parts /\ IsFiniteSet(PARTITIONS)
    BY PartsAssumption, FS_Subset DEF CountInv
  <1>2. PARTITIONS' \subseteq PARTITIONS \ {p}
    BY <1>1, PartsAssumption DEF UsePartition, contains
  <1>3. NUMBER_PARTITIONS - 1 >= Cardinality(PARTITIONS')
    BY <1>1, <1>2, Shrinks DEF CountInv, CountCoversList
  <1>4. NUMBER_PARTITIONS' = NUMBER_PARTITIONS - 1
    BY DEF UsePartition, contains
  <1>5. CountCoversList'
    BY <1>3, <1>4 DEF CountCoversList
  <1>6. NUMBER_PARTITIONS' \in Int
    BY <1>4 DEF CountInv
  <1> QED  BY <1>1, <1>2, <1>5, <1>6

\* confirm_mount erases, or leaves list and count alone.
LEMMA ConfirmKeepsCount ==
    ASSUME CountInv, NEW p \in PARTITIONS, NEW path, confirm_mount(p, path)
    PROVE  PARTITIONS' \subseteq Parts /\ NUMBER_PARTITIONS' \in Int /\ CountCoversList'
  <1>1. CASE UsePartition(p)  BY <1>1, EraseShrinks
  <1>2. CASE UNCHANGED <<PARTITIONS, NUMBER_PARTITIONS>>
    BY <1>2 DEF CountInv, CountCoversList
  <1> QED  BY <1>1, <1>2 DEF confirm_mount

\* Every dialogue keeps the count at or above the length of the list.
LEMMA NextCount == ASSUME CountInv, [Next]_vars PROVE CountInv'
  <1>1. CASE partition_disk
    BY <1>1 DEF partition_disk, create_partitions, CountInv, CountCoversList
  <1>2. CASE mount_partitions
    <2>1. PARTITIONS' = disk /\ NUMBER_PARTITIONS' = Cardinality(disk)
      BY <1>2 DEF mount_partitions, find_partitions
    <2>2. disk' \subseteq Parts
      BY <1>2 DEF mount_partitions, find_partitions, create_partitions, CountInv
    <2>3. Cardinality(disk) \in Nat
      BY PartsAssumption, FS_Subset, FS_CardinalityType DEF CountInv
    <2> QED  BY <2>1, <2>2, <2>3 DEF CountInv, CountCoversList
  <1>3. CASE make_swap_partition
    <2>1. PICK p \in PARTITIONS : UsePartition(p)
      BY <1>3 DEF make_swap_partition
    <2>2. disk' = disk
      BY <1>3 DEF make_swap_partition
    <2> QED  BY <2>1, <2>2, EraseShrinks DEF CountInv
  <1>4. CASE mount_other_partition
    <2>1. PICK p \in PARTITIONS, path \in {Boot, BootEfi, Home} : confirm_mount(p, path)
      BY <1>4 DEF mount_other_partition, mount_current_partition
    <2>2. disk' = disk
      BY <1>4 DEF mount_other_partition
    <2> QED  BY <2>1, <2>2, ConfirmKeepsCount DEF CountInv
  <1>5. CASE done
    <2>1. disk' = disk
      BY <1>5 DEF done
    <2>2. PICK p \in PARTITIONS :
             \/ UNCHANGED <<mounts, PARTITIONS, NUMBER_PARTITIONS>>
             \/ \E path \in {Boot, BootEfi} : confirm_mount(p, path)
      BY <1>5 DEF done, make_esp
    <2>3. CASE UNCHANGED <<mounts, PARTITIONS, NUMBER_PARTITIONS>>
      BY <2>1, <2>3 DEF CountInv, CountCoversList
    <2>4. CASE \E path \in {Boot, BootEfi} : confirm_mount(p, path)
      BY <2>1, <2>4, ConfirmKeepsCount DEF CountInv
    <2> QED  BY <2>2, <2>3, <2>4
  <1>6. CASE \/ cancel \/ ok_on_empty_menu \/ select_root_partition_info
             \/ format_root \/ apply_root_partition_actions \/ make_swap_not
             \/ make_swapfile \/ extra_cancelled \/ UNCHANGED vars
    BY <1>6 DEF cancel, ok_on_empty_menu, select_root_partition_info, format_root,
       apply_root_partition_actions, make_swap_not, make_swapfile,
       extra_cancelled, vars, CountInv, CountCoversList
  <1> QED  BY <1>1, <1>2, <1>3, <1>4, <1>5, <1>6 DEF Next, mounting, mount_root_partition, make_swap, other_partitions

\* The loop "while (number_partitions > 0)" does not end while its menu still
\* has partitions to offer.
THEOREM CountCorrect == Spec => []CountCoversList
  <1>1. Init => CountInv
    <2> SUFFICES ASSUME Init PROVE CountInv
      OBVIOUS
    <2>1. Cardinality({}) = 0  BY FS_EmptySet
    <2>2. PARTITIONS = {} /\ NUMBER_PARTITIONS = 0 /\ disk \subseteq Parts
      BY DEF Init
    <2> QED  BY <2>1, <2>2 DEF CountInv, CountCoversList
  <1>2. CountInv /\ [Next]_vars => CountInv'
    BY NextCount
  <1>3. CountInv => CountCoversList
    BY DEF CountInv
  <1> QED  BY <1>1, <1>2, <1>3, PTL DEF Spec

------------------------------------------------------------------------------
\* Every dialogue keeps track of the active swap.
LEMMA NextSwap == ASSUME ~SwapoffFails, SwapInv, [Next]_vars PROVE SwapInv'
  <1> USE DEF SwapInv, SwapTracked, config
  <1>1. CASE partition_disk
    BY <1>1 DEF partition_disk, utils_umount_partitions
  <1>2. CASE mount_partitions
    BY <1>2 DEF mount_partitions, utils_umount_partitions
  <1>3. CASE make_swapfile
    BY <1>3 DEF make_swapfile, swap_make_swapfile, LoopTest
  <1>4. CASE make_swap_partition
    BY <1>4 DEF make_swap_partition, swap_make_swap_partition, LoopTest
  <1>5. CASE make_swap_not \/ mount_other_partition
    BY <1>5 DEF make_swap_not, swap_make_swap_partition, mount_other_partition, LoopTest
  <1>6. CASE \/ cancel \/ ok_on_empty_menu \/ format_root
             \/ extra_cancelled \/ done \/ UNCHANGED vars
    BY <1>6 DEF cancel, ok_on_empty_menu, format_root, extra_cancelled, done, vars
  <1>7. CASE select_root_partition_info \/ apply_root_partition_actions
    BY <1>7 DEF select_root_partition_info, apply_root_partition_actions
  <1> QED  BY <1>1, <1>2, <1>3, <1>4, <1>5, <1>6, <1>7 DEF Next, mounting, mount_root_partition, make_swap, other_partitions

\* Where swapoff works, the installer can, after any number of calls, cancelled
\* or not, turn off every swap it turned on.
THEOREM SwapCorrect == ASSUME ~SwapoffFails PROVE Spec => []SwapTracked
  <1>1. Init => SwapInv
    BY DEF Init, SwapInv, SwapTracked
  <1>2. SwapInv /\ [Next]_vars => SwapInv'
    BY NextSwap
  <1>3. SwapInv => SwapTracked
    BY DEF SwapInv
  <1> QED  BY <1>1, <1>2, <1>3, PTL DEF Spec

------------------------------------------------------------------------------
\* Every dialogue keeps the swap entries of the schema to what is swapped on,
\* whether or not swapoff works.
LEMMA NextSchema == ASSUME SchemaInv, [Next]_vars PROVE SchemaInv'
  <1> USE DEF SchemaInv, SwapEntryActive, config
  <1>1. CASE partition_disk
    BY <1>1 DEF partition_disk
  <1>2. CASE mount_partitions
    BY <1>2 DEF mount_partitions
  <1>3. CASE make_swapfile
    BY <1>3 DEF make_swapfile, swap_make_swapfile, LoopTest
  <1>4. CASE make_swap_partition
    <2>1. PICK p \in PARTITIONS :
             /\ swaps' = swaps \cup {p}
             /\ LoopTest(NUMBER_PARTITIONS', partitions \cup {Entry("linuxswap", <<>>, p, "")})
      BY <1>4 DEF make_swap_partition, swap_make_swap_partition
    <2>2. partitions' \subseteq partitions \cup {Entry("linuxswap", <<>>, p, "")}
      BY <2>1 DEF LoopTest
    <2>3. SwapEntryActive'
      <3> SUFFICES ASSUME NEW e \in partitions', e.fstype = "linuxswap"
                   PROVE  e.device \in swaps'
        OBVIOUS
      <3>1. CASE e \in partitions
        BY <2>1, <3>1
      <3>2. CASE e = Entry("linuxswap", <<>>, p, "")
        BY <2>1, <3>2 DEF Entry
      <3> QED  BY <2>2, <3>1, <3>2
    <2>4. at' = "extra" \/ partitions' = {}
      BY <2>1 DEF LoopTest
    <2> QED  BY <2>3, <2>4
  <1>5. CASE make_swap_not
    BY <1>5 DEF make_swap_not, swap_make_swap_partition, LoopTest
  <1>6. CASE mount_other_partition
    <2>1. PICK p \in PARTITIONS, path \in {Boot, BootEfi, Home} :
             LoopTest(NUMBER_PARTITIONS', partitions \cup {Entry("other", path, p, LUKS_NAME')})
      BY <1>6 DEF mount_other_partition
    <2>2. /\ partitions' \subseteq partitions \cup {Entry("other", path, p, LUKS_NAME')}
          /\ at' = "extra" \/ partitions' = {}
      BY <2>1 DEF LoopTest
    <2>3. swaps' = swaps
      BY <1>6 DEF mount_other_partition
    <2> QED  BY <2>2, <2>3 DEF Entry
  <1>7. CASE apply_root_partition_actions
    <2>1. PICK p, name : partitions' = {Entry("root", Mountpoint, p, name)}
      BY <1>7 DEF apply_root_partition_actions
    <2>2. at' = "swap"
      BY <1>7 DEF apply_root_partition_actions
    <2> QED  BY <2>1, <2>2 DEF Entry
  <1>8. CASE \/ cancel \/ ok_on_empty_menu \/ format_root \/ select_root_partition_info
             \/ extra_cancelled \/ done \/ UNCHANGED vars
    BY <1>8 DEF cancel, ok_on_empty_menu, format_root, select_root_partition_info,
       extra_cancelled, done, vars
  <1> QED  BY <1>1, <1>2, <1>3, <1>4, <1>5, <1>6, <1>7, <1>8 DEF Next, mounting, mount_root_partition, make_swap, other_partitions

\* Whichever of mkswap, swapon and swapoff fails, the schema names no swap
\* partition that is not swapped on.
THEOREM SchemaCorrect == Spec => []SwapEntryActive
  <1>1. Init => SchemaInv
    BY DEF Init, SchemaInv, SwapEntryActive
  <1>2. SchemaInv /\ [Next]_vars => SchemaInv'
    BY NextSchema
  <1>3. SchemaInv => SwapEntryActive
    BY DEF SchemaInv
  <1> QED  BY <1>1, <1>2, <1>3, PTL DEF Spec

------------------------------------------------------------------------------
(* umount_partitions, for every mount table.                                *)

(* The order *)
\* Of two paths not both are before the other.
LEMMA BeforeAsymmetric ==
    ASSUME NEW p \in Seq(Nat), NEW q \in Seq(Nat), Before(p, q)
    PROVE  ~Before(q, p)
<1> SUFFICES ASSUME Before(q, p) PROVE FALSE
  OBVIOUS
<1>0. DOMAIN p = 1..Len(p) /\ DOMAIN q = 1..Len(q) /\ Len(p) \in Nat /\ Len(q) \in Nat
  OBVIOUS
<1>1. PICK n \in 1..Len(q) : /\ \A j \in 1..(n - 1) : j \in 1..Len(p) /\ p[j] = q[j]
                             /\ n \in 1..Len(p) => p[n] < q[n]
  BY <1>0 DEF Before
<1>2. PICK m \in 1..Len(p) : /\ \A j \in 1..(m - 1) : j \in 1..Len(q) /\ q[j] = p[j]
                             /\ m \in 1..Len(q) => q[m] < p[m]
  BY <1>0 DEF Before
<1>3. \A j \in 1..Len(p) : p[j] \in Nat
  OBVIOUS
<1>4. \A j \in 1..Len(q) : q[j] \in Nat
  OBVIOUS
<1>5. CASE n = m
  <2>1. p[n] \in Nat /\ q[n] \in Nat
    BY <1>3, <1>4, <1>5
  <2>2. p[n] < q[n] /\ q[n] < p[n]
    BY <1>1, <1>2, <1>5
  <2> QED BY <2>1, <2>2
<1>6. CASE m < n
  <2>1. m \in 1..(n - 1) /\ m \in 1..Len(q) /\ m \in 1..Len(p)
    BY <1>0, <1>6
  <2>2. p[m] = q[m] /\ q[m] < p[m]
    BY <1>1, <1>2, <2>1
  <2> QED BY <1>3, <2>1, <2>2
<1>7. CASE n < m
  <2>1. n \in 1..(m - 1) /\ n \in 1..Len(q) /\ n \in 1..Len(p)
    BY <1>0, <1>7
  <2>2. p[n] = q[n] /\ p[n] < q[n]
    BY <1>1, <1>2, <2>1
  <2> QED BY <1>3, <2>1, <2>2
<1> QED BY <1>0, <1>5, <1>6, <1>7

\* A path that is before another is before, or has before it, any third.
LEMMA BeforeSplits ==
    ASSUME NEW p \in Seq(Nat), NEW q \in Seq(Nat), NEW r \in Seq(Nat), Before(p, r)
    PROVE  Before(p, q) \/ Before(q, r)
<1>0. /\ DOMAIN p = 1..Len(p) /\ DOMAIN q = 1..Len(q) /\ DOMAIN r = 1..Len(r)
      /\ Len(p) \in Nat /\ Len(q) \in Nat /\ Len(r) \in Nat
  OBVIOUS
<1>1. PICK n \in 1..Len(r) : /\ \A j \in 1..(n - 1) : j \in 1..Len(p) /\ p[j] = r[j]
                             /\ n \in 1..Len(p) => p[n] < r[n]
  BY <1>0 DEF Before
<1>2. /\ \A j \in 1..Len(p) : p[j] \in Nat
      /\ \A j \in 1..Len(q) : q[j] \in Nat
      /\ \A j \in 1..Len(r) : r[j] \in Nat
  OBVIOUS
<1> DEFINE Same(j) == j \in 1..Len(q) /\ q[j] = p[j]
           D == {m \in 1..(n - 1) : ~Same(m)}
<1>3. CASE D = {}
  <2>1. \A j \in 1..(n - 1) : j \in 1..Len(q) /\ q[j] = p[j] /\ j \in 1..Len(p) /\ q[j] = r[j]
    <3> SUFFICES ASSUME NEW j \in 1..(n - 1)
                 PROVE  j \in 1..Len(q) /\ q[j] = p[j] /\ j \in 1..Len(p) /\ q[j] = r[j]
      OBVIOUS
    <3>1. j \notin D
      BY <1>3
    <3>2. Same(j)
      BY <3>1
    <3> QED BY <1>1, <3>2
  <2>2. CASE n \notin 1..Len(q) \/ q[n] < r[n]
    BY <1>0, <2>1, <2>2 DEF Before
  <2>3. CASE n \in 1..Len(q) /\ ~(q[n] < r[n])
    <3>1. q[n] \in Nat /\ r[n] \in Nat /\ (n \in 1..Len(p) => p[n] \in Nat)
      BY <1>2, <2>3
    <3>2. n \in 1..Len(p) => p[n] < q[n]
      <4> SUFFICES ASSUME n \in 1..Len(p) PROVE p[n] < q[n]
        OBVIOUS
      <4>1. p[n] < r[n] /\ p[n] \in Nat
        BY <1>1, <3>1
      <4> QED BY <2>3, <3>1, <4>1
    <3> QED BY <1>0, <2>1, <2>3, <3>2 DEF Before
  <2> QED BY <2>2, <2>3
<1>4. CASE D # {}
  <2>1. PICK m \in D : \A k \in D : m <= k
    <3>1. D \in SUBSET Nat
      BY <1>0
    <3> HIDE DEF D
    <3> QED BY <1>4, <3>1, Least
  <2>2. m \in 1..(n - 1) /\ ~Same(m)
    OBVIOUS
  <2>3. m \in 1..Len(r) /\ m \in 1..Len(p) /\ p[m] = r[m]
    BY <1>0, <1>1, <2>2
  <2>4. ASSUME NEW j \in 1..(m - 1)
        PROVE  j \in 1..Len(q) /\ q[j] = p[j] /\ j \in 1..Len(p) /\ q[j] = r[j]
    <3>0. n \in Nat /\ m \in 1..(n - 1)
      BY <1>0, <2>2
    <3> HIDE DEF Same, D
    <3>1. j \in 1..(n - 1) /\ ~(m <= j)
      BY <3>0
    <3>2. j \notin D
      BY <2>1, <3>1
    <3> USE DEF D
    <3>3. Same(j)
      BY <3>1, <3>2
    <3> USE DEF Same
    <3> QED BY <1>1, <3>1, <3>3
  <2>5. CASE m \notin 1..Len(q)
    BY <1>0, <2>3, <2>4, <2>5 DEF Before
  <2>6. CASE m \in 1..Len(q)
    <3>1. q[m] \in Nat /\ p[m] \in Nat /\ q[m] # p[m]
      BY <1>2, <2>2, <2>3, <2>6
    <3>2. q[m] < r[m] \/ p[m] < q[m]
      BY <2>3, <3>1
    <3> QED BY <1>0, <2>3, <2>4, <2>6, <3>2 DEF Before
  <2> QED BY <2>5, <2>6
<1> QED BY <1>3, <1>4

\* Entries can be put in order: the next one goes in front of the first that is after it.
LEMMA SortExists ==
    ASSUME NEW N \in Nat, NEW entries, DOMAIN entries = 1..N,
           \A i \in 1..N : entries[i].mountpoint \in Seq(Nat)
    PROVE  \E order \in Bijection(1..N, 1..N) : Sorted(entries, order)
<1> DEFINE B(i, j) == Before(entries[i].mountpoint, entries[j].mountpoint)
           Order(n, o) == /\ o \in [1..n -> 1..n]
                          /\ \A i, j \in 1..n : o[i] = o[j] => i = j
                          /\ \A j \in 1..n : \E i \in 1..n : o[i] = j
                          /\ \A i, j \in 1..n : i < j => ~B(o[j], o[i])
           S == {n \in 0..N : \E o : Order(n, o)}
<1>1. \A i, j \in 1..N : B(i, j) => ~B(j, i)
  BY BeforeAsymmetric
<1>2. \A i, j, l \in 1..N : B(i, j) => B(i, l) \/ B(l, j)
  BY BeforeSplits
<1> HIDE DEF B
<1>3. 0 \in S
  <2>1. Order(0, [i \in {} |-> 1])
    OBVIOUS
  <2> HIDE DEF Order
  <2> QED BY <2>1
<1>4. ASSUME NEW n \in 0..(N - 1), n \in S PROVE n + 1 \in S
  <2>1. PICK o : Order(n, o)
    BY <1>4
  <2>2. PICK k \in 1..(n + 1) : /\ \A i \in 1..(k - 1) : ~B(n + 1, o[i])
                                /\ k # n + 1 => B(n + 1, o[k])
    <3> DEFINE I == {i \in 1..n : B(n + 1, o[i])}
    <3>1. CASE I = {}
      <4>1. \A i \in 1..n : ~B(n + 1, o[i])
        BY <3>1
      <4> QED BY <4>1
    <3>2. CASE I # {}
      <4>1. PICK m \in I : \A i \in I : m <= i
        <5>1. I \in SUBSET Nat
          OBVIOUS
        <5> HIDE DEF I
        <5> QED BY <3>2, <5>1, Least
      <4>2. \A i \in 1..(m - 1) : ~B(n + 1, o[i])
        <5> SUFFICES ASSUME NEW i \in 1..(m - 1) PROVE ~B(n + 1, o[i])
          OBVIOUS
        <5>1. i \in 1..n /\ ~(m <= i)
          OBVIOUS
        <5> QED BY <4>1, <5>1
      <4> QED BY <4>2
    <3> QED BY <3>1, <3>2
  <2> DEFINE h == [i \in 1..(n + 1) |-> IF i < k THEN o[i] ELSE IF i = k THEN n + 1 ELSE o[i - 1]]
  <2>3. \A i \in 1..n : o[i] \in 1..n /\ o[i] \in 1..N
    BY <2>1
  <2>0. \A i, j \in 1..n : i < j => o[i] # o[j] /\ ~B(o[j], o[i])
    <3>1. \A i, j \in 1..n : i < j => i # j
      OBVIOUS
    <3> QED BY <2>1, <3>1
  <2>4. /\ \A i \in 1..(k - 1) : i \in 1..n /\ i \in 1..(n + 1) /\ h[i] = o[i]
        /\ h[k] = n + 1 /\ k \in 1..(n + 1)
        /\ \A i \in k..n : i \in 1..n /\ i + 1 \in 1..(n + 1) /\ h[i + 1] = o[i]
    OBVIOUS
  <2>5. \A i \in 1..(n + 1) : \/ i \in 1..(k - 1)
                              \/ i = k
                              \/ i - 1 \in k..n /\ i = (i - 1) + 1
    OBVIOUS
  <2>6. h \in [1..(n + 1) -> 1..(n + 1)]
    BY <2>3
  <2> HIDE DEF h
  <2>7. ASSUME NEW i \in 1..(n + 1), NEW j \in 1..(n + 1), i < j
        PROVE  h[i] # h[j] /\ ~B(h[j], h[i])
    <3>0. n + 1 \in 1..N /\ n \in Nat
      OBVIOUS
    <3>1. CASE i \in 1..(k - 1) /\ j \in 1..(k - 1)
      <4>1. h[i] = o[i] /\ h[j] = o[j] /\ i \in 1..n /\ j \in 1..n
        BY <2>4, <3>1
      <4> QED BY <2>0, <2>7, <4>1
    <3>2. CASE i \in 1..(k - 1) /\ j = k
      <4>1. h[i] = o[i] /\ h[j] = n + 1 /\ i \in 1..n
        BY <2>4, <3>2
      <4>2. o[i] \in 1..n /\ ~B(n + 1, o[i])
        BY <2>2, <2>3, <3>2, <4>1
      <4> QED BY <3>0, <4>1, <4>2
    <3>3. CASE i \in 1..(k - 1) /\ j - 1 \in k..n
      <4>1. h[i] = o[i] /\ h[j] = o[j - 1] /\ i \in 1..n /\ j - 1 \in 1..n /\ i < j - 1
        BY <2>4, <2>5, <3>3
      <4> QED BY <2>0, <4>1
    <3>4. CASE i = k /\ j - 1 \in k..n
      <4>1. h[i] = n + 1 /\ h[j] = o[j - 1] /\ j - 1 \in 1..n
        BY <2>4, <2>5, <3>4
      <4>2. o[j - 1] \in 1..n /\ o[j - 1] \in 1..N
        BY <2>3, <4>1
      <4>3. k # n + 1 /\ k \in 1..n
        BY <3>4
      <4>4. B(n + 1, o[k]) /\ o[k] \in 1..N
        BY <2>2, <2>3, <4>3
      <4>5. ~B(o[k], n + 1)
        BY <1>1, <3>0, <4>4
      <4>6. j - 1 = k \/ ~B(o[j - 1], o[k])
        BY <2>1, <3>4, <4>1, <4>3
      <4>7. ~B(o[j - 1], n + 1)
        BY <1>2, <3>0, <4>2, <4>4, <4>5, <4>6
      <4>8. o[j - 1] # n + 1
        BY <4>2
      <4> QED BY <4>1, <4>7, <4>8
    <3>5. CASE i - 1 \in k..n /\ j - 1 \in k..n
      <4>1. h[i] = o[i - 1] /\ h[j] = o[j - 1] /\ i - 1 \in 1..n /\ j - 1 \in 1..n /\ i - 1 < j - 1
        BY <2>4, <2>5, <2>7, <3>5
      <4> QED BY <2>0, <4>1
    <3> QED BY <2>5, <2>7, <3>1, <3>2, <3>3, <3>4, <3>5
  <2>8. ASSUME NEW j \in 1..(n + 1) PROVE \E i \in 1..(n + 1) : h[i] = j
    <3>1. CASE j = n + 1
      BY <2>4, <3>1
    <3>2. CASE j \in 1..n
      <4>1. PICK i \in 1..n : o[i] = j
        BY <2>1, <3>2
      <4>2. i \in 1..(k - 1) \/ i \in k..n
        OBVIOUS
      <4> QED BY <2>4, <4>1, <4>2
    <3> QED BY <3>1, <3>2
  <2>9. \A i, j \in 1..(n + 1) : h[i] = h[j] => i = j
    <3> SUFFICES ASSUME NEW i \in 1..(n + 1), NEW j \in 1..(n + 1), h[i] = h[j], i # j PROVE FALSE
      OBVIOUS
    <3>1. i < j \/ j < i
      OBVIOUS
    <3> QED BY <2>7, <3>1
  <2>10. Order(n + 1, h)
    BY <2>6, <2>7, <2>8, <2>9
  <2> HIDE DEF Order
  <2> QED BY <2>10
<1>5. N \in S
  <2> HIDE DEF S
  <2>1. \A n \in 0..(N - 1) : n \in S => n + 1 \in S
    BY <1>4
  <2>2. \A n \in 0..N : n \in S
    BY <1>3, <2>1, Induction
  <2> QED BY <2>2
<1>6. PICK o : Order(N, o)
  BY <1>5
<1> QED BY <1>6 DEF Bijection, Injection, Surjection, Sorted, B, IsInjective

\* The sorted entries are the entries, each once.
LEMMA SortPermutes ==
    ASSUME NEW N \in Nat, NEW entries, DOMAIN entries = 1..N,
           \A i \in 1..N : entries[i].mountpoint \in Seq(Nat)
    PROVE  \E order \in Bijection(1..N, 1..N) :
              Sorted(entries, order) /\ Sort(entries) = [i \in 1..N |-> entries[order[i]]]
<1> DEFINE order == CHOOSE o \in Bijection(1..N, 1..N) : Sorted(entries, o)
<1>1. order \in Bijection(1..N, 1..N) /\ Sorted(entries, order)
  BY SortExists
<1>2. Sort(entries) = [i \in 1..N |-> entries[order[i]]]
  BY DEF Sort
<1> HIDE DEF order
<1> QED BY <1>1, <1>2

\* A sequence with one element put before it and one behind it, as read_mtab does.
LEMMA Framed ==
    ASSUME NEW X, NEW a \in X, NEW b \in X, NEW n \in Nat, NEW f \in [1..n -> X]
    PROVE  LET s == <<a>> \o f \o <<b>>
           IN  /\ Len(s) = n + 2 /\ s[1] = a /\ s[n + 2] = b
               /\ \A i \in 1..n : s[i + 1] = f[i]
<1>1. f \in Seq(X) /\ Len(f) = n
  BY MadeSequence
<1>2. <<a>> \in Seq(X) /\ Len(<<a>>) = 1 /\ <<a>>[1] = a /\ <<b>> \in Seq(X)
  OBVIOUS
<1>3. /\ <<a>> \o f \in Seq(X) /\ Len(<<a>> \o f) = n + 1
      /\ (<<a>> \o f)[1] = a
      /\ \A i \in 1..n : (<<a>> \o f)[i + 1] = f[i]
  BY <1>1, <1>2
<1> QED BY <1>1, <1>2, <1>3

\* What is read back of the mount table is the mount table.
LEMMA ParseLists ==
    ASSUME NEW T, NEW table \in Seq(T)
    PROVE  parse_mtab(table) = [i \in 1..Len(table) |-> MTabEntry(table[i].dev, table[i].path)]
<1> DEFINE N == Len(table)
           E == {MTabEntry(e.dev, e.path) : e \in T}
           lines == read_mtab(table)
           below(i) == /\ lines[i] # <<>> /\ size_viewable_range(lines[i]) >= 3
                       /\ index_viewable_range(lines[i], 1).below
           entry(i) == MTabEntry(index_viewable_range(lines[i], 0), index_viewable_range(lines[i], 1).path)
           none == <<>>
           M == Len(lines)
           Pass(f) == [n \in 0..M |->
                          IF n = 0 THEN none
                          ELSE IF below(n) THEN Append(f[n - 1], entry(n)) ELSE f[n - 1]]
           parsed(n) == [i \in 1..n |-> MTabEntry(table[i].dev, table[i].path)]
<1>1. /\ N \in Nat
      /\ DOMAIN table = 1..N
      /\ \A i \in 1..N : table[i] \in T
  BY Elements
<1>2. /\ Len(lines) = N + 2 /\ lines[1] = MTabLine("airootfs", Mountpoint, FALSE)
      /\ \A i \in 1..N : lines[i + 1] = MTabLine(table[i].dev, table[i].path, TRUE)
      /\ lines[N + 2] = <<>>
  <2> DEFINE a == MTabLine("airootfs", Mountpoint, FALSE)
             b == <<>>
             read == [i \in 1..N |-> MTabLine(table[i].dev, table[i].path, TRUE)]
             X == {a, b} \cup {read[i] : i \in 1..N}
  <2>1. lines = <<a>> \o read \o <<b>>
    BY <1>1 DEF read_mtab
  <2>2. /\ a \in X /\ b \in X /\ read \in [1..N -> X]
        /\ \A i \in 1..N : read[i] = MTabLine(table[i].dev, table[i].path, TRUE)
    OBVIOUS
  <2> HIDE DEF lines, N, read, X, a, b
  <2>3. /\ Len(lines) = N + 2 /\ lines[1] = a /\ lines[N + 2] = b
        /\ \A i \in 1..N : lines[i + 1] = read[i]
    BY <1>1, <2>1, <2>2, Framed
  <2> QED BY <2>2, <2>3 DEF a, b
<1>3. /\ ~below(1) /\ ~below(N + 2)
      /\ \A i \in 1..N : /\ below(i + 1)
                         /\ entry(i + 1) = MTabEntry(table[i].dev, table[i].path)
  <2> HIDE DEF lines, N
  <2>1. ~below(1) /\ ~below(N + 2)
    BY <1>2 DEF MTabLine, index_viewable_range, size_viewable_range
  <2>2. ASSUME NEW i \in 1..N
        PROVE  below(i + 1) /\ entry(i + 1) = MTabEntry(table[i].dev, table[i].path)
    <3>1. lines[i + 1] = <<table[i].dev, [path |-> table[i].path, below |-> TRUE], "fstype", "opts">>
      BY <1>2 DEF MTabLine
    <3> QED BY <3>1 DEF index_viewable_range, size_viewable_range
  <2> QED BY <2>1, <2>2
<1>4. parse_mtab(table) = (CHOOSE f : f = Pass(f))[M]
  BY DEF parse_mtab, parse_mtab_content
<1>0. M = N + 2 /\ M \in Nat
  BY <1>1, <1>2
<1>5. \A i \in 1..M : below(i) => entry(i) \in E
  <2> SUFFICES ASSUME NEW i \in 1..M, below(i) PROVE entry(i) \in E
    OBVIOUS
  <2> HIDE DEF lines, below, entry, M
  <2>1. i - 1 \in 1..N
    BY <1>0, <1>1, <1>3
  <2>2. i = (i - 1) + 1
    OBVIOUS
  <2>3. entry(i) = MTabEntry(table[i - 1].dev, table[i - 1].path)
    BY <1>3, <2>1, <2>2
  <2> QED BY <1>0, <1>1, <2>1, <2>3
<1> HIDE DEF lines, below, entry, N, M
<1>6. \E f : f = Pass(f)
  <2> DEFINE A == Seq(E)
             step == [n \in 1..M |-> [acc \in A |-> IF below(n) THEN Append(acc, entry(n)) ELSE acc]]
  <2>1. none \in A /\ M \in Nat /\ step \in [1..M -> [A -> A]]
    <3>2. \A acc \in A, n \in 1..M : below(n) => Append(acc, entry(n)) \in A
      <4> HIDE DEF E
      <4> QED BY <1>5, Appended
    <3> HIDE DEF A
    <3>3. \A n \in 1..M : step[n] \in [A -> A]
      BY <3>2
    <3>4. step \in [1..M -> [A -> A]]
      BY <3>3
    <3> QED BY <1>0, <3>4 DEF A, none
  <2> HIDE DEF A, none
  <2>2. PICK g \in [0..M -> A] : g[0] = none /\ \A i \in 1..M : g[i] = step[i][g[i - 1]]
    <3>1. Passes(step, M, A)
      BY <2>1 DEF Passes
    <3> HIDE DEF step
    <3>2. PICK g : Folds(g, none, step, M, A)
      BY <2>1, <3>1, Folding
    <3> QED BY <3>2 DEF Folds
  <2>3. \A i \in 1..M : g[i] = IF below(i) THEN Append(g[i - 1], entry(i)) ELSE g[i - 1]
    <3> SUFFICES ASSUME NEW i \in 1..M
                 PROVE  g[i] = IF below(i) THEN Append(g[i - 1], entry(i)) ELSE g[i - 1]
      OBVIOUS
    <3>1. g[i - 1] \in A
      BY <1>0, <1>1, <2>2
    <3>2. step[i][g[i - 1]] = IF below(i) THEN Append(g[i - 1], entry(i)) ELSE g[i - 1]
      BY <3>1
    <3> QED BY <2>2, <3>2
  <2>4. g = Pass(g)
    <3>1. \A i \in 0..M : i = 0 \/ i \in 1..M
      BY <1>0
    <3> QED BY <2>2, <2>3, <3>1
  <2> HIDE DEF Pass
  <2> QED BY <2>4
<1> DEFINE after == CHOOSE f : f = Pass(f)
<1>7. after = Pass(after)
  <2> HIDE DEF Pass
  <2> QED BY <1>6
<1> HIDE DEF after, none
<1>8. /\ after[0] = none
      /\ \A n \in 1..M : after[n] = IF below(n) THEN Append(after[n - 1], entry(n)) ELSE after[n - 1]
  <2>1. \A n \in 0..M : after[n] = IF n = 0 THEN none
                                   ELSE IF below(n) THEN Append(after[n - 1], entry(n)) ELSE after[n - 1]
    BY <1>7
  <2>2. 0 \in 0..M /\ \A n \in 1..M : n \in 0..M /\ n # 0
    BY <1>0
  <2> QED BY <2>1, <2>2
<1>9. after[N + 1] = parsed(N)
  <2> DEFINE S == {n \in 0..N : after[n + 1] = parsed(n)}
  <2>1. 0 \in S
    <3>1. parsed(0) = none
      BY DEF none
    <3>2. 0 + 1 = 1 /\ 1 - 1 = 0 /\ 1 \in 1..M /\ 0 \in 0..N
      BY <1>0, <1>1
    <3>3. after[1] = after[0]
      BY <1>3, <1>8, <3>2
    <3> QED BY <1>8, <3>1, <3>2, <3>3
  <2>2. ASSUME NEW n \in 0..(N - 1), n \in S PROVE n + 1 \in S
    <3>1. after[(n + 1) + 1] = Append(after[n + 1], MTabEntry(table[n + 1].dev, table[n + 1].path))
      <4>1. n + 1 \in 1..N /\ (n + 1) + 1 \in 1..M /\ ((n + 1) + 1) - 1 = n + 1
        BY <1>0, <1>1
      <4> QED BY <1>3, <1>8, <4>1
    <3>2. Append(parsed(n), MTabEntry(table[n + 1].dev, table[n + 1].path)) = parsed(n + 1)
      <4>1. \A i \in 1..N : MTabEntry(table[i].dev, table[i].path) \in E
        BY <1>0, <1>1
      <4> HIDE DEF E
      <4>2. parsed(n) \in [1..n -> E] /\ parsed(n + 1) \in [1..(n + 1) -> E] /\ n \in Nat /\ n + 1 \in Nat
        BY <1>0, <1>1, <4>1
      <4>3. \A i \in 1..n : parsed(n)[i] = parsed(n + 1)[i]
        OBVIOUS
      <4>4. parsed(n + 1)[n + 1] = MTabEntry(table[n + 1].dev, table[n + 1].path) /\ n + 1 \in 1..N
        BY <1>0, <1>1
      <4> HIDE DEF parsed
      <4>5. /\ parsed(n) \in Seq(E) /\ Len(parsed(n)) = n
            /\ parsed(n + 1) \in Seq(E) /\ Len(parsed(n + 1)) = n + 1
        BY <4>2, MadeSequence
      <4> DEFINE more == Append(parsed(n), MTabEntry(table[n + 1].dev, table[n + 1].path))
      <4>6. /\ more \in Seq(E) /\ Len(more) = n + 1 /\ \A i \in 1..n : more[i] = parsed(n)[i]
            /\ more[n + 1] = MTabEntry(table[n + 1].dev, table[n + 1].path)
        BY <4>1, <4>4, <4>5, Appended
      <4> HIDE DEF more
      <4>7. \A i \in 1..(n + 1) : more[i] = parsed(n + 1)[i]
        BY <4>3, <4>4, <4>6
      <4> QED BY <4>5, <4>6, <4>7, SameSequence DEF more
    <3>3. n + 1 \in 0..N /\ after[n + 1] = parsed(n)
      BY <1>1, <2>2
    <3>4. after[(n + 1) + 1] = parsed(n + 1)
      BY <3>1, <3>2, <3>3
    <3> HIDE DEF parsed
    <3> QED BY <3>3, <3>4
  <2> HIDE DEF S
  <2>3. \A n \in 0..N : n \in S
    BY <1>0, <1>1, <2>1, <2>2, Induction
  <2> QED BY <1>0, <1>1, <2>3 DEF S
<1>10. after[M] = after[N + 1]
  BY <1>0, <1>1, <1>3, <1>8
<1> QED BY <1>4, <1>9, <1>10 DEF after, N

\* umount takes the last entry at a path, if there is one.
LEMMA NewestAt ==
    ASSUME NEW T, NEW table \in Seq(T), NEW path
    PROVE  /\ Newest(table, path) \in 0..Len(table)
           /\ (\E i \in 1..Len(table) : table[i].path = path) =>
                 Newest(table, path) # 0 /\ table[Newest(table, path)].path = path
<1> DEFINE N == Len(table)
           I == {i \in 1..N : table[i].path = path}
           J == {N - i : i \in I}
<1>1. N \in Nat
  BY Elements
<1>2. Newest(table, path) = IF I # {} THEN Max(I) ELSE 0
  BY DEF Newest, SelectLastInSeq
<1>3. CASE I = {}
  <2>1. ~\E i \in 1..N : table[i].path = path
    BY <1>3
  <2>2. Newest(table, path) = 0
    BY <1>2, <1>3
  <2> QED BY <1>1, <2>1, <2>2
<1>4. CASE I # {}
  <2>1. J \in SUBSET Nat /\ J # {}
    BY <1>1, <1>4
  <2>2. PICK m \in J : \A k \in J : m <= k
    <3> HIDE DEF J
    <3> QED BY <2>1, Least
  <2>3. PICK l \in I : m = N - l
    BY <2>2
  <2>4. ASSUME NEW i \in I PROVE l >= i
    <3>1. N - i \in J /\ i \in Nat /\ l \in Nat
      BY <1>1
    <3>2. N - l <= N - i
      BY <2>2, <2>3, <3>1
    <3> QED BY <1>1, <3>1, <3>2
  <2>5. Max(I) \in I
    <3>1. \E x \in I : \A y \in I : x >= y
      BY <2>4
    <3> HIDE DEF I
    <3> QED BY <3>1 DEF Max
  <2>6. Newest(table, path) \in I
    BY <1>2, <1>4, <2>5
  <2>7. \A i \in I : i \in 1..N /\ i \in 0..N /\ i # 0 /\ table[i].path = path
    BY <1>1
  <2> HIDE DEF I, N
  <2> QED BY <2>6, <2>7 DEF N
<1> QED BY <1>3, <1>4

\* A sequence without its j-th element.
LEMMA Removed ==
    ASSUME NEW T, NEW s \in Seq(T), NEW j \in 1..Len(s)
    PROVE  /\ RemoveAt(s, j) \in Seq(T) /\ Len(RemoveAt(s, j)) = Len(s) - 1
           /\ \A i \in 1..(j - 1) : RemoveAt(s, j)[i] = s[i]
           /\ \A i \in j..(Len(s) - 1) : RemoveAt(s, j)[i] = s[i + 1]
<1> DEFINE a == SubSeq(s, 1, j - 1)
           b == SubSeq(s, j + 1, Len(s))
<1>1. a \in Seq(T) /\ Len(a) = j - 1 /\ \A i \in 1..(j - 1) : a[i] = s[i]
  OBVIOUS
<1>2. b \in Seq(T) /\ Len(b) = Len(s) - j /\ \A i \in 1..(Len(s) - j) : b[i] = s[j + i]
  OBVIOUS
<1>3. RemoveAt(s, j) = a \o b
  BY DEF RemoveAt
<1>4. Len(s) \in Nat
  OBVIOUS
<1> HIDE DEF a, b
<1>5. /\ a \o b \in Seq(T) /\ Len(a \o b) = Len(s) - 1
      /\ \A i \in 1..(j - 1) : (a \o b)[i] = a[i]
      /\ \A i \in j..(Len(s) - 1) : (a \o b)[i] = b[i - (j - 1)]
  <2>0. a \in Seq(T) /\ b \in Seq(T)
    BY <1>1, <1>2
  <2>1. a \o b \in Seq(T) /\ Len(a \o b) = Len(a) + Len(b)
    BY <2>0
  <2>2. \A i \in 1..Len(a) : (a \o b)[i] = a[i]
    BY <2>0
  <2>3. \A i \in (Len(a) + 1)..(Len(a) + Len(b)) : (a \o b)[i] = b[i - Len(a)]
    BY <2>0
  <2>4. Len(a) = j - 1 /\ Len(b) = Len(s) - j
    BY <1>1, <1>2
  <2>5. (j - 1) + (Len(s) - j) = Len(s) - 1 /\ \A i \in j..(Len(s) - 1) : i \in ((j - 1) + 1)..(Len(s) - 1)
    BY <1>4
  <2> QED BY <2>1, <2>2, <2>3, <2>4, <2>5
<1>6. ASSUME NEW i \in j..(Len(s) - 1) PROVE b[i - (j - 1)] = s[i + 1]
  <2>1. i - (j - 1) \in 1..(Len(s) - j) /\ j + (i - (j - 1)) = i + 1
    BY <1>4
  <2> QED BY <1>2, <2>1
<1> QED BY <1>1, <1>3, <1>5, <1>6

\* What has no place in a sequence is not removed from it.
LEMMA NotRemoved == ASSUME NEW T, NEW s \in Seq(T) PROVE RemoveAt(s, 0) = s
<1>1. SubSeq(s, 1, 0 - 1) = <<>> /\ SubSeq(s, 0 + 1, Len(s)) = s
  OBVIOUS
<1> QED BY <1>1 DEF RemoveAt

\* b pairs the entries of a table with those of the sorted list that are not unmounted
\* yet, path by path.
Pairs(b, table, entries, n, N) ==
    /\ b \in [1..Len(table) -> (n + 1)..N]
    /\ \A i, j \in 1..Len(table) : b[i] = b[j] => i = j
    /\ \A k \in (n + 1)..N : \E i \in 1..Len(table) : b[i] = k
    /\ \A i \in 1..Len(table) : table[i].path = entries[b[i]].mountpoint

\* A umount that is not refused takes an entry of the next one's path, so that the others
\* can still be paired.
LEMMA UmountPairs ==
    ASSUME NEW T, NEW table \in Seq(T), NEW entries, NEW N \in Nat, NEW n \in 0..(N - 1),
           NEW b, Pairs(b, table, entries, n, N)
    PROVE  \E c : Pairs(c, RemoveAt(table, Newest(table, entries[n + 1].mountpoint)), entries, n + 1, N)
<1> DEFINE p == entries[n + 1].mountpoint
           j == Newest(table, p)
           L == Len(table)
           t == RemoveAt(table, j)
<1>1. L \in Nat
  BY Elements
<1>2. /\ b \in [1..L -> (n + 1)..N]
      /\ \A i, k \in 1..L : b[i] = b[k] => i = k
      /\ \A k \in (n + 1)..N : \E i \in 1..L : b[i] = k
      /\ \A i \in 1..L : table[i].path = entries[b[i]].mountpoint
  BY DEF Pairs
<1>3. PICK m \in 1..L : b[m] = n + 1
  <2>1. n + 1 \in (n + 1)..N
    OBVIOUS
  <2> QED BY <1>2, <2>1
<1>4. j \in 1..L /\ table[j].path = p
  <2>1. table[m].path = p
    BY <1>2, <1>3
  <2>2. j \in 0..L /\ ((\E i \in 1..L : table[i].path = p) => j # 0 /\ table[j].path = p)
    BY NewestAt
  <2> HIDE DEF j, p, L
  <2> QED BY <1>1, <2>1, <2>2
<1>5. /\ Len(t) = L - 1
      /\ \A i \in 1..(j - 1) : t[i] = table[i]
      /\ \A i \in j..(L - 1) : t[i] = table[i + 1]
  <2> HIDE DEF j
  <2> QED BY <1>4, Removed
<1> HIDE DEF L, j, t
<1> DEFINE a(i) == IF i = m THEN b[j] ELSE b[i]
           from(i) == IF i < j THEN i ELSE i + 1
           c == [i \in 1..(L - 1) |-> a(from(i))]
<1>6. ASSUME NEW i \in 1..(L - 1)
      PROVE  from(i) \in 1..L /\ from(i) # j /\ t[i] = table[from(i)]
  BY <1>1, <1>4, <1>5
<1>7. \A i \in 1..L : i # j => from(IF i < j THEN i ELSE i - 1) = i /\ (IF i < j THEN i ELSE i - 1) \in 1..(L - 1)
  BY <1>1, <1>4
<1>8. \A i, k \in 1..(L - 1) : from(i) = from(k) => i = k
  BY <1>1, <1>4
<1> HIDE DEF from
<1>9. ASSUME NEW i \in 1..L, i # j
      PROVE  a(i) \in ((n + 1) + 1)..N /\ table[i].path = entries[a(i)].mountpoint
  <2>1. b[i] \in (n + 1)..N /\ b[j] \in (n + 1)..N
    BY <1>2, <1>4
  <2>2. CASE i = m
    <3>1. b[j] # n + 1 /\ a(i) = b[j]
      BY <1>2, <1>3, <1>4, <1>9, <2>2
    <3>2. table[i].path = p /\ entries[b[j]].mountpoint = p
      BY <1>2, <1>3, <1>4, <2>2
    <3> QED BY <2>1, <3>1, <3>2
  <2>3. CASE i # m
    <3>1. b[i] # n + 1 /\ a(i) = b[i]
      BY <1>2, <1>3, <2>3
    <3> QED BY <1>2, <2>1, <3>1
  <2> QED BY <2>2, <2>3
<1>10. ASSUME NEW i \in 1..L, NEW k \in 1..L, i # j, k # j, a(i) = a(k) PROVE i = k
  BY <1>2, <1>4, <1>10
<1>11. ASSUME NEW y \in ((n + 1) + 1)..N PROVE \E i \in 1..L : i # j /\ a(i) = y
  <2>1. PICK i \in 1..L : b[i] = y
    BY <1>2
  <2>2. i # m
    BY <1>3, <2>1
  <2>3. CASE i = j
    BY <1>3, <2>1, <2>2, <2>3
  <2>4. CASE i # j
    BY <2>1, <2>2, <2>4
  <2> QED BY <2>3, <2>4
<1> HIDE DEF a
<1>12. c \in [1..(L - 1) -> ((n + 1) + 1)..N]
  BY <1>6, <1>9
<1>13. \A i, k \in 1..(L - 1) : c[i] = c[k] => i = k
  BY <1>6, <1>8, <1>10
<1>14. ASSUME NEW y \in ((n + 1) + 1)..N PROVE \E i \in 1..(L - 1) : c[i] = y
  <2>1. PICK i \in 1..L : i # j /\ a(i) = y
    BY <1>11
  <2>2. PICK k \in 1..(L - 1) : from(k) = i
    BY <1>7, <2>1
  <2> QED BY <2>1, <2>2
<1>15. \A i \in 1..(L - 1) : t[i].path = entries[c[i]].mountpoint
  BY <1>6, <1>9
<1>16. Pairs(c, t, entries, n + 1, N)
  <2> HIDE DEF c
  <2> QED BY <1>5, <1>12, <1>13, <1>14, <1>15 DEF Pairs
<1> QED BY <1>16 DEF t, j

\* What one umount does to the outcome so far.
LEMMA UnmountEffect ==
    ASSUME NEW acc, NEW e
    PROVE  /\ ~acc.ok \/ Busy(acc.table, e.mountpoint) =>
                 Unmount(acc, e).table = acc.table /\ Unmount(acc, e).ok = FALSE
           /\ acc.ok /\ ~Busy(acc.table, e.mountpoint) =>
                 /\ Unmount(acc, e).table = RemoveAt(acc.table, Newest(acc.table, e.mountpoint))
                 /\ Unmount(acc, e).ok = TRUE
BY DEF Unmount

\* The outcomes over tables with entries in T.
Outcome(T) == [table : Seq(T), ok : BOOLEAN]

\* A table and a flag make an outcome.
LEMMA AnOutcome ==
    ASSUME NEW T, NEW t \in Seq(T), NEW ok \in BOOLEAN
    PROVE  [table |-> t, ok |-> ok] \in Outcome(T)
<1> DEFINE X == Seq(T)
<1>1. t \in X
  OBVIOUS
<1> HIDE DEF X
<1>2. [table |-> t, ok |-> ok] \in [table : X, ok : BOOLEAN]
  BY <1>1
<1> QED BY <1>2 DEF X, Outcome

\* The parts of an outcome.
LEMMA OutcomeParts ==
    ASSUME NEW T, NEW acc \in Outcome(T)
    PROVE  acc.table \in Seq(T) /\ acc.ok \in BOOLEAN
<1> DEFINE X == Seq(T)
<1>1. acc \in [table : X, ok : BOOLEAN]
  BY DEF Outcome
<1> HIDE DEF X
<1>2. acc.table \in X /\ acc.ok \in BOOLEAN
  BY <1>1
<1> QED BY <1>2 DEF X

\* One umount leads from outcome to outcome.
LEMMA UnmountTypes ==
    ASSUME NEW T, NEW acc \in Outcome(T), NEW e
    PROVE  Unmount(acc, e) \in Outcome(T)
<1> DEFINE t == acc.table
           p == e.mountpoint
<1>1. t \in Seq(T)
  BY OutcomeParts
<1> HIDE DEF t, p
<1>2. RemoveAt(t, Newest(t, p)) \in Seq(T)
  <2>1. Newest(t, p) \in 0..Len(t) /\ Len(t) \in Nat
    BY <1>1, NewestAt, Elements
  <2>2. CASE Newest(t, p) = 0
    BY <1>1, <2>2, NotRemoved
  <2>3. CASE Newest(t, p) # 0
    <3>1. Newest(t, p) \in 1..Len(t)
      BY <2>1, <2>3
    <3> QED BY <1>1, <3>1, Removed
  <2> QED BY <2>2, <2>3
<1>3. /\ [table |-> t, ok |-> FALSE] \in Outcome(T)
      /\ [table |-> RemoveAt(t, Newest(t, p)), ok |-> TRUE] \in Outcome(T)
  BY <1>1, <1>2, AnOutcome
<1>4. \/ Unmount(acc, e) = [table |-> t, ok |-> FALSE]
      \/ Unmount(acc, e) = [table |-> RemoveAt(t, Newest(t, p)), ok |-> TRUE]
  BY Zenon DEF Unmount, t, p
<1> QED BY <1>3, <1>4

\* The outcomes after each number of entries.
LEMMA LoopOutcomes ==
    ASSUME NEW T, NEW table \in Seq(T), NEW entries, Len(entries) \in Nat
    PROVE  LET after == Loop(table, entries)
           IN  /\ after[0] = [table |-> table, ok |-> TRUE]
               /\ \A n \in 1..Len(entries) : after[n] = Unmount(after[n - 1], entries[n])
               /\ \A n \in 0..Len(entries) : after[n] \in Outcome(T)
<1> DEFINE N == Len(entries)
           A == Outcome(T)
           base == [table |-> table, ok |-> TRUE]
           step == [n \in 1..N |-> [acc \in A |-> Unmount(acc, entries[n])]]
           Pass(f) == [n \in 0..N |-> IF n = 0 THEN base ELSE Unmount(f[n - 1], entries[n])]
           after == CHOOSE f : f = Pass(f)
<1>1. Loop(table, entries) = after
  BY DEF Loop
<1>2. base \in A
  BY AnOutcome
<1>3. Passes(step, N, A)
  <2>1. \A n \in 1..N, acc \in A : Unmount(acc, entries[n]) \in A
    BY UnmountTypes
  <2> HIDE DEF A
  <2> QED BY <2>1 DEF Passes
<1>4. PICK g : Folds(g, base, step, N, A)
  <2> HIDE DEF step, A, base
  <2> QED BY <1>2, <1>3, Folding
<1> HIDE DEF A, N, base
<1>5. N \in Nat
  BY DEF N
<1>6. /\ g \in [0..N -> A] /\ g[0] = base
      /\ \A n \in 1..N : g[n] = Unmount(g[n - 1], entries[n])
  <2>1. g \in [0..N -> A] /\ g[0] = base /\ \A n \in 1..N : g[n] = step[n][g[n - 1]]
    BY <1>4 DEF Folds
  <2>2. \A n \in 1..N : g[n - 1] \in A
    BY <1>5, <2>1
  <2> QED BY <2>1, <2>2
<1>7. g = Pass(g)
  <2>1. \A n \in 0..N : n = 0 \/ n \in 1..N
    BY <1>5
  <2> QED BY <1>6, <2>1
<1>8. after = Pass(after)
  <2> HIDE DEF Pass
  <2> QED BY <1>7
<1> HIDE DEF after
<1>9. after[0] = base /\ \A n \in 1..N : after[n] = Unmount(after[n - 1], entries[n])
  <2>1. \A n \in 0..N : after[n] = IF n = 0 THEN base ELSE Unmount(after[n - 1], entries[n])
    BY <1>8
  <2>2. 0 \in 0..N /\ \A n \in 1..N : n \in 0..N /\ n # 0
    BY <1>5
  <2> QED BY <2>1, <2>2
<1>10. \A n \in 0..N : after[n] \in A
  <2> DEFINE S == {n \in 0..N : after[n] \in A}
  <2>1. 0 \in S
    BY <1>2, <1>5, <1>9
  <2>2. \A n \in 0..(N - 1) : n \in S => n + 1 \in S
    <3> SUFFICES ASSUME NEW n \in 0..(N - 1), n \in S PROVE n + 1 \in S
      OBVIOUS
    <3>1. n + 1 \in 1..N /\ n + 1 \in 0..N /\ (n + 1) - 1 = n
      BY <1>5
    <3>2. after[n + 1] = Unmount(after[n], entries[n + 1])
      BY <1>9, <3>1
    <3>3. after[n + 1] \in A
      BY <3>2, UnmountTypes DEF A
    <3> QED BY <3>1, <3>3
  <2> HIDE DEF S
  <2>3. \A n \in 0..N : n \in S
    BY <1>5, <2>1, <2>2, Induction
  <2> QED BY <2>3 DEF S
<1> QED BY <1>1, <1>9, <1>10 DEF A, N, base

\* The whole of umount_partitions: a table again, and an empty one exactly when no umount
\* was refused.
LEMMA UmountResult ==
    ASSUME NEW T, \A e \in T : e.path \in Seq(Nat), NEW table \in Seq(T)
    PROVE  LET r == umount_partitions(table)
           IN  r.table \in Seq(T) /\ (r.ok <=> r.table = <<>>)
<1> DEFINE N == Len(table)
           read == parse_mtab(table)
           entries == Sort(read)
           after == Loop(table, entries)
           none == <<>>
<1>1. N \in Nat /\ DOMAIN table = 1..N /\ \A i \in 1..N : table[i].path \in Seq(Nat)
  BY Elements
<1>2. DOMAIN read = 1..N /\ \A i \in 1..N : read[i].mountpoint = table[i].path
  <2>1. read = [i \in 1..N |-> MTabEntry(table[i].dev, table[i].path)]
    BY ParseLists
  <2>2. \A i \in 1..N : MTabEntry(table[i].dev, table[i].path).mountpoint = table[i].path
    BY DEF MTabEntry
  <2> HIDE DEF read, N
  <2> QED BY <2>1, <2>2
<1> HIDE DEF N, read
<1>3. PICK o \in Bijection(1..N, 1..N) : entries = [i \in 1..N |-> read[o[i]]]
  BY <1>1, <1>2, SortPermutes
<1>4. /\ o \in [1..N -> 1..N]
      /\ \A i, j \in 1..N : o[i] = o[j] => i = j
      /\ \A k \in 1..N : \E i \in 1..N : o[i] = k
  BY DEF Bijection, Injection, Surjection, IsInjective
<1> HIDE DEF entries
<1>5. Len(entries) = N
  BY <1>1, <1>3
<1>6. /\ after[0] = [table |-> table, ok |-> TRUE]
      /\ \A n \in 1..N : after[n] = Unmount(after[n - 1], entries[n])
      /\ \A n \in 0..N : after[n] \in Outcome(T)
  <2>1. Len(entries) \in Nat
    BY <1>1, <1>5
  <2>2. /\ after[0] = [table |-> table, ok |-> TRUE]
        /\ \A n \in 1..Len(entries) : after[n] = Unmount(after[n - 1], entries[n])
        /\ \A n \in 0..Len(entries) : after[n] \in Outcome(T)
    BY <2>1, LoopOutcomes, Zenon
  <2> QED BY <1>5, <2>2
<1> HIDE DEF after
\* So far so good, and the rest of the entries pairs with what is still mounted; or
\* something is still mounted.
<1> DEFINE Good(n) == after[n].ok /\ \E b : Pairs(b, after[n].table, entries, n, N)
           Stuck(n) == ~after[n].ok /\ Len(after[n].table) # 0
           S == {n \in 0..N : Good(n) \/ Stuck(n)}
<1>7. 0 \in S
  <2> DEFINE b == [k \in 1..N |-> CHOOSE i \in 1..N : o[i] = k]
  <2>1. \A k \in 1..N : b[k] \in 1..N /\ o[b[k]] = k
    BY <1>4
  <2>2. \A i \in 1..N : b[o[i]] = i
    BY <1>4, <2>1
  <2>3. b \in [1..N -> (0 + 1)..N]
    BY <2>1
  <2> HIDE DEF b
  <2>4. \A i, j \in 1..N : b[i] = b[j] => i = j
    BY <2>1
  <2>5. \A k \in 1..N : \E i \in 1..N : b[i] = k
    BY <1>4, <2>2
  <2>6. \A i \in 1..N : table[i].path = entries[b[i]].mountpoint
    BY <1>2, <1>3, <2>1
  <2>7. Pairs(b, table, entries, 0, N)
    <3>1. 0 + 1 = 1
      OBVIOUS
    <3>2. b \in [1..N -> 1..N] /\ \A k \in (0 + 1)..N : \E i \in 1..N : b[i] = k
      BY <2>3, <2>5, <3>1
    <3> QED BY <2>3, <2>4, <2>6, <3>2 DEF Pairs, N
  <2>8. after[0].table = table /\ after[0].ok = TRUE
    BY <1>6
  <2> QED BY <1>1, <2>7, <2>8
<1>8. ASSUME NEW n \in 0..(N - 1), n \in S PROVE n + 1 \in S
  <2> DEFINE acc == after[n]
             e == entries[n + 1]
             u == Unmount(acc, e)
  <2>1. n \in 0..N /\ n + 1 \in 1..N /\ n + 1 \in 0..N /\ (n + 1) - 1 = n
    BY <1>1
  <2>2. after[n + 1] = Unmount(acc, entries[n + 1])
    BY <1>6, <2>1
  <2>3. acc.table \in Seq(T) /\ acc.ok \in BOOLEAN
    BY <1>6, <2>1, OutcomeParts
  <2>4. /\ ~acc.ok \/ Busy(acc.table, e.mountpoint) => u.table = acc.table /\ u.ok = FALSE
        /\ acc.ok /\ ~Busy(acc.table, e.mountpoint) =>
              u.table = RemoveAt(acc.table, Newest(acc.table, e.mountpoint)) /\ u.ok = TRUE
    <3> HIDE DEF acc, e
    <3> QED BY UnmountEffect
  <2>5. after[n + 1] = u
    BY <2>2
  <2> HIDE DEF u, e
  <2>6. CASE ~acc.ok
    <3>1. u.table = acc.table /\ u.ok = FALSE
      <4> HIDE DEF acc
      <4> QED BY <2>4, <2>6
    <3>2. Stuck(n)
      BY <1>8, <2>6
    <3> QED BY <2>1, <2>5, <3>1, <3>2
  <2>7. CASE acc.ok /\ Busy(acc.table, e.mountpoint)
    <3>1. u.table = acc.table /\ u.ok = FALSE
      <4> HIDE DEF acc
      <4> QED BY <2>4, <2>7
    <3>2. Len(acc.table) # 0
      <4>1. \E j \in DOMAIN acc.table : TRUE
        BY <2>7 DEF Busy
      <4>2. DOMAIN acc.table = 1..Len(acc.table)
        BY <2>3, Elements
      <4> HIDE DEF acc
      <4> QED BY <4>1, <4>2
    <3> QED BY <2>1, <2>5, <3>1, <3>2
  <2>8. CASE acc.ok /\ ~Busy(acc.table, e.mountpoint)
    <3>1. u.table = RemoveAt(acc.table, Newest(acc.table, e.mountpoint)) /\ u.ok = TRUE
      <4> HIDE DEF acc
      <4> QED BY <2>4, <2>8
    <3>2. PICK b : Pairs(b, acc.table, entries, n, N)
      BY <1>8, <2>8
    <3>3. \E c : Pairs(c, RemoveAt(acc.table, Newest(acc.table, e.mountpoint)), entries, n + 1, N)
      <4>1. \E c : Pairs(c, RemoveAt(acc.table, Newest(acc.table, entries[n + 1].mountpoint)), entries, n + 1, N)
        <5> HIDE DEF acc
        <5> QED BY <1>1, <2>3, <3>2, UmountPairs
      <4> QED BY <4>1 DEF e
    <3>4. Good(n + 1)
      <4> HIDE DEF acc
      <4> QED BY <2>5, <3>1, <3>3
    <3> QED BY <2>1, <3>4
  <2> QED BY <2>6, <2>7, <2>8
<1>9. N \in S
  <2>1. \A n \in 0..(N - 1) : n \in S => n + 1 \in S
    BY <1>8
  <2> HIDE DEF S
  <2>2. \A n \in 0..N : n \in S
    BY <1>1, <1>7, <2>1, Induction
  <2>3. N \in 0..N
    BY <1>1
  <2> QED BY <2>2, <2>3
<1>10. after[N].table \in Seq(T) /\ after[N].ok \in BOOLEAN
  BY <1>1, <1>6, OutcomeParts
<1>11. after[N].ok <=> Len(after[N].table) = 0
  <2>1. CASE Stuck(N)
    BY <2>1
  <2>2. CASE Good(N)
    <3>1. PICK b : Pairs(b, after[N].table, entries, N, N)
      BY <2>2
    <3>2. \A i \in 1..Len(after[N].table) : b[i] \in (N + 1)..N
      BY <3>1 DEF Pairs
    <3>3. (N + 1)..N = {}
      BY <1>1
    <3>4. Len(after[N].table) \in Nat
      BY <1>10, Elements
    <3> QED BY <2>2, <3>2, <3>3, <3>4
  <2> QED BY <1>9, <2>1, <2>2
<1>12. Len(after[N].table) = 0 <=> after[N].table = <<>>
  <2> DEFINE t == after[N].table
  <2>1. t \in Seq(T)
    BY <1>10
  <2> HIDE DEF t
  <2>2. Len(t) = 0 <=> t = <<>>
    BY <2>1
  <2> QED BY <2>2 DEF t
<1>13. umount_partitions(table) = after[N]
  BY <1>5 DEF umount_partitions, after, entries, read
<1> QED BY <1>10, <1>11, <1>12, <1>13

------------------------------------------------------------------------------
(* What every dialogue keeps, and with it what umount_partitions is run on.  *)

\* The types of what is mounted, of the schema, and of everything else.
Mounts == [dev : Parts, path : Seq(Nat)]
Entries == [fstype : {"root", "other", "linuxswap"}, mountpoint : Seq(Nat), device : Parts,
            luks : Parts \cup {""}]

DialogueTypes ==
    /\ at \in {"prep_menu", "root", "root_mkfs", "swap", "extra", "terminated"}
    /\ passes \in 0..MaxPasses
    /\ disk \subseteq Parts /\ fstype \in [Parts -> FsTypes]
    /\ swaps \subseteq Parts \cup {"swapfile"}
    /\ PARTITIONS \subseteq Parts /\ NUMBER_PARTITIONS \in Int
    /\ ROOT_PART \in Parts \cup {""}
    /\ SWAP_DEVICE \in Parts \cup {"", "swapfile"}
    /\ LUKS_NAME \in Parts \cup {""} /\ LVM_SEP_BOOT \in 0..2
    /\ fs_opts \in {"unset", "empty", "some"}

MountTypes == mounts \in Seq(Mounts)
SchemaTypes == partitions \subseteq Entries

\* Paths are sequences of components, and records of typed parts are typed.
LEMMA Paths ==
    /\ Mountpoint \in Seq(Nat) /\ Boot \in Seq(Nat) /\ BootEfi \in Seq(Nat) /\ Home \in Seq(Nat)
    /\ MntMnt \in Seq(Nat) /\ <<>> \in Seq(Nat)
BY DEF Mountpoint, Boot, BootEfi, Home, MntMnt

\* A mounted partition is an entry of the table, and its path is one.
LEMMA MountRecords ==
    /\ \A p \in Parts, path \in Seq(Nat) : [dev |-> p, path |-> path] \in Mounts
    /\ \A e \in Mounts : e.path \in Seq(Nat)
<1> DEFINE X == Seq(Nat)
<1>1. Mounts = [dev : Parts, path : X]
  BY DEF Mounts
<1> HIDE DEF X
<1>2. /\ \A p \in Parts, path \in X : [dev |-> p, path |-> path] \in Mounts
      /\ \A e \in Mounts : e.path \in X
  BY <1>1
<1> QED BY <1>2 DEF X

\* A partition of typed parts is an entry of the schema.
LEMMA SchemaRecords ==
    \A kind \in {"root", "other", "linuxswap"}, path \in Seq(Nat), p \in Parts, name \in Parts \cup {""} :
        Entry(kind, path, p, name) \in Entries
<1> DEFINE X == Seq(Nat)
<1>1. Entries = [fstype : {"root", "other", "linuxswap"}, mountpoint : X, device : Parts,
                 luks : Parts \cup {""}]
  BY DEF Entries
<1> HIDE DEF X
<1>2. \A kind \in {"root", "other", "linuxswap"}, path \in X, p \in Parts, name \in Parts \cup {""} :
        Entry(kind, path, p, name) \in Entries
  BY <1>1 DEF Entry
<1> QED BY <1>2 DEF X

\* The steps every dialogue is made of keep the mount table one.
LEMMA UmountTypes == ASSUME MountTypes, utils_umount_partitions PROVE MountTypes'
<1>1. mounts' = umount_partitions(mounts).table
  BY DEF utils_umount_partitions
<1>2. umount_partitions(mounts).table \in Seq(Mounts)
  BY MountRecords, UmountResult DEF MountTypes
<1> QED BY <1>1, <1>2 DEF MountTypes

\* mount keeps the table one, whether or not it worked.
LEMMA OutcomesTyped ==
    ASSUME MountTypes, NEW p \in Parts, NEW holds, NEW path \in Seq(Nat),
           mounts' \in MountOutcomes(p, holds, path)
    PROVE  MountTypes'
<1> DEFINE e == [dev |-> p, path |-> path]
<1>1. e \in Mounts
  BY MountRecords
<1>2. mounts' = mounts \/ mounts' = Append(mounts, e)
  BY DEF MountOutcomes
<1> HIDE DEF e
<1>3. Append(mounts, e) \in Seq(Mounts)
  BY <1>1, Appended DEF MountTypes
<1> QED BY <1>2, <1>3 DEF MountTypes

\* mount_partition leaves a partition's name or none in LUKS_NAME.
LEMMA LuksTyped ==
    ASSUME NEW p \in Parts, NEW holds, NEW path, NEW name \in Parts \cup {""},
           mount_partition(p, holds, path, name)
    PROVE  LUKS_NAME' \in Parts \cup {""}
BY DEF mount_partition, query_partition

\* cfdisk leaves partitions, each with some file system or none.
LEMMA DiskTypes ==
    ASSUME DialogueTypes, NEW used, create_partitions(used)
    PROVE  disk' \subseteq Parts /\ fstype' \in [Parts -> FsTypes]
<1>1. PICK d \in SUBSET Parts :
         disk' = d /\ fstype' = [p \in Parts |-> IF p \in disk \cap d THEN fstype[p] ELSE "none"]
  BY DEF create_partitions
<1> QED BY <1>1 DEF DialogueTypes, FsTypes

\* A partition's file system changes to one there is.
LEMMA FormatTypes ==
    ASSUME DialogueTypes, NEW p \in Parts, NEW fs \in FsTypes
    PROVE  [fstype EXCEPT ![p] = fs] \in [Parts -> FsTypes]
BY DEF DialogueTypes

\* Taking a partition off the list, or not, keeps list and count.
LEMMA ListTypes ==
    ASSUME DialogueTypes, NEW p, UsePartition(p) \/ UNCHANGED <<PARTITIONS, NUMBER_PARTITIONS>>
    PROVE  PARTITIONS' \subseteq Parts /\ NUMBER_PARTITIONS' \in Int
<1>1. PARTITIONS \subseteq Parts /\ NUMBER_PARTITIONS \in Int
  BY DEF DialogueTypes
<1>2. CASE UsePartition(p)
  BY <1>1, <1>2 DEF UsePartition
<1>3. CASE UNCHANGED <<PARTITIONS, NUMBER_PARTITIONS>>
  BY <1>1, <1>3
<1> QED BY <1>2, <1>3

\* Every dialogue keeps the mount table one.
LEMMA NextMounts ==
    ASSUME DialogueTypes, MountTypes, [Next]_vars
    PROVE  MountTypes'
<1>0. PARTITIONS \subseteq Parts
  BY DEF DialogueTypes
<1>1. CASE partition_disk
  BY <1>1, UmountTypes DEF partition_disk
<1>2. CASE mount_partitions
  BY <1>2, UmountTypes DEF mount_partitions
<1>3. CASE apply_root_partition_actions
  <2>1. PICK p \in Parts : mount_partition(p, fstype[p], MntMnt, "")
    BY <1>0, <1>3 DEF apply_root_partition_actions, RootPartitionSelection
  <2> QED BY <2>1, Paths, OutcomesTyped DEF mount_partition
<1>4. CASE mount_other_partition
  <2>1. PICK p \in Parts, path \in {Boot, BootEfi, Home} : mount_partition(p, fstype'[p], path, LUKS_NAME)
    BY <1>0, <1>4 DEF mount_other_partition, mount_current_partition
  <2>2. path \in Seq(Nat)
    BY Paths
  <2> QED BY <2>1, <2>2, OutcomesTyped DEF mount_partition
<1>5. CASE done
  <2>1. \/ mounts' = mounts
        \/ \E p \in Parts, path \in {Boot, BootEfi} : mounts' \in MountOutcomes(p, fstype'[p], path)
    BY <1>0, <1>5 DEF done, make_esp
  <2>2. CASE mounts' = mounts
    BY <2>2 DEF MountTypes
  <2>3. CASE \E p \in Parts, path \in {Boot, BootEfi} : mounts' \in MountOutcomes(p, fstype'[p], path)
    <3>1. PICK p \in Parts, path \in {Boot, BootEfi} : mounts' \in MountOutcomes(p, fstype'[p], path)
      BY <2>3
    <3>2. path \in Seq(Nat)
      BY Paths
    <3> QED BY <3>1, <3>2, OutcomesTyped
  <2> QED BY <2>1, <2>2, <2>3
<1>6. CASE \/ cancel \/ ok_on_empty_menu \/ select_root_partition_info \/ format_root
           \/ make_swap_not \/ make_swapfile \/ make_swap_partition \/ extra_cancelled
           \/ UNCHANGED vars
  <2>1. mounts' = mounts
    BY <1>6 DEF cancel, ok_on_empty_menu, select_root_partition_info, format_root,
       make_swap_not, make_swapfile, make_swap_partition, extra_cancelled, vars
  <2> QED BY <2>1 DEF MountTypes
<1> QED BY <1>1, <1>2, <1>3, <1>4, <1>5, <1>6
        DEF Next, mounting, mount_root_partition, make_swap, other_partitions

\* The test of the loop keeps the schema it is given, or empties it.
LEMMA LoopSchema ==
    ASSUME SchemaTypes, NEW number, NEW schema \in SUBSET Entries, LoopTest(number, schema)
    PROVE  SchemaTypes' /\ at' \in {"extra", "prep_menu"}
BY DEF LoopTest, SchemaTypes

\* Every dialogue keeps the schema's entries typed.
LEMMA NextSchemaTypes ==
    ASSUME DialogueTypes, DialogueTypes', SchemaTypes, [Next]_vars
    PROVE  SchemaTypes'
<1>0. PARTITIONS \subseteq Parts /\ LUKS_NAME' \in Parts \cup {""}
  BY DEF DialogueTypes
<1>1. CASE apply_root_partition_actions
  <2>1. PICK p \in Parts : partitions' = {Entry("root", Mountpoint, p, LUKS_NAME')}
    BY <1>0, <1>1 DEF apply_root_partition_actions, RootPartitionSelection
  <2>2. Entry("root", Mountpoint, p, LUKS_NAME') \in Entries
    BY <1>0, Paths, SchemaRecords
  <2> QED BY <2>1, <2>2 DEF SchemaTypes
<1>2. CASE make_swap_not
  BY <1>2, LoopSchema DEF make_swap_not, SchemaTypes
<1>3. CASE make_swapfile
  BY <1>3, LoopSchema DEF make_swapfile, SchemaTypes
<1>4. CASE make_swap_partition
  <2>1. PICK p \in Parts : LoopTest(NUMBER_PARTITIONS', partitions \cup {Entry("linuxswap", <<>>, p, "")})
    BY <1>0, <1>4 DEF make_swap_partition
  <2>2. Entry("linuxswap", <<>>, p, "") \in Entries
    BY Paths, SchemaRecords
  <2> QED BY <2>1, <2>2, LoopSchema DEF SchemaTypes
<1>5. CASE mount_other_partition
  <2>1. PICK p \in Parts, path \in {Boot, BootEfi, Home} :
           LoopTest(NUMBER_PARTITIONS', partitions \cup {Entry("other", path, p, LUKS_NAME')})
    BY <1>0, <1>5 DEF mount_other_partition
  <2>2. Entry("other", path, p, LUKS_NAME') \in Entries
    BY <1>0, Paths, SchemaRecords
  <2> QED BY <2>1, <2>2, LoopSchema DEF SchemaTypes
<1>6. CASE \/ partition_disk \/ mount_partitions \/ cancel \/ ok_on_empty_menu \/ extra_cancelled
           \/ select_root_partition_info \/ format_root \/ done \/ UNCHANGED vars
  BY <1>6 DEF partition_disk, mount_partitions, cancel, ok_on_empty_menu, extra_cancelled,
     select_root_partition_info, format_root, done, vars, SchemaTypes
<1> QED BY <1>1, <1>2, <1>3, <1>4, <1>5, <1>6
        DEF Next, mounting, mount_root_partition, make_swap, other_partitions

\* Every dialogue keeps the disk, the lists and the Config entries typed.
LEMMA NextDialogue ==
    ASSUME DialogueTypes, SchemaTypes, [Next]_vars
    PROVE  DialogueTypes'
<1>0. PARTITIONS \subseteq Parts /\ \A p \in Parts : p \in PARTITIONS => p \in Parts
  BY DEF DialogueTypes
<1>1. CASE partition_disk
  <2>1. disk' \subseteq Parts /\ fstype' \in [Parts -> FsTypes]
    BY <1>1, DiskTypes DEF partition_disk
  <2> QED BY <1>1, <2>1 DEF partition_disk, utils_umount_partitions, config, DialogueTypes
<1>2. CASE mount_partitions
  <2>1. disk' \subseteq Parts /\ fstype' \in [Parts -> FsTypes]
    <3>1. CASE UNCHANGED <<disk, fstype>>
      BY <3>1 DEF DialogueTypes
    <3>2. CASE create_partitions(Mounted(mounts') \cup swaps')
      BY <3>2, DiskTypes
    <3> QED BY <1>2, <3>1, <3>2 DEF mount_partitions, find_partitions
  <2>2. PARTITIONS' \subseteq Parts /\ NUMBER_PARTITIONS' \in Int
    <3>1. disk \subseteq Parts
      BY DEF DialogueTypes
    <3>2. Cardinality(disk) \in Nat
      BY <3>1, PartsAssumption, FS_Subset, FS_CardinalityType
    <3>3. PARTITIONS' = disk /\ NUMBER_PARTITIONS' = Cardinality(disk)
      BY <1>2 DEF mount_partitions, find_partitions
    <3> QED BY <3>1, <3>2, <3>3
  <2>3. passes' \in 0..MaxPasses /\ at' = "root"
    <3>1. passes \in 0..MaxPasses /\ MaxPasses \in Nat
      BY PartsAssumption DEF DialogueTypes
    <3>2. passes < MaxPasses /\ passes' = passes + 1 /\ at' = "root"
      BY <1>2 DEF mount_partitions
    <3> QED BY <3>1, <3>2
  <2>4. swaps' \subseteq Parts \cup {"swapfile"}
    BY <1>2 DEF mount_partitions, utils_umount_partitions, DialogueTypes
  <2> QED BY <1>2, <2>1, <2>2, <2>3, <2>4 DEF mount_partitions, config, DialogueTypes
<1>3. CASE cancel \/ ok_on_empty_menu \/ format_root \/ UNCHANGED vars
  BY <1>3 DEF cancel, ok_on_empty_menu, format_root, vars, config, DialogueTypes
<1>4. CASE select_root_partition_info
  BY <1>4 DEF select_root_partition_info, RootPartitionSelection, DialogueTypes
<1>5. CASE apply_root_partition_actions
  <2>1. PICK p \in Parts : mount_partition(p, fstype[p], MntMnt, "") /\ ROOT_PART' = p
    BY <1>0, <1>5 DEF apply_root_partition_actions, RootPartitionSelection
  <2>2. LUKS_NAME' \in Parts \cup {""}
    BY <2>1, LuksTyped
  <2> QED BY <1>5, <2>1, <2>2 DEF apply_root_partition_actions, DialogueTypes
<1>6. CASE make_swap_not
  <2>1. at' \in {"extra", "prep_menu"}
    BY <1>6, LoopSchema DEF make_swap_not, SchemaTypes
  <2>2. fstype' \in [Parts -> FsTypes] /\ swaps' = swaps
    <3>1. CASE UNCHANGED <<fstype, swaps>>
      BY <3>1 DEF DialogueTypes
    <3>2. CASE \E p \in PARTITIONS : swap_make_swap_partition(p, 1)
      <4>1. PICK p \in Parts : swap_make_swap_partition(p, 1)
        BY <1>0, <3>2
      <4> QED BY <4>1, FormatTypes DEF swap_make_swap_partition, FsTypes
    <3> QED BY <1>6, <3>1, <3>2 DEF make_swap_not
  <2> QED BY <1>6, <2>1, <2>2 DEF make_swap_not, config, DialogueTypes
<1>7. CASE make_swapfile
  <2>1. at' \in {"extra", "prep_menu"}
    BY <1>7, LoopSchema DEF make_swapfile, SchemaTypes
  <2> QED BY <1>7, <2>1 DEF make_swapfile, swap_make_swapfile, DialogueTypes
<1>8. CASE make_swap_partition
  <2>1. PICK p \in Parts : /\ swap_make_swap_partition(p, 2) /\ SWAP_DEVICE' = p
                           /\ UsePartition(p)
    BY <1>0, <1>8 DEF make_swap_partition
  <2>2. at' \in {"extra", "prep_menu"}
    BY <1>8 DEF make_swap_partition, LoopTest
  <2>3. fstype' \in [Parts -> FsTypes] /\ swaps' \subseteq Parts \cup {"swapfile"}
    <3>1. fstype' = [fstype EXCEPT ![p] = "swap"] /\ swaps' = swaps \cup {p}
      BY <2>1 DEF swap_make_swap_partition
    <3>2. fstype' \in [Parts -> FsTypes]
      BY <3>1, FormatTypes DEF FsTypes
    <3> QED BY <3>1, <3>2 DEF DialogueTypes
  <2>4. PARTITIONS' \subseteq Parts /\ NUMBER_PARTITIONS' \in Int
    BY <2>1, ListTypes
  <2> QED BY <1>8, <2>1, <2>2, <2>3, <2>4 DEF make_swap_partition, DialogueTypes
<1>9. ASSUME NEW p \in PARTITIONS, select_filesystem(p)
      PROVE  fs_opts' \in {"unset", "empty", "some"} /\ fstype' \in [Parts -> FsTypes]
  <2>1. p \in Parts /\ fstype \in [Parts -> FsTypes]
    BY <1>0 DEF DialogueTypes
  <2>2. [fstype EXCEPT ![p] = "linux"] \in [Parts -> FsTypes]
    BY <2>1, FormatTypes DEF FsTypes
  <2> QED BY <1>9, <2>1, <2>2 DEF select_filesystem
<1>10. CASE extra_cancelled
  <2>1. PICK p \in PARTITIONS : select_filesystem(p)
    BY <1>10 DEF extra_cancelled
  <2>2. fs_opts' \in {"unset", "empty", "some"} /\ fstype' \in [Parts -> FsTypes]
    BY <1>9, <2>1
  <2> QED BY <1>10, <2>2 DEF extra_cancelled, DialogueTypes
<1>11. CASE mount_other_partition
  <2>1. PICK p \in PARTITIONS, path \in {Boot, BootEfi, Home} :
           /\ select_filesystem(p) /\ mount_current_partition(p, path)
           /\ LVM_SEP_BOOT' = IF path # Boot THEN LVM_SEP_BOOT
                              ELSE IF p \in Lvm THEN 2 ELSE 1
           /\ at' = IF NUMBER_PARTITIONS' > 0 THEN "extra" ELSE "prep_menu"
    BY <1>11 DEF mount_other_partition, LoopTest
  <2>2. fs_opts' \in {"unset", "empty", "some"} /\ fstype' \in [Parts -> FsTypes]
    BY <1>9, <2>1
  <2>3. LUKS_NAME' \in Parts \cup {""}
    <3>1. p \in Parts /\ LUKS_NAME \in Parts \cup {""}
      BY <1>0 DEF DialogueTypes
    <3> QED BY <2>1, <3>1, LuksTyped DEF mount_current_partition
  <2>4. PARTITIONS' \subseteq Parts /\ NUMBER_PARTITIONS' \in Int
    BY <2>1, ListTypes DEF mount_current_partition, confirm_mount
  <2>5. LVM_SEP_BOOT' \in 0..2
    <3>1. LVM_SEP_BOOT \in 0..2
      BY DEF DialogueTypes
    <3> QED BY <2>1, <3>1
  <2> QED BY <1>11, <2>1, <2>2, <2>3, <2>4, <2>5 DEF mount_other_partition, DialogueTypes
<1>12. CASE done
  <2>1. PICK p \in PARTITIONS :
           /\ fstype' = fstype \/ fstype' = [fstype EXCEPT ![p] = "fat"]
           /\ \/ UNCHANGED <<mounts, PARTITIONS, NUMBER_PARTITIONS>>
              \/ \E path \in {Boot, BootEfi} : confirm_mount(p, path)
    BY <1>12 DEF done, make_esp
  <2>2. fstype' \in [Parts -> FsTypes]
    <3>1. fstype \in [Parts -> FsTypes] /\ [fstype EXCEPT ![p] = "fat"] \in [Parts -> FsTypes]
      BY <1>0, FormatTypes DEF DialogueTypes, FsTypes
    <3> QED BY <2>1, <3>1
  <2>3. PARTITIONS' \subseteq Parts /\ NUMBER_PARTITIONS' \in Int
    BY <2>1, ListTypes DEF confirm_mount
  <2> QED BY <1>12, <2>2, <2>3 DEF done, config, DialogueTypes
<1> QED BY <1>1, <1>2, <1>3, <1>4, <1>5, <1>6, <1>7, <1>8, <1>10, <1>11, <1>12
        DEF Next, mounting, mount_root_partition, make_swap, other_partitions

\* The parts of TypeOK, one lemma for each.
TypeInv == DialogueTypes /\ MountTypes /\ SchemaTypes

\* Every dialogue leaves the mount table, the schema, the partition list and the Config
\* entries what they are, umount_partitions and failed mounts included.
THEOREM TypeCorrect == Spec => []TypeOK
<1>1. Init => TypeInv
  <2> SUFFICES ASSUME Init PROVE TypeInv
    OBVIOUS
  <2>1. DialogueTypes
    <3>1. passes \in 0..MaxPasses /\ NUMBER_PARTITIONS \in Int /\ LVM_SEP_BOOT \in 0..2
      <4>1. passes = 0 /\ NUMBER_PARTITIONS = 0 /\ LVM_SEP_BOOT = 0
        BY DEF Init
      <4>2. MaxPasses \in Nat
        BY PartsAssumption
      <4> QED BY <4>1, <4>2
    <3>2. fstype \in [Parts -> FsTypes] /\ disk \subseteq Parts
      BY DEF Init, FsTypes
    <3> QED BY <3>1, <3>2 DEF Init, DialogueTypes
  <2>2. MountTypes /\ SchemaTypes
    <3>1. mounts = <<>> /\ partitions = {}
      BY DEF Init
    <3>2. <<>> \in Seq(Mounts)
      OBVIOUS
    <3> QED BY <3>1, <3>2 DEF MountTypes, SchemaTypes
  <2> QED BY <2>1, <2>2 DEF TypeInv
<1>2. TypeInv /\ [Next]_vars => TypeInv'
  BY NextDialogue, NextMounts, NextSchemaTypes DEF TypeInv
<1>3. TypeInv => TypeOK
  BY DEF TypeInv, DialogueTypes, MountTypes, SchemaTypes, TypeOK, Mounts, Entries
<1> QED BY <1>1, <1>2, <1>3, PTL DEF Spec

\* Whatever the dialogues mounted, twice at one path or below one another, and in whichever
\* order the sort leaves equal mountpoints, umount_partitions reports success exactly when
\* nothing is left mounted below MOUNTPOINT.
THEOREM UmountCorrect == Spec => []UmountHonest
<1>1. TypeOK => UmountHonest
  <2>1. TypeOK => mounts \in Seq(Mounts)
    BY DEF TypeOK, Mounts
  <2>2. mounts \in Seq(Mounts) => UmountHonest
    BY MountRecords, UmountResult DEF UmountHonest
  <2> QED BY <2>1, <2>2
<1> QED BY <1>1, TypeCorrect, PTL

------------------------------------------------------------------------------
(* The menus of the disks.                                                  *)

\* The variables that the theorems are about have their types.
DiskMenuTypes ==
    /\ luks \in [Partitions -> Passwords \cup {None}] /\ mapper \in [Names -> Partitions \cup {None}]
    /\ PASSWD \in Passwords \cup {None}

\* An open partition's disk is in no array.
OpenInv == DiskMenuTypes /\ OpenStaysOffered

\* A dialogue answered to its end leaves in Config the partition, the name and the
\* password that were typed.
LEMMA Answers ==
    ASSUME NEW typed \in Typed, Stored(typed)
    PROVE  /\ PARTITION' \in Partitions /\ LUKS_ROOT_NAME' \in Names /\ PASSWD' \in Passwords
           /\ typed.part = PARTITION' /\ typed.name = LUKS_ROOT_NAME' /\ typed.pass = PASSWD'
BY DEF Typed, Stored, Offered

\* Formatting and opening one partition keep the types, and open only what is offered.
\* Without a failure the partition in Config has the password there and is open by the name.
LEMMA Encrypt ==
    ASSUME OpenInv, NEW entry, NEW asked, luks_encrypt(entry, asked),
           PASSWD' \in Passwords \cup {None}, UNCHANGED raid
    PROVE  /\ OpenInv'
           /\ visit'.part = asked.part /\ visit'.name = asked.name /\ visit'.pass = asked.pass
           /\ (visit'.done /\ ~visit'.failed) =>
                 /\ PARTITION' \in Partitions => luks'[PARTITION'] = PASSWD'
                 /\ LUKS_ROOT_NAME' \in Names => mapper'[LUKS_ROOT_NAME'] = PARTITION'
<1> USE DEF OpenInv, DiskMenuTypes
<1>1. PICK formats, works \in BOOLEAN :
        /\ formats => CanFormat(PARTITION')
        /\ luks' = IF formats THEN [luks EXCEPT ![PARTITION'] = PASSWD'] ELSE luks
        /\ works => CanOpen(luks', PARTITION', LUKS_ROOT_NAME', PASSWD')
        /\ mapper' = IF works THEN [mapper EXCEPT ![LUKS_ROOT_NAME'] = PARTITION'] ELSE mapper
        /\ visit' = Answered(entry, asked, TRUE, ~(formats /\ works))
  BY DEF luks_encrypt
<1>2. formats => PARTITION' \in Partitions
  BY <1>1 DEF CanFormat, Offered
<1>3. luks' \in [Partitions -> Passwords \cup {None}]
  BY <1>1, <1>2
<1>4. works => PARTITION' \in Offered /\ PARTITION' \in Partitions /\ LUKS_ROOT_NAME' \in Names
  BY <1>1 DEF CanOpen, Offered
<1>5. mapper' \in [Names -> Partitions \cup {None}]
  BY <1>1, <1>4
<1>6. Offered' = Offered
  BY DEF Offered, raid
<1>7. \A p \in Partitions : IsOpen(p)' => IsOpen(p) \/ (works /\ p = PARTITION')
  BY <1>1, <1>4 DEF IsOpen
<1>8. OpenStaysOffered'
  BY <1>4, <1>6, <1>7 DEF OpenStaysOffered
<1>9. /\ visit'.part = asked.part /\ visit'.name = asked.name /\ visit'.pass = asked.pass
      /\ visit'.failed = ~(formats /\ works)
  BY <1>1 DEF Answered
<1>10. ASSUME formats, works, PARTITION' \in Partitions PROVE luks'[PARTITION'] = PASSWD'
  BY <1>1, <1>10
<1>11. ASSUME works, LUKS_ROOT_NAME' \in Names PROVE mapper'[LUKS_ROOT_NAME'] = PARTITION'
  BY <1>1, <1>11
<1> QED BY <1>3, <1>5, <1>8, <1>9, <1>10, <1>11 DEF raid

LEMMA OpenInit == DiskInit => OpenInv
BY DiskAssumption DEF DiskInit, OpenInv, DiskMenuTypes, OpenStaysOffered, IsOpen

\* A step that leaves containers and arrays alone.
LEMMA OpenStutter ==
    ASSUME OpenInv, UNCHANGED <<luks, mapper, member>>, PASSWD' \in Passwords \cup {None}
    PROVE  OpenInv'
BY DEF OpenInv, DiskMenuTypes, OpenStaysOffered, IsOpen, Offered

\* Every step keeps open containers off the arrays.
LEMMA OpenStep ==
    ASSUME OpenInv, [DiskNext]_disk_vars
    PROVE  OpenInv'
<1> USE DiskAssumption
<1>1. \A ok \in BOOLEAN : Dialogue(ok) \/ OpenDialogue(ok) => PASSWD' \in Passwords \cup {None}
  BY DEF Dialogue, OpenDialogue, Typed, Stored, OpenInv, DiskMenuTypes
<1>2. ASSUME luks_open PROVE OpenInv'
  <2>1. UNCHANGED <<luks, raid>> /\ PASSWD' \in Passwords \cup {None}
    BY <1>1, <1>2 DEF luks_open
  <2>2. CASE UNCHANGED mapper
    BY <2>1, <2>2, OpenStutter DEF raid
  <2>3. CASE /\ CanOpen(luks, PARTITION', LUKS_ROOT_NAME', PASSWD')
             /\ mapper' = [mapper EXCEPT ![LUKS_ROOT_NAME'] = PARTITION']
    <3>1. PARTITION' \in Offered /\ PARTITION' \in Partitions /\ LUKS_ROOT_NAME' \in Names
      BY <2>3 DEF CanOpen, Offered
    <3>2. mapper' \in [Names -> Partitions \cup {None}]
      BY <2>3, <3>1 DEF OpenInv, DiskMenuTypes
    <3>3. \A p \in Partitions : IsOpen(p)' => IsOpen(p) \/ p = PARTITION'
      BY <2>3, <3>1 DEF IsOpen, OpenInv, DiskMenuTypes
    <3>4. Offered' = Offered
      BY <2>1 DEF Offered, raid
    <3> QED BY <2>1, <3>1, <3>2, <3>3, <3>4 DEF OpenInv, DiskMenuTypes, OpenStaysOffered
  <2> QED BY <1>2, <2>2, <2>3 DEF luks_open
<1>3. ASSUME NEW entry, luks_default(entry) PROVE OpenInv'
  <2>1. UNCHANGED raid /\ PASSWD' \in Passwords \cup {None}
    BY <1>1, <1>3, Answers DEF luks_default
  <2>2. CASE UNCHANGED crypt
    BY <2>1, <2>2, OpenStutter DEF raid, crypt
  <2>3. CASE \E typed \in Typed : luks_encrypt(entry, typed)
    BY <2>1, <2>3, Encrypt
  <2> QED BY <1>3, <2>2, <2>3 DEF luks_default
<1>4. ASSUME luks_key_define PROVE OpenInv'
  <2>1. UNCHANGED raid /\ PASSWD' \in Passwords \cup {None}
    BY <1>1, <1>4 DEF luks_key_define
  <2>2. CASE UNCHANGED crypt
    BY <2>1, <2>2, OpenStutter DEF raid, crypt
  <2>3. CASE luks_encrypt("Define", Kept')
    BY <2>1, <2>3, Encrypt
  <2> QED BY <1>4, <2>2, <2>3 DEF luks_key_define
<1>5. ASSUME raid_create_array PROVE OpenInv'
  <2>1. UNCHANGED <<luks, mapper, PASSWD>>
    BY <1>5 DEF raid_create_array, crypt
  <2>2. CASE UNCHANGED raid
    BY <2>1, <2>2, OpenStutter DEF raid, OpenInv, DiskMenuTypes
  <2>3. ASSUME NEW chosen \in SUBSET Disks,
               \A p \in Partitions : IsOpen(p) => DiskOf[p] \notin chosen,
               member' = [d \in Disks |-> IF d \in chosen THEN raid_device ELSE member[d]]
        PROVE  OpenInv'
    <3>1. \A p \in Partitions : IsOpen(p)' => IsOpen(p)
      BY <2>1 DEF IsOpen
    <3>2. \A p \in Partitions : IsOpen(p) => member'[DiskOf[p]] = member[DiskOf[p]]
      BY <2>3
    <3> QED BY <2>1, <3>1, <3>2 DEF OpenInv, DiskMenuTypes, OpenStaysOffered, Offered
  <2> QED BY <1>5, <2>2, <2>3 DEF raid_create_array
<1>6. ASSUME raid_remove_array PROVE OpenInv'
  <2>1. UNCHANGED <<luks, mapper, PASSWD>>
    BY <1>6 DEF raid_remove_array, crypt, disk_config
  <2>2. CASE UNCHANGED raid
    BY <2>1, <2>2, OpenStutter DEF raid, OpenInv, DiskMenuTypes
  <2>3. ASSUME NEW a \in arrays,
               member' = [d \in Disks |-> IF member[d] = a THEN None ELSE member[d]]
        PROVE  OpenInv'
    <3>1. \A p \in Partitions : IsOpen(p)' => IsOpen(p)
      BY <2>1 DEF IsOpen
    <3>2. \A p \in Partitions : member[DiskOf[p]] = None => member'[DiskOf[p]] = None
      BY <2>3
    <3> QED BY <2>1, <3>1, <3>2 DEF OpenInv, DiskMenuTypes, OpenStaysOffered, Offered
  <2>4. UNCHANGED raid \/ \E a \in arrays :
          member' = [d \in Disks |-> IF member[d] = a THEN None ELSE member[d]]
    BY <1>6, Zenon DEF raid_remove_array
  <2> QED BY <2>2, <2>3, <2>4
<1>7. ASSUME raid_list_arrays \/ lvm_menu \/ lvm_uncalled \/ zfs_menu \/ zfs_uncalled \/ UNCHANGED disk_vars
      PROVE  OpenInv'
  <2>1. UNCHANGED <<luks, mapper, member, PASSWD>>
    BY <1>7 DEF raid_list_arrays, lvm_menu, lvm_uncalled, zfs_menu, zfs_create_zpool, zfs_uncalled, disk_vars, disk_config,
                crypt, raid
  <2> QED BY <2>1, OpenStutter DEF OpenInv, DiskMenuTypes
<1> QED BY <1>2, <1>3, <1>4, <1>5, <1>6, <1>7 DEF DiskNext, raid_menu

\* An open container's disk is in no array, whichever menus were visited.
THEOREM OpenDisksStay == DiskSpec => []OpenStaysOffered
<1>1. OpenInv => OpenStaysOffered
  BY DEF OpenInv
<1> QED BY <1>1, OpenInit, OpenStep, PTL DEF DiskSpec

\* After "Done!" without a failure the partition chosen is encrypted with the password
\* and open by the name typed into that dialogue, and remains so until the next one.
THEOREM EncryptionDone == DiskSpec => []EncryptedAsAsked
<1>1. DiskInit => EncryptedAsAsked
  BY DEF DiskInit, EncryptedAsAsked, NoVisit
<1>2. ASSUME OpenInv, EncryptedAsAsked, [DiskNext]_disk_vars PROVE EncryptedAsAsked'
  <2>1. ASSUME UNCHANGED <<luks, mapper, visit>> PROVE EncryptedAsAsked'
    BY <1>2, <2>1 DEF EncryptedAsAsked
  <2>2. ASSUME NEW e \in {"Open", "Define"}, visit'.entry = e PROVE EncryptedAsAsked'
    BY <2>2 DEF EncryptedAsAsked
  <2>3. luks_open => visit'.entry = "Open"
    <3>1. luks_open => \E ended, failed \in BOOLEAN : visit' = Answered("Open", Kept', ended, failed)
      BY DEF luks_open
    <3> QED BY <3>1 DEF Answered
  <2>4. luks_key_define => visit'.entry = "Define"
    <3>1. luks_encrypt("Define", Kept') => \E failed \in BOOLEAN : visit' = Answered("Define", Kept', TRUE, failed)
      BY DEF luks_encrypt
    <3>2. luks_key_define => \E ended, failed \in BOOLEAN : visit' = Answered("Define", Kept', ended, failed)
      BY <3>1 DEF luks_key_define
    <3> QED BY <3>2 DEF Answered
  <2>5. ASSUME NEW entry, luks_default(entry) PROVE EncryptedAsAsked'
    <3>1. CASE visit' = Answered(entry, Kept', FALSE, FALSE)
      BY <3>1 DEF EncryptedAsAsked, Answered
    <3>2. ASSUME NEW typed \in Typed, Stored(typed), luks_encrypt(entry, typed)
          PROVE  EncryptedAsAsked'
      <4>1. /\ PARTITION' \in Partitions /\ LUKS_ROOT_NAME' \in Names /\ PASSWD' \in Passwords
            /\ typed.part = PARTITION' /\ typed.name = LUKS_ROOT_NAME' /\ typed.pass = PASSWD'
        BY <3>2, Answers
      <4>2. UNCHANGED raid
        BY <2>5 DEF luks_default
      <4>3. /\ visit'.part = PARTITION' /\ visit'.name = LUKS_ROOT_NAME' /\ visit'.pass = PASSWD'
            /\ (visit'.done /\ ~visit'.failed) =>
                  luks'[PARTITION'] = PASSWD' /\ mapper'[LUKS_ROOT_NAME'] = PARTITION'
        BY <1>2, <3>2, <4>1, <4>2, Encrypt
      <4> QED BY <4>3 DEF EncryptedAsAsked
    <3> QED BY <2>5, <3>1, <3>2 DEF luks_default
  <2>6. raid_menu \/ lvm_menu \/ lvm_uncalled \/ zfs_menu \/ zfs_uncalled \/ UNCHANGED disk_vars
           => UNCHANGED <<luks, mapper, visit>>
    BY DEF raid_menu, raid_create_array, raid_list_arrays, raid_remove_array, lvm_menu, lvm_uncalled, zfs_menu,
           zfs_create_zpool, zfs_uncalled, disk_vars, crypt
  <2> QED BY <1>2, <2>1, <2>2, <2>3, <2>4, <2>5, <2>6 DEF DiskNext
<1> QED BY <1>1, <1>2, OpenInit, OpenStep, PTL DEF DiskSpec

------------------------------------------------------------------------------
\* Whatever arrays the live system had and whichever were created and removed, in
\* whatever order and however often: what /etc/mdadm.conf calls /dev/md<n> is a running
\* array without another name (tui::raid_create_array, tui::raid_remove_array).  The
\* inductive invariant adds that those with one are running too, so that the number of
\* a new array is none of theirs.
THEOREM ConfCorrect == DiskSpec => []ConfNamesRunning
<1> DEFINE ConfInv == ConfNamesRunning /\ named \subseteq arrays
<1> USE DEF ConfNamesRunning, BagToSet
<1>1. DiskInit => ConfInv
  BY DiskAssumption DEF DiskInit, EmptyBag, SetToBag
<1>2. ASSUME ConfInv, [DiskNext]_disk_vars PROVE ConfInv'
  <2>1. ASSUME UNCHANGED raid PROVE ConfInv'
    BY <1>2, <2>1 DEF raid
  <2>2. ASSUME raid_create_array PROVE ConfInv'
    <3>1. ASSUME raid_device \notin arrays, arrays' = arrays \cup {raid_device}, named' = named,
                 mdadm_conf' = mdadm_conf (+) SetToBag({ScanLine(a) : a \in arrays'})
          PROVE  ConfInv'
      <4>1. DOMAIN mdadm_conf' = DOMAIN mdadm_conf \cup {ScanLine(a) : a \in arrays'}
        BY <3>1 DEF (+), SetToBag
      <4>2. ASSUME NEW line \in DOMAIN mdadm_conf, ~line.by_name
            PROVE  line.number \in arrays' \ named'
        BY <1>2, <3>1, <4>2
      <4>3. ASSUME NEW a \in arrays', ~ScanLine(a).by_name
            PROVE  ScanLine(a).number \in arrays' \ named'
        BY <3>1, <4>3 DEF ScanLine
      <4> QED BY <1>2, <3>1, <4>1, <4>2, <4>3
    <3> QED BY <2>1, <2>2, <3>1, Zenon DEF raid_create_array
  <2>3. ASSUME raid_remove_array PROVE ConfInv'
    <3>1. ASSUME NEW a \in arrays, arrays' = arrays \ {a}, named' = named \ {a},
                 mdadm_conf' = [line \in {l \in DOMAIN mdadm_conf : ~Deleted(a, l)} |-> mdadm_conf[line]]
          PROVE  ConfInv'
      <4>1. ASSUME NEW line \in DOMAIN mdadm_conf', ~line.by_name
            PROVE  line.number \in arrays' \ named'
        <5>1. line \in DOMAIN mdadm_conf /\ ~Matches(a, line.number)
          BY <3>1, <4>1 DEF Deleted
        <5>2. line.number # a
          BY <5>1 DEF Matches
        <5> QED BY <1>2, <3>1, <4>1, <5>1, <5>2
      <4> QED BY <1>2, <3>1, <4>1
    <3> QED BY <2>1, <2>3, <3>1, Zenon DEF raid_remove_array
  <2>4. luks_open \/ luks_key_define \/ raid_list_arrays \/ lvm_menu \/ lvm_uncalled
           \/ zfs_menu \/ zfs_uncalled \/ UNCHANGED disk_vars => UNCHANGED raid
    BY DEF luks_open, luks_key_define, raid_list_arrays, lvm_menu, lvm_uncalled,
           zfs_menu, zfs_create_zpool, zfs_uncalled, disk_vars
  <2>5. \A entry : luks_default(entry) => UNCHANGED raid
    BY DEF luks_default
  <2> QED BY <1>2, <2>1, <2>2, <2>3, <2>4, <2>5, Zenon DEF DiskNext, raid_menu
<1> QED BY <1>1, <1>2, PTL DEF DiskSpec

------------------------------------------------------------------------------
(* Types.                                                                   *)

\* Of any set of numbers ls lists one first, so that there is a name for a new array.
LEMMA FirstListed == ASSUME NEW S \in SUBSET Nat, S # {} PROVE LsFirst(S) \in S
<1> DEFINE keys == {LsKey(a) : a \in S}
<1>1. \A n \in Nat : LsKey(n) \in Nat
  BY DEF LsKey
<1>2. keys \subseteq Nat /\ keys # {}
  BY <1>1
<1>3. PICK k \in keys : \A j \in keys : ~ (<<j, k>> \in OpToRel(<, Nat))
  <2> HIDE DEF keys
  <2> QED BY <1>2, WFMin, NatLessThanWellFounded
<1>4. \A j \in keys : k <= j
  <2>1. ASSUME NEW j \in Nat, NEW i \in Nat, j < i PROVE <<j, i>> \in OpToRel(<, Nat)
    <3>1. <<j, i>> \in Nat \X Nat /\ <<j, i>>[1] < <<j, i>>[2]
      BY <2>1
    <3> QED BY <3>1, Zenon DEF OpToRel
  <2> HIDE DEF keys
  <2>2. ASSUME NEW j \in keys PROVE k <= j
    <3>1. j \in Nat /\ k \in Nat
      BY <1>2
    <3>2. ~(j < k)
      BY <1>3, <2>1, <3>1
    <3> QED BY <3>1, <3>2
  <2> QED BY <2>2
<1>5. \E a \in S : \A b \in S : LsKey(a) <= LsKey(b)
  BY <1>3, <1>4
<1> QED BY <1>5 DEF LsFirst

\* The number of a new array is one.
LEMMA DeviceNumber == ASSUME DiskTypeOK PROVE raid_device \in Nat
<1>1. arrays \in SUBSET Nat
  BY DEF DiskTypeOK
<1>2. arrays # {} => LsFirst(arrays) \in Nat
  BY <1>1, FirstListed
<1> QED BY <1>2 DEF raid_device

\* A scan of the running arrays makes a longer bag of lines.
LEMMA ScanTypes ==
    ASSUME NEW T, NEW B, IsABag(B), DOMAIN B \subseteq T, NEW S \in SUBSET T
    PROVE  IsABag(B (+) SetToBag(S)) /\ DOMAIN (B (+) SetToBag(S)) \subseteq T
<1> DEFINE C == B (+) SetToBag(S)
<1>1. DOMAIN SetToBag(S) = S /\ \A e \in S : SetToBag(S)[e] = 1
  BY DEF SetToBag
<1>2. DOMAIN C = DOMAIN B \cup S
  BY <1>1 DEF (+)
<1>3. \A e \in DOMAIN B : B[e] \in Nat /\ B[e] > 0
  BY DEF IsABag
<1>4. \A e \in DOMAIN C : C[e] = (IF e \in DOMAIN B THEN B[e] ELSE 0)
                                    + (IF e \in S THEN 1 ELSE 0)
  BY <1>1 DEF (+)
<1>5. \A e \in DOMAIN C : C[e] \in Nat /\ C[e] > 0
  <2> HIDE DEF C
  <2> QED BY <1>2, <1>3, <1>4
<1>6. C = [e \in DOMAIN C |-> C[e]]
  BY <1>1 DEF (+)
<1> HIDE DEF C
<1>7. C \in [DOMAIN C -> {n \in Nat : n > 0}]
  BY <1>5, <1>6
<1> QED BY <1>2, <1>7 DEF IsABag, C

\* Deleted lines leave a bag of the others.
LEMMA DeletedTypes ==
    ASSUME NEW T, NEW B, IsABag(B), DOMAIN B \subseteq T, NEW S \in SUBSET DOMAIN B
    PROVE  IsABag([m \in S |-> B[m]]) /\ DOMAIN [m \in S |-> B[m]] \subseteq T
BY DEF IsABag

\* What the LUKS dialogues leave in Config, however far they got.
LEMMA VisitTypes ==
    ASSUME DiskTypeOK, NEW ok \in BOOLEAN, Dialogue(ok) \/ OpenDialogue(ok)
    PROVE  /\ PARTITION' \in Partitions \cup {None} /\ LUKS_ROOT_NAME' \in Names \cup {None}
           /\ PASSWD' \in Passwords \cup {None}
BY DEF DiskTypeOK, Dialogue, OpenDialogue, Typed, Stored, Offered

\* The line of an array is one.
LEMMA Scanned ==
    ASSUME NEW a \in Nat
    PROVE  ScanLine(a) \in [number : Nat, by_name : BOOLEAN]
BY DEF ScanLine

\* The steps of the LUKS menu keep the types; a partition that is formatted holds no
\* volumes in use.
LEMMA LuksTypes ==
    ASSUME DiskTypeOK, luks_open \/ luks_key_define \/ \E entry : luks_default(entry)
    PROVE  DiskTypeOK'
<1> USE DEF DiskTypeOK, Visit
<1>0. visits + 1 \in 0..MaxVisits \/ ~Visit
  BY DiskAssumption
<1>1. /\ PARTITION' \in Partitions \cup {None} /\ LUKS_ROOT_NAME' \in Names \cup {None}
      /\ PASSWD' \in Passwords \cup {None}
  BY VisitTypes, Answers DEF luks_open, luks_key_define, luks_default
<1>2. visits' \in 0..MaxVisits /\ UNCHANGED <<RAID, ZFS, ZFS_ZPOOL_NAME, ZFS_ZPOOL_NAMES, raid, zfs>>
  BY <1>0 DEF luks_open, luks_key_define, luks_default
<1>3. CASE luks_open
  <2>1. mapper' \in [Names -> Partitions \cup {None}]
    <3>1. CASE UNCHANGED mapper
      BY <3>1
    <3>2. CASE /\ CanOpen(luks, PARTITION', LUKS_ROOT_NAME', PASSWD')
               /\ mapper' = [mapper EXCEPT ![LUKS_ROOT_NAME'] = PARTITION']
      BY <3>2 DEF CanOpen, Offered
    <3> QED BY <1>3, <3>1, <3>2 DEF luks_open
  <2>2. UNCHANGED <<luks, lvm>>
    BY <1>3 DEF luks_open
  <2> QED BY <1>1, <1>2, <2>1, <2>2 DEF raid, lvm, zfs
<1>4. ASSUME NEW entry, NEW asked, luks_encrypt(entry, asked) PROVE DiskTypeOK'
  <2>1. PICK formats, works \in BOOLEAN :
          /\ formats => CanFormat(PARTITION')
          /\ luks' = IF formats THEN [luks EXCEPT ![PARTITION'] = PASSWD'] ELSE luks
          /\ groups' = IF formats THEN {g \in groups : g.pv # PARTITION'} ELSE groups
          /\ active' = active
          /\ works => CanOpen(luks', PARTITION', LUKS_ROOT_NAME', PASSWD')
          /\ mapper' = IF works THEN [mapper EXCEPT ![LUKS_ROOT_NAME'] = PARTITION'] ELSE mapper
    BY <1>4 DEF luks_encrypt
  <2>2. luks' \in [Partitions -> Passwords \cup {None}]
    BY <1>1, <2>1 DEF CanFormat, Offered
  <2>3. mapper' \in [Names -> Partitions \cup {None}]
    BY <2>1 DEF CanOpen, Offered
  <2>4. groups' \subseteq VolumeGroups /\ active' \subseteq groups'
    BY <2>1 DEF CanFormat, HoldsVolumes
  <2> QED BY <1>1, <1>2, <2>2, <2>3, <2>4 DEF raid, zfs
<1>5. CASE UNCHANGED <<crypt, lvm>>
  BY <1>1, <1>2, <1>5 DEF crypt, lvm, raid, zfs
<1> QED BY <1>3, <1>4, <1>5 DEF luks_key_define, luks_default

\* So do those of the RAID menu.
LEMMA RaidTypes == ASSUME DiskTypeOK, raid_menu PROVE DiskTypeOK'
<1> USE DEF DiskTypeOK, Visit
<1>0. visits + 1 \in 0..MaxVisits \/ ~Visit
  BY DiskAssumption
<1>1. /\ visits' \in 0..MaxVisits
      /\ UNCHANGED <<PARTITION, LUKS_ROOT_NAME, PASSWD, ZFS, ZFS_ZPOOL_NAME, ZFS_ZPOOL_NAMES,
                     crypt, lvm, zfs>>
  BY <1>0 DEF raid_menu, raid_create_array, raid_remove_array, raid_list_arrays, disk_config
<1>2. CASE UNCHANGED raid /\ RAID' \in {0, 1}
  BY <1>1, <1>2 DEF raid, crypt, lvm, zfs
<1>3. ASSUME raid_create_array, NEW chosen \in SUBSET Disks,
             arrays' = arrays \cup {raid_device},
             member' = [d \in Disks |-> IF d \in chosen THEN raid_device ELSE member[d]],
             named' = named,
             mdadm_conf' = mdadm_conf (+) SetToBag({ScanLine(a) : a \in arrays'}), RAID' = 1
      PROVE  DiskTypeOK'
  <2>1. arrays' \subseteq Nat /\ IsFiniteSet(arrays')
    BY <1>3, DeviceNumber, FS_AddElement
  <2>2. \A d \in Disks : member'[d] \in arrays' \/ member'[d] = None
    BY <1>3
  <2>3. IsABag(mdadm_conf') /\ DOMAIN mdadm_conf' \subseteq [number : Nat, by_name : BOOLEAN]
    <3> DEFINE lines == {ScanLine(a) : a \in arrays'}
    <3>1. lines \in SUBSET [number : Nat, by_name : BOOLEAN]
      BY <2>1, Scanned
    <3> HIDE DEF lines
    <3>2. mdadm_conf' = mdadm_conf (+) SetToBag(lines)
      BY <1>3 DEF lines
    <3>3. IsABag(mdadm_conf) /\ DOMAIN mdadm_conf \subseteq [number : Nat, by_name : BOOLEAN]
      OBVIOUS
    <3> QED BY ONLY <3>1, <3>2, <3>3, ScanTypes
  <2> QED BY <1>1, <1>3, <2>1, <2>2, <2>3 DEF crypt, lvm, zfs
<1>4. ASSUME raid_remove_array, NEW a \in arrays,
             arrays' = arrays \ {a},
             member' = [d \in Disks |-> IF member[d] = a THEN None ELSE member[d]],
             named' = named \ {a},
             mdadm_conf' = [line \in {l \in DOMAIN mdadm_conf : ~Deleted(a, l)} |-> mdadm_conf[line]]
      PROVE  DiskTypeOK'
  <2>1. arrays' \subseteq Nat /\ IsFiniteSet(arrays')
    BY <1>4, FS_RemoveElement
  <2>2. \A d \in Disks : member'[d] \in arrays' \/ member'[d] = None
    BY <1>4
  <2>3. IsABag(mdadm_conf') /\ DOMAIN mdadm_conf' \subseteq [number : Nat, by_name : BOOLEAN]
    <3> DEFINE kept == {l \in DOMAIN mdadm_conf : ~Deleted(a, l)}
    <3>1. kept \in SUBSET DOMAIN mdadm_conf
      OBVIOUS
    <3>2. mdadm_conf' = [line \in kept |-> mdadm_conf[line]]
      BY <1>4
    <3>3. IsABag(mdadm_conf) /\ DOMAIN mdadm_conf \subseteq [number : Nat, by_name : BOOLEAN]
      OBVIOUS
    <3> HIDE DEF kept
    <3> QED BY ONLY <3>1, <3>2, <3>3, DeletedTypes
  <2>4. RAID' = RAID /\ named' \subseteq arrays'
    BY <1>4 DEF raid_remove_array, disk_config
  <2> QED BY <1>1, <2>1, <2>2, <2>3, <2>4 DEF crypt, lvm, zfs
<1>5. CASE raid_create_array
  BY <1>2, <1>3, <1>5, Zenon DEF raid_create_array
<1>6. CASE raid_remove_array
  <2>1. RAID' = RAID
    BY <1>6 DEF raid_remove_array, disk_config
  <2> QED BY <1>2, <1>4, <1>6, <2>1, Zenon DEF raid_remove_array
<1>7. CASE raid_list_arrays
  BY <1>2, <1>7 DEF raid_list_arrays, disk_config
<1> QED BY <1>5, <1>6, <1>7 DEF raid_menu

\* So do those of the LVM menu: what is active is a group.
LEMMA LvmTypes == ASSUME DiskTypeOK, lvm_menu \/ lvm_uncalled PROVE DiskTypeOK'
<1> USE DEF DiskTypeOK, Visit
<1>0. visits + 1 \in 0..MaxVisits \/ ~Visit
  BY DiskAssumption
<1>1. /\ visits' \in 0..MaxVisits
      /\ UNCHANGED <<disk_config, crypt, raid, zfs>>
  BY <1>0 DEF lvm_menu, lvm_uncalled
<1>2. groups' \subseteq groups /\ active' \subseteq groups'
  <2>1. CASE lvm_menu
    <3>1. groups' \in {groups} \cup lvm_del_vg
      BY <2>1 DEF lvm_menu
    <3>2. \A x \in lvm_del_vg : x \subseteq groups
      BY DEF lvm_del_vg
    <3>3. active' \subseteq groups'
      BY <2>1 DEF lvm_menu
    <3> QED BY <3>1, <3>2, <3>3
  <2>2. CASE lvm_uncalled
    <3>1. CASE utils_lvm_del_all
      BY <3>1 DEF utils_lvm_del_all, ListedGroups
    <3>2. CASE tui_lvm_del_all
      BY <3>2 DEF tui_lvm_del_all, lvm
    <3> QED BY <2>2, <3>1, <3>2 DEF lvm_uncalled
  <2> QED BY <2>1, <2>2
<1> QED BY <1>1, <1>2 DEF disk_config, crypt, raid, zfs

\* And those of the ZFS menu and of the dialogues that nothing opens.
LEMMA ZfsTypes == ASSUME DiskTypeOK, zfs_menu \/ zfs_uncalled PROVE DiskTypeOK'
<1> USE DEF DiskTypeOK, Visit
<1>0. visits + 1 \in 0..MaxVisits \/ ~Visit
  BY DiskAssumption
<1>1. visits' \in 0..MaxVisits
  BY <1>0 DEF zfs_menu, zfs_uncalled
<1>2. ASSUME NEW pool, NEW device PROVE ~zpool_create_works(pool, device)
  BY DEF zpool_create_works, zpool_create_words, OptionsEndInSpace
<1>3. CASE UNCHANGED <<disk_config, crypt, raid, lvm, zfs>>
  BY <1>1, <1>3 DEF disk_config, crypt, raid, lvm, zfs
<1>4. CASE zfs_create_zpool
  <2>1. groups' = groups /\ active' \subseteq groups
    BY <1>4 DEF zfs_create_zpool, tui_lvm_detect, lvm_detect, ListedGroups
  <2>2. PARTITION' \in Partitions \cup {None} /\ UNCHANGED <<LUKS_ROOT_NAME, PASSWD, RAID, crypt, raid, datasets>>
    BY <1>4 DEF zfs_create_zpool, Offered
  <2>3. UNCHANGED <<ZFS, ZFS_ZPOOL_NAMES, pools>> /\ ZFS_ZPOOL_NAME' \in Names \cup {None}
    BY <1>2, <1>4 DEF zfs_create_zpool, utils_zfs_create_zpool
  <2> QED BY <1>1, <2>1, <2>2, <2>3 DEF crypt, raid
<1>5. CASE zfs_uncalled
  <2>1. UNCHANGED <<PARTITION, LUKS_ROOT_NAME, PASSWD, RAID, ZFS_ZPOOL_NAME, crypt, raid, lvm>>
    BY <1>5 DEF zfs_uncalled
  <2>2. /\ ZFS' \in {0, 1} /\ ZFS_ZPOOL_NAMES' = ZFS_ZPOOL_NAMES /\ pools' = pools
        /\ \A d \in datasets' : d[1] \in pools
    <3>1. CASE zfs_auto
      <4>1. PICK ok \in BOOLEAN :
              /\ zfs_create_with_config(PARTITION,
                     ZfsSetupConfig(ZFS_ZPOOL_NAME, default_zfs_datasets), ok)
              /\ ZFS' = IF ok THEN 1 ELSE ZFS
              /\ ZFS_ZPOOL_NAMES' = IF ok THEN Append(ZFS_ZPOOL_NAMES, ZFS_ZPOOL_NAME)
                                    ELSE ZFS_ZPOOL_NAMES
        BY <3>1 DEF zfs_auto, zfs_auto_pres
      <4>2. ~ok /\ pools' = pools /\ datasets' = datasets
        BY <1>2, <4>1 DEF zfs_create_with_config
      <4> QED BY <4>1, <4>2
    <3>2. CASE zfs_import_pool \/ zfs_set_property
      BY <3>2 DEF zfs_import_pool, zfs_set_property, zfs
    <3>3. CASE zfs_destroy_dataset
      <4>1. datasets' \subseteq datasets
        BY <3>3 DEF zfs_destroy_dataset, zfs_destroy
      <4> QED BY <3>3, <4>1 DEF zfs_destroy_dataset
    <3>4. ASSUME NEW zmount \in {"", "legacy", "zvol"}, zfs_new_ds(zmount)
          PROVE  /\ ZFS' \in {0, 1} /\ ZFS_ZPOOL_NAMES' = ZFS_ZPOOL_NAMES /\ pools' = pools
                 /\ \A d \in datasets' : d[1] \in pools
      <4>1. \A z : \A x \in zfs_create_dataset(z) : \A d \in x : d[1] \in pools
        BY DEF zfs_create_dataset, CanCreate
      <4>2. datasets' = datasets \/ \E z : datasets' \in zfs_create_dataset(z)
        BY <3>4 DEF zfs_new_ds, zfs_create_zvol
      <4> QED BY <3>4, <4>1, <4>2 DEF zfs_new_ds
    <3> QED BY <1>5, <3>1, <3>2, <3>3, <3>4 DEF zfs_uncalled
  <2> QED BY <1>1, <2>1, <2>2 DEF crypt, raid, lvm
<1> QED BY <1>3, <1>4, <1>5 DEF zfs_menu

\* Config entries, headers, arrays, groups and pools keep their types, whichever commands
\* fail and whatever a cancelled dialogue leaves behind.
THEOREM DisksTyped == DiskSpec => []DiskTypeOK
<1>1. ASSUME DiskInit PROVE DiskTypeOK
  <2>1. arrays \subseteq Nat /\ IsFiniteSet(arrays) /\ named \subseteq arrays
    BY <1>1, DiskAssumption DEF DiskInit
  <2>2. IsABag(EmptyBag) /\ DOMAIN EmptyBag = {}
    BY DEF EmptyBag, SetToBag, IsABag
  <2> QED BY <1>1, <2>1, <2>2, DiskAssumption DEF DiskInit, DiskTypeOK
<1>2. ASSUME DiskTypeOK, [DiskNext]_disk_vars PROVE DiskTypeOK'
  <2>1. CASE UNCHANGED disk_vars
    BY <1>2, <2>1 DEF disk_vars, disk_config, crypt, raid, lvm, zfs, DiskTypeOK
  <2> QED BY <1>2, <2>1, LuksTypes, RaidTypes, LvmTypes, ZfsTypes DEF DiskNext
<1> QED BY <1>1, <1>2, PTL DEF DiskSpec
===============================================================================
