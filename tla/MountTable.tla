----------------------------- MODULE MountTable ------------------------------
(****************************************************************************)
(* The kernel's mount table below MOUNTPOINT ("/mnt") and the loop of       *)
(* gucc::umount::umount_partitions() over it.  A path is the sequence of    *)
(* its components below MOUNTPOINT; a component is its rank in alphabetical *)
(* order, so that <<>> is /mnt, <<1>> is /mnt/boot, <<1, 2>> is             *)
(* /mnt/boot/efi, <<3>> is /mnt/home and <<4>> is /mnt/mnt.  The table is a *)
(* sequence of entries, oldest first.  A umount is refused only because of  *)
(* what is mounted below; nobody else holds the file systems.               *)
(****************************************************************************)
EXTENDS Naturals, Sequences, SequencesExt

Mountpoint == <<>>
Boot == <<1>>
BootEfi == <<1, 2>>
Home == <<3>>
MntMnt == <<4>>

\* A path sorts before everything below it.
Before(p, q) ==
    \E n \in DOMAIN q :
        /\ \A j \in 1..(n - 1) : j \in DOMAIN p /\ p[j] = q[j]
        /\ n \in DOMAIN p => p[n] < q[n]

\* umount takes the newest entry at a path, and refuses while something newer
\* is mounted below it.
Newest(table, path) == SelectLastInSeq(table, LAMBDA e : e.path = path)
Busy(table, path) ==
    \E j \in DOMAIN table :
        j > Newest(table, path) /\ IsStrictPrefix(path, table[j].path)

\* What is kept of a line of /etc/mtab.
MTabEntry(device, mountpoint) == [device |-> device, mountpoint |-> mountpoint]

\* A line is the sequence of its fields.  That of the mountpoint has the path below /mnt
\* and says whether it starts with MOUNTPOINT at all.
MTabLine(device, path, below) == <<device, [path |-> path, below |-> below], "fstype", "opts">>

\* The file has the live system's own mounts too, so that it is never empty; the read
\* that meets its end adds an empty line.
read_mtab(table) ==
    <<MTabLine("airootfs", Mountpoint, FALSE)>>
        \o [i \in DOMAIN table |-> MTabLine(table[i].dev, table[i].path, TRUE)] \o << <<>> >>

index_viewable_range(rng, n) == rng[n + 1]
size_viewable_range(rng) == Len(rng)

\* Comments, which the kernel does not write, are left out.
parse_mtab_content(lines) ==
    LET below(line) == /\ line # <<>> /\ size_viewable_range(line) >= 3
                       /\ index_viewable_range(line, 1).below
        entry(line) == MTabEntry(index_viewable_range(line, 0), index_viewable_range(line, 1).path)
        entries[n \in 0..Len(lines)] ==
            IF n = 0 THEN <<>>
            ELSE IF below(lines[n]) THEN Append(entries[n - 1], entry(lines[n])) ELSE entries[n - 1]
    IN  entries[Len(lines)]
parse_mtab(table) == parse_mtab_content(read_mtab(table))

\* std::ranges::sort by mountpoint: any permutation of the entries that is in order.
Sorted(entries, order) ==
    \A i, j \in DOMAIN entries :
        i < j => ~Before(entries[order[j]].mountpoint, entries[order[i]].mountpoint)
Sort(entries) ==
    LET order == CHOOSE order \in Bijection(DOMAIN entries, DOMAIN entries) : Sorted(entries, order)
    IN  [i \in DOMAIN entries |-> entries[order[i]]]

\* Mutant: what umount refuses is passed over.
Unmount_passes_over(acc, e) ==
    IF Busy(acc.table, e.mountpoint) THEN acc
    ELSE [table |-> RemoveAt(acc.table, Newest(acc.table, e.mountpoint)), ok |-> TRUE]

\* if (!umount(entry)) return false;
Unmount(acc, e) ==
    IF ~acc.ok \/ Busy(acc.table, e.mountpoint) THEN [table |-> acc.table, ok |-> FALSE]
    ELSE [table |-> RemoveAt(acc.table, Newest(acc.table, e.mountpoint)), ok |-> TRUE]

\* for (entry : entries), as the outcome after each number of entries.
Loop(table, entries) ==
    LET after[n \in 0..Len(entries)] ==
            IF n = 0 THEN [table |-> table, ok |-> TRUE] ELSE Unmount(after[n - 1], entries[n])
    IN  after

umount_partitions(table) ==
    LET entries == Sort(parse_mtab(table)) IN Loop(table, entries)[Len(entries)]

\* "mount | grep -q /mnt<path>": the text occurs anywhere in a line of mount, so
\* also in that of something mounted below /mnt<path>.
Listed(table, path) ==
    \E e \in ToSet(table) : MntMnt \o path \in SubSeqs(MntMnt \o e.path)

Mounted(table) == {e.dev : e \in ToSet(table)}
==============================================================================
