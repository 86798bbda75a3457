----------------------------- MODULE BlockDevices -----------------------------
(****************************************************************************)
(* gucc's list of block devices, read from lsblk's JSON, and the two        *)
(* searches in it: pure functions of a library that no menu calls yet.  A   *)
(* JSON object is a function from its members to [kind, value], the output  *)
(* of lsblk is [empty, valid, blockdevices].  An optional is the set of its *)
(* value, or the empty set.                                                 *)
(****************************************************************************)
EXTENDS Naturals, Sequences, SequencesExt

\* The struct as its constructor leaves it.
BlockDevice ==
    [name |-> "", type |-> "", fstype |-> "", uuid |-> "", model |-> {}, mountpoint |-> {},
     pkname |-> {}, label |-> {}, partuuid |-> {}, size |-> {}]

Optionals == DOMAIN BlockDevice \ {"name", "type", "fstype", "uuid"}

\* A member of another kind (lsblk prints null for what it does not know) is left out.
get_blockdevice_from_json(doc) ==
    [m \in DOMAIN BlockDevice |->
        IF m \notin DOMAIN doc \/ doc[m].kind # (IF m = "size" THEN "number" ELSE "string")
        THEN BlockDevice[m]
        ELSE IF m \in Optionals THEN {doc[m].value} ELSE doc[m].value]

parse_lsblk_json(output) ==
    IF ~output.valid THEN <<>>
    ELSE [i \in DOMAIN output.blockdevices |-> get_blockdevice_from_json(output.blockdevices[i])]

\* std::ranges::find_if.
find_device_by_name(devices, device_name) ==
    LET i == SelectInSeq(devices, LAMBDA dev : dev.name = device_name)
    IN  IF i = 0 THEN {} ELSE {devices[i]}

find_device_by_pkname(devices, pkname) ==
    LET i == SelectInSeq(devices, LAMBDA dev : dev.pkname = {pkname})
    IN  IF i = 0 THEN {} ELSE {devices[i]}

list_block_devices(lsblk_output) ==
    IF lsblk_output.empty THEN {} ELSE {parse_lsblk_json(lsblk_output)}

------------------------------------------------------------------------------
(* What the two searches should find, said of lsblk's output itself.        *)

Says(doc, member, text) ==
    member \in DOMAIN doc /\ doc[member].kind = "string" /\ doc[member].value = text

\* The device found is the first that lsblk has under the name (or the parent), and none
\* is found exactly if lsblk has none: a null is no name, not even the empty one.
FindsFirst(docs, member, text, found) ==
    LET saying == {i \in DOMAIN docs : Says(docs[i], member, text)} IN
    IF saying = {} THEN found = {}
    ELSE \E i \in saying : /\ \A j \in saying : i <= j
                           /\ found = {get_blockdevice_from_json(docs[i])}

LooksUp(docs, text) ==
    \A devices \in list_block_devices([empty |-> FALSE, valid |-> TRUE, blockdevices |-> docs]) :
        /\ FindsFirst(docs, "pkname", text, find_device_by_pkname(devices, text))
        /\ text # "" => FindsFirst(docs, "name", text, find_device_by_name(devices, text))
==============================================================================
