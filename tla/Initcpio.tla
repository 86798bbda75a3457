------------------------------ MODULE Initcpio -------------------------------
(****************************************************************************)
(* gucc::detail::Initcpio over /mnt/etc/mkinitcpio.conf.  Every operation   *)
(* parses the file, changes one list and writes all three lists back; with  *)
(* no file, an empty one, or nothing to change, it changes nothing.  The    *)
(* file is a sequence of lines: the list a line starts with the name of     *)
(* ("other" for comments and the rest) and the text between its brackets.   *)
(****************************************************************************)
EXTENDS Text

Lists == {"MODULES", "FILES", "HOOKS"}

\* read_whole_file returns nothing for a file that is not there, or is empty.
NoConf == <<>>

Line(list, words) == [list |-> list, text |-> join(words, " ")]

\* What the mkinitcpio package installs: between comments, MODULES, BINARIES, FILES
\* and HOOKS.
PackageHooks ==
    <<"base", "udev", "autodetect", "modconf", "block", "filesystems", "keyboard", "fsck">>
PackageConf ==
    <<Line("other", <<>>), Line("MODULES", <<>>), Line("other", <<>>), Line("FILES", <<>>),
      Line("HOOKS", PackageHooks), Line("other", <<>>)>>

\* The words between the brackets; two blanks in a row have an empty word between them.
parse_line(text) ==
    LET pieces == views_split(text, " ") IN [i \in DOMAIN pieces |-> Word(pieces[i])]

\* A later line of a list replaces an earlier one.
parse_file(file) ==
    [list \in Lists |->
        LET last == SelectLastInSeq(file, LAMBDA line : line.list = list)
        IN  IF last = 0 THEN <<>> ELSE parse_line(file[last].text)]

Modules(file) == parse_file(file)["MODULES"]
Hooks(file) == parse_file(file)["HOOKS"]

modify_initcpio_line(line, lists) ==
    IF line.list \in Lists THEN Line(line.list, lists[line.list]) ELSE line

\* modify_initcpio_fields: every line of a list is replaced, the others are kept.
write(file, lists) == [i \in DOMAIN file |-> modify_initcpio_line(file[i], lists)]

\* Parse the file, put new in the place of one list, write if that is a change.
Replace(file, list, new) ==
    LET lists == parse_file(file)
    IN  IF file = NoConf \/ lists[list] = new THEN file ELSE write(file, [lists EXCEPT ![list] = new])

\* The elements of new that list lacks, in order.
Missing(list, new) ==
    LET upto[n \in 0..Len(new)] ==     \* of the first n elements of new
            IF n = 0 THEN <<>>
            ELSE IF Contains(list, new[n]) THEN upto[n - 1] ELSE Append(upto[n - 1], new[n])
    IN  upto[Len(new)]

append_module(file, module) ==
    Replace(file, "MODULES", Modules(file) \o Missing(Modules(file), <<module>>))

append_file(file, name) ==
    LET files == parse_file(file)["FILES"]
    IN  Replace(file, "FILES", files \o Missing(files, <<name>>))

append_hook(file, hook) == Replace(file, "HOOKS", Hooks(file) \o Missing(Hooks(file), <<hook>>))

append_hooks(file, hooks) ==
    Replace(file, "HOOKS", Hooks(file) \o Missing(Hooks(file), hooks))

\* The first place of needle, or the end of the list.
FindIn(list, needle) ==
    IF Contains(list, needle) THEN SelectInSeq(list, LAMBDA e : e = needle)
    ELSE Len(list) + 1

\* list with new in front of its at-th element.
InsertAll(list, at, new) == SubSeq(list, 1, at - 1) \o new \o SubSeq(list, at, Len(list))

\* Mutant: what is missing goes behind the needle.
insert_hook_behind(file, needle, hooks) ==
    Replace(file, "HOOKS", InsertAll(Hooks(file), FindIn(Hooks(file), needle) + 1,
                                     Missing(Hooks(file), hooks)))

\* insert_hook: what is missing goes before the needle.
insert_hook(file, needle, hooks) ==
    Replace(file, "HOOKS", InsertAll(Hooks(file), FindIn(Hooks(file), needle),
                                     Missing(Hooks(file), hooks)))

remove_module(file, module) == Replace(file, "MODULES", RemoveFirst(Modules(file), module))
remove_hook(file, hook) == Replace(file, "HOOKS", RemoveFirst(Hooks(file), hook))
==============================================================================
