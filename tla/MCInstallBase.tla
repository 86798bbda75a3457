---------------------------- MODULE MCInstallBase ----------------------------
(* InstallBase for TLC: a first installation, one after other choices, and a *)
(* third that meets what both left behind.                                   *)
EXTENDS InstallBase

\* Lists of at most three words, two of them told apart.
WordLists == UNION {[1..n -> {"a", "b"}] : n \in 0..3}

\* A list of words survives being written as a text and read again, by either of the two
\* ways to write it, and a reversed reading is the list from its end.
ASSUME TextsKeepLists ==
    \A words \in WordLists :
        /\ make_multiline(make_multiline_text(words, FALSE, "\n"), FALSE, "\n") = words
        /\ make_multiline(join(words, "\n"), FALSE, "\n") = words
        /\ make_multiline(make_multiline_text(words, FALSE, "\n"), TRUE, "\n") = Reverse(words)
        /\ make_multiline(make_multiline_text(words, TRUE, "\n"), FALSE, "\n") = Reverse(words)

\* The two operations of Initcpio that no code of the installer calls: append_hook is
\* append_hooks of one hook and a second one changes nothing; a module that is appended
\* and removed again leaves the file as it was, whatever modules it had before.
ASSUME UncalledOperations ==
    \A words \in WordLists, word \in {"a", "b", "c"} :
        LET hooks == [PackageConf EXCEPT ![5] = Line("HOOKS", words)]
            modules == [PackageConf EXCEPT ![2] = Line("MODULES", words)]
        IN  /\ append_hook(hooks, word) = append_hooks(hooks, <<word>>)
            /\ append_hook(append_hook(hooks, word), word) = append_hook(hooks, word)
            /\ Hooks(append_hook(hooks, word)) \in {words, Append(words, word)}
            /\ word \notin ToSet(words)
                   => remove_module(append_module(modules, word), word) = modules
==============================================================================
