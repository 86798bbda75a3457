---------------------------- MODULE MCPacmanRepos ----------------------------
(* PacmanRepos for TLC: a CPU and a system that lack nothing, every one that *)
(* lacks one feature or register of it, and one without AVX; enough starts   *)
(* for a failure, a retry and one more.                                      *)
EXTENDS PacmanRepos

Full == [leaf1 |-> Leaf1 \cup {"OSXSAVE"}, leaf7 |-> Leaf7, max_id |-> 7, mask |-> Registers]

MCCpus ==
    {Full, [Full EXCEPT !.max_id = 6], [Full EXCEPT !.leaf1 = {"SSSE3"}, !.leaf7 = {}, !.mask = {"SSE"}]}
        \cup {[Full EXCEPT !.leaf1 = @ \ {f}] : f \in Full.leaf1}
        \cup {[Full EXCEPT !.leaf7 = @ \ {f}] : f \in Full.leaf7}
        \cup {[Full EXCEPT !.mask = @ \ {r}] : r \in Full.mask}
==============================================================================
