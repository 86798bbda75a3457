---------------------------- MODULE FollowProcess ----------------------------
(****************************************************************************)
(* One call of follow_process_log_widget(): the thread t that runs          *)
(* utils::exec_follow(), the thread refresh_ui and the UI thread that runs  *)
(* the FTXUI loop and the "Back" button, over the subprocess.h calls and    *)
(* the command itself.  running and proc_status are atomics; child (a copy  *)
(* of the subprocess_s of exec_follow) is shared without synchronisation,   *)
(* so its two halves may become visible in either order.  A FILE that is    *)
(* used or closed after fclose() is undefined behaviour: the C library      *)
(* either carries on or aborts the installer.                               *)
(****************************************************************************)
EXTENDS Naturals

CONSTANTS
    BufSize,    \* chunks that fit in the static log buffer (1 MiB in the code)
    PipeCap,    \* chunks that fit in the kernel's pipe
    MaxOut      \* bound: chunks the command prints before it exits

ASSUME ConstantsAssumption ==
    /\ BufSize \in Nat \ {0}
    /\ PipeCap \in Nat \ {0}
    /\ MaxOut \in Nat

VARIABLES
    running, proc_status,           \* the atomics
    child,                          \* subprocess_s shared with handle_exit
    process,                        \* subprocess_s local to exec_follow
    index,                          \* chunks read into the log buffer
    t, refresh_ui, ui,              \* where each thread is
    file,                           \* the two FILEs behind the pointers
    dirty_cmd_run,                  \* environment variable DIRTY_CMD_RUN
    crashed,                        \* the installer process is gone
    cmd, orphan, togo, code, pipe   \* the command and its output pipe

threads == <<t, refresh_ui, ui>>
command == <<cmd, orphan, togo, code>>
vars == <<running, proc_status, child, process, index, t, refresh_ui, ui,
          file, dirty_cmd_run, crashed, cmd, orphan, togo, code, pipe>>

\* A subprocess_s: the pid (0: none) and whether its FILE pointers are set.
Subprocess == [child : {0, 1}, in : BOOLEAN, out : BOOLEAN]
NoProcess == [child |-> 0, in |-> FALSE, out |-> FALSE]

TPc == {"while", "create", "publish", "publish_rest", "read", "reading",
        "join", "wait", "destroy", "republish", "republish_rest", "stop", "done"}
UiPc == {"loop", "handle_exit", "terminate", "destroy_in", "destroy_out",
         "if_running", "exit_join_refresh", "exit_join_t", "exit_loop",
         "after_loop", "join_refresh", "join_t", "returned"}

FlagsOK ==
    /\ running \in BOOLEAN /\ proc_status \in BOOLEAN
    /\ dirty_cmd_run \in BOOLEAN /\ crashed \in BOOLEAN /\ orphan \in BOOLEAN

TypeOK ==
    /\ FlagsOK
    /\ child \in Subprocess /\ process \in Subprocess
    /\ index \in Nat
    /\ t \in TPc /\ refresh_ui \in {"while", "done"} /\ ui \in UiPc
    /\ file \in [{"in", "out"} -> {"none", "open", "freed"}]
    /\ cmd \in {"none", "run", "zombie", "reaped"}
    /\ togo \in Nat
    /\ code \in {"none", "ok", "fail", "killed"} /\ pipe \in Nat

Init ==
    /\ running = TRUE /\ proc_status = TRUE
    /\ child = NoProcess /\ process = NoProcess
    /\ index = 0
    /\ t = "while" /\ refresh_ui = "while" /\ ui = "loop"
    /\ file = [f \in {"in", "out"} |-> "none"]
    /\ dirty_cmd_run \in BOOLEAN /\ crashed = FALSE
    /\ cmd = "none" /\ orphan = FALSE /\ togo = 0 /\ code = "none" /\ pipe = 0

\* fclose(): on a FILE already freed the C library carries on or aborts.
fclose(f) ==
    /\ file' = [file EXCEPT ![f] = "freed"]
    /\ crashed' \in IF file[f] = "freed" THEN BOOLEAN ELSE {FALSE}

KeepFiles == UNCHANGED <<file, crashed>>

------------------------------------------------------------------------------
(* The command: /bin/sh -c "..." with its output in the pipe.              *)

\* Someone still holds the write end of the pipe.
Writers == cmd = "run" \/ orphan

CommandWrites ==
    /\ Writers /\ togo > 0 /\ pipe < PipeCap
    /\ file["out"] = "open" \/ t = "reading"
    /\ pipe' = pipe + 1 /\ togo' = togo - 1
    /\ UNCHANGED <<running, proc_status, child, process, index, threads, file,
                   dirty_cmd_run, crashed, cmd, orphan, code>>

CommandExits ==
    /\ cmd = "run" /\ togo = 0
    /\ cmd' = "zombie" /\ code' \in {"ok", "fail"}
    /\ UNCHANGED <<running, proc_status, child, process, index, threads, file,
                   dirty_cmd_run, crashed, orphan, togo, pipe>>

\* What the killed shell had started ends on its own, or on SIGPIPE once the
\* read end of the pipe is gone.
OrphanEnds ==
    /\ orphan
    /\ togo = 0 \/ (file["out"] = "freed" /\ t # "reading")
    /\ orphan' = FALSE /\ togo' = 0
    /\ UNCHANGED <<running, proc_status, child, process, index, threads, file,
                   dirty_cmd_run, crashed, cmd, code, pipe>>

Command == CommandWrites \/ CommandExits \/ OrphanEnds

------------------------------------------------------------------------------
(* Thread t: execute_thread, exec_follow.                                   *)

TStep(from, to) ==
    /\ ~crashed /\ t = from /\ t' = to
    /\ UNCHANGED <<refresh_ui, ui, dirty_cmd_run>>

\* Mutant: the loop ignores running.
execute_thread_forever ==
    /\ TStep("while", "create")
    /\ UNCHANGED <<running, proc_status, child, process, index, command, pipe>>
    /\ KeepFiles

\* while (running) { bool local_running{running}; ...
execute_thread ==
    /\ TStep("while", IF running THEN "create" ELSE "done")
    /\ UNCHANGED <<running, proc_status, child, process, index, command, pipe>>
    /\ KeepFiles

\* DIRTY_CMD_RUN=1: exec_follow returns true without starting anything.
exec_follow_dirty ==
    /\ dirty_cmd_run
    /\ TStep("create", "stop")
    /\ UNCHANGED <<running, proc_status, child, process, index, command, pipe>>
    /\ KeepFiles

\* pipe() or fork() failed: exec_follow returns false.
subprocess_create_fails ==
    /\ ~dirty_cmd_run
    /\ TStep("create", "stop")
    /\ proc_status' = FALSE
    /\ UNCHANGED <<running, child, process, index, command, pipe>>
    /\ KeepFiles

subprocess_create_ex ==
    /\ ~dirty_cmd_run
    /\ TStep("create", "publish")
    /\ process' = [child |-> 1, in |-> TRUE, out |-> TRUE]
    /\ file' = [f \in {"in", "out"} |-> "open"]
    /\ cmd' = "run" /\ togo' \in 0..MaxOut
    /\ index' = 0
    /\ UNCHANGED <<running, proc_status, child, orphan, code, pipe, crashed>>

\* child = process: the pid and the pointers, in either order.
PublishHalf(from, to) ==
    /\ TStep(from, to)
    /\ \/ child' = [child EXCEPT !.child = process.child]
       \/ child' = [process EXCEPT !.child = child.child]
    /\ UNCHANGED <<running, proc_status, process, index, command, pipe>>
    /\ KeepFiles

PublishRest(from, to) ==
    /\ TStep(from, to)
    /\ child' = process
    /\ UNCHANGED <<running, proc_status, process, index, command, pipe>>
    /\ KeepFiles

publish_child == PublishHalf("publish", "publish_rest")
publish_child_rest == PublishRest("publish_rest", "read")

\* subprocess_read_stdout: fileno() of the FILE ...
subprocess_read_stdout ==
    /\ \/ file["out"] = "open" /\ TStep("read", "reading") /\ crashed' = FALSE
       \/ file["out"] = "freed" /\ TStep("read", "join") /\ crashed' \in BOOLEAN
    /\ UNCHANGED <<running, proc_status, child, process, index, file, command, pipe>>

\* ... then read() of at most data.size() - 1 - index bytes: some bytes, or 0
\* at end of file, or 0 because the buffer is full.
read_some ==
    /\ TStep("reading", "read")
    /\ \E n \in 1..pipe :
          /\ index + n <= BufSize
          /\ index' = index + n
          /\ pipe' = pipe - n
    /\ UNCHANGED <<running, proc_status, child, process, command>>
    /\ KeepFiles

\* Mutant: the loop ends only when the buffer is full.
read_zero_when_full ==
    /\ TStep("reading", "join")
    /\ index = BufSize
    /\ UNCHANGED <<running, proc_status, child, process, index, command, pipe>>
    /\ KeepFiles

\* Mutant: an empty pipe is taken for the end of the output.
read_zero_when_empty ==
    /\ TStep("reading", "join")
    /\ index = BufSize \/ pipe = 0
    /\ UNCHANGED <<running, proc_status, child, process, index, command, pipe>>
    /\ KeepFiles

read_zero ==
    /\ TStep("reading", "join")
    /\ index = BufSize \/ (pipe = 0 /\ ~Writers)
    /\ UNCHANGED <<running, proc_status, child, process, index, command, pipe>>
    /\ KeepFiles

\* subprocess_join: close stdin, then waitpid().
subprocess_join ==
    /\ TStep("join", "wait")
    /\ fclose("in")
    /\ process' = [process EXCEPT !.in = FALSE]
    /\ UNCHANGED <<running, proc_status, child, index, command, pipe>>

waitpid ==
    /\ TStep("wait", "destroy")
    /\ cmd = "zombie" /\ cmd' = "reaped"
    /\ process' = [process EXCEPT !.child = 0]
    /\ UNCHANGED <<running, proc_status, child, index, orphan, togo, code, pipe>>
    /\ KeepFiles

subprocess_destroy ==
    /\ TStep("destroy", "republish")
    /\ fclose("out")
    /\ process' = [process EXCEPT !.out = FALSE]
    /\ UNCHANGED <<running, proc_status, child, index, command, pipe>>

republish_child == PublishHalf("republish", "republish_rest")
republish_child_rest == PublishRest("republish_rest", "stop")

\* Mutant: running is left alone when exec_follow returns.
stop_running_not ==
    /\ TStep("stop", "while")
    /\ UNCHANGED <<running, proc_status, child, process, index, command, pipe>>
    /\ KeepFiles

\* running = false; sleep; back to while (running).
stop_running ==
    /\ TStep("stop", "while")
    /\ running' = FALSE
    /\ UNCHANGED <<proc_status, child, process, index, command, pipe>>
    /\ KeepFiles

T == \/ execute_thread \/ exec_follow_dirty \/ subprocess_create_fails
     \/ subprocess_create_ex \/ publish_child \/ publish_child_rest
     \/ subprocess_read_stdout \/ read_some \/ read_zero \/ subprocess_join
     \/ waitpid \/ subprocess_destroy \/ republish_child
     \/ republish_child_rest \/ stop_running

------------------------------------------------------------------------------
(* Thread refresh_ui: posts events until running is false.                  *)

refresh_ui_ends ==
    /\ ~crashed /\ refresh_ui = "while" /\ ~running
    /\ refresh_ui' = "done"
    /\ UNCHANGED <<running, proc_status, child, process, index, t, ui, file,
                   dirty_cmd_run, crashed, command, pipe>>

------------------------------------------------------------------------------
(* The UI thread: screen.Loop, handle_exit, and the end of the function.    *)

UiStep(from, to) ==
    /\ ~crashed /\ ui = from /\ ui' = to
    /\ UNCHANGED <<proc_status, process, index, t, refresh_ui, dirty_cmd_run, pipe>>

\* The user presses "Back".
press_back ==
    /\ UiStep("loop", "handle_exit")
    /\ UNCHANGED <<running, child, command>> /\ KeepFiles

\* if (child.child != 0)
handle_exit ==
    /\ UiStep("handle_exit", IF child.child # 0 THEN "terminate" ELSE "if_running")
    /\ UNCHANGED <<running, child, command>> /\ KeepFiles

\* kill(child.child, 9) reads the pid again: 0 by now means the installer's
\* own process group.  Killing the shell may leave what it had started.
subprocess_terminate ==
    /\ UiStep("terminate", "destroy_in")
    /\ \/ /\ child.child = 0
          /\ crashed' = TRUE
          /\ UNCHANGED command
       \/ /\ child.child # 0 /\ cmd = "run"
          /\ cmd' = "zombie" /\ code' = "killed"
          /\ orphan' \in BOOLEAN
          /\ togo' = IF orphan' THEN togo ELSE 0
          /\ UNCHANGED crashed
       \/ /\ child.child # 0 /\ cmd # "run"
          /\ UNCHANGED <<command, crashed>>
    /\ UNCHANGED <<running, child, file>>

handle_exit_destroy_in ==
    /\ UiStep("destroy_in", "destroy_out")
    /\ IF child.in THEN fclose("in") ELSE KeepFiles
    /\ child' = [child EXCEPT !.in = FALSE]
    /\ UNCHANGED <<running, command>>

handle_exit_destroy_out ==
    /\ UiStep("destroy_out", "if_running")
    /\ IF child.out THEN fclose("out") ELSE KeepFiles
    /\ child' = [child EXCEPT !.out = FALSE]
    /\ UNCHANGED <<running, command>>

\* if (running) { running = false; refresh_ui.join(); t.join(); }
handle_exit_running ==
    /\ UiStep("if_running", IF running THEN "exit_join_refresh" ELSE "exit_loop")
    /\ running' = FALSE
    /\ UNCHANGED <<child, command>> /\ KeepFiles

handle_exit_join_refresh ==
    /\ refresh_ui = "done"
    /\ UiStep("exit_join_refresh", "exit_join_t")
    /\ UNCHANGED <<running, child, command>> /\ KeepFiles

handle_exit_join_t ==
    /\ t = "done"
    /\ UiStep("exit_join_t", "exit_loop")
    /\ UNCHANGED <<running, child, command>> /\ KeepFiles

exit_loop ==
    /\ UiStep("exit_loop", "after_loop")
    /\ UNCHANGED <<running, child, command>> /\ KeepFiles

after_loop ==
    /\ UiStep("after_loop", "join_refresh")
    /\ running' = FALSE
    /\ UNCHANGED <<child, command>> /\ KeepFiles

join_refresh_ui ==
    /\ refresh_ui = "done"
    /\ UiStep("join_refresh", "join_t")
    /\ UNCHANGED <<running, child, command>> /\ KeepFiles

\* Mutant: the call returns without joining t.
join_t_not ==
    /\ UiStep("join_t", "returned")
    /\ UNCHANGED <<running, child, command>> /\ KeepFiles

join_t ==
    /\ t = "done"
    /\ UiStep("join_t", "returned")
    /\ UNCHANGED <<running, child, command>> /\ KeepFiles

\* Everything the UI thread does by itself; press_back is the user's.
Ui == \/ handle_exit \/ subprocess_terminate \/ handle_exit_destroy_in
      \/ handle_exit_destroy_out \/ handle_exit_running
      \/ handle_exit_join_refresh \/ handle_exit_join_t \/ exit_loop
      \/ after_loop \/ join_refresh_ui \/ join_t

\* The call is over, or the user just leaves the log of an ended command on
\* the screen.
Idle ==
    /\ crashed \/ ui = "returned"
    /\ UNCHANGED vars

Next == Command \/ T \/ refresh_ui_ends \/ press_back \/ Ui \/ Idle

Spec == Init /\ [][Next]_vars

\* The scheduler runs every thread and the command; nobody has to press Back.
FairSpec == Spec /\ WF_vars(Command) /\ WF_vars(T) /\ WF_vars(refresh_ui_ends)
                 /\ WF_vars(Ui)

------------------------------------------------------------------------------
(* What should hold.                                                        *)

\* data[data.size() - 1] is never read into: the log buffer always ends in the
\* NUL that "process_log = data.data()" needs, however much is printed.
BufferBound == index <= BufSize

\* When follow_process_log_widget returns, both threads that hold references
\* to its locals have ended, the shell has been waited for and both pipe
\* streams are closed, whatever moment "Back" was pressed at.
NothingLeft ==
    ui = "returned" =>
        /\ t = "done" /\ refresh_ui = "done"
        /\ cmd \in {"none", "reaped"}
        /\ file["in"] # "open" /\ file["out"] # "open"

\* If nobody pressed "Back", the log of an ended command holds all it printed,
\* up to a full buffer: exec_follow reads until end of file before it joins the
\* process.
LogComplete ==
    (ui = "loop" /\ cmd = "reaped" /\ index < BufSize) => (pipe = 0 /\ togo = 0)

\* The widget implements CommandOnce: the loop in execute_thread never starts
\* the command a second time and never after the call has returned.
CO == INSTANCE CommandOnce WITH
        phase <- IF cmd = "none" THEN "idle"
                 ELSE IF cmd = "reaped" THEN "over" ELSE "active",
        returned <- ui = "returned"
ImplementsCommandOnce == CO!Spec

\* The output of the command, read or still to come, fits the log buffer.
Fits == index + pipe + togo <= BufSize

\* "Back" always gets the user out of the widget when the command's output fits
\* the log buffer: handle_exit's joins end.
BackReturns == []Fits => ((ui = "handle_exit") ~> (ui = "returned" \/ crashed))

\* A command whose output fits the log buffer ends by itself and lets t end: the
\* log is then complete and the screen only waits for "Back".
CommandEnds ==
    []Fits => ((cmd = "run" /\ ui = "loop") ~> (t = "done" \/ ui # "loop"))

------------------------------------------------------------------------------
(* What a comment says and the code does not do.                            *)

\* subprocess.h on subprocess_terminate: it kills a process that has not
\* finished; never the installer's own group or a pid already waited for.
TerminatesItsOwn == ui = "terminate" => (child.child # 0 /\ cmd # "reaped")
==============================================================================
