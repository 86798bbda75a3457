------------------------- MODULE FollowProcessProofs -------------------------
(* Proofs about FollowProcess for every buffer, pipe and output size.       *)
EXTENDS FollowProcess, TLAPS

\* Where t is and what has become of the command.
CommandInv ==
    /\ t = "create" => cmd = "none"
    /\ t \in {"publish", "publish_rest", "read", "reading", "join", "wait"}
          => cmd \in {"run", "zombie"}
    /\ t \in {"destroy", "republish", "republish_rest"} => cmd = "reaped"
    /\ t \in {"while", "stop", "done"} => cmd \in {"none", "reaped"}

\* execute_thread's loop cannot go round again.
LoopInv ==
    /\ (t = "while" /\ cmd = "reaped") => ~running
    /\ t = "done" => ~running

\* The UI thread returns after both joins.
JoinInv ==
    /\ ui \in {"join_t", "returned"} => refresh_ui = "done"
    /\ ui = "returned" => t = "done"

\* Which streams may still be open.
FileInv ==
    /\ cmd = "none" => /\ child.in = FALSE /\ child.out = FALSE
                       /\ file["in"] = "none" /\ file["out"] = "none"
    /\ cmd # "none" => file["in"] # "none" /\ file["out"] # "none"
    /\ (t = "wait" \/ cmd = "reaped") => file["in"] = "freed"
    /\ (t # "destroy" /\ cmd = "reaped") => file["out"] = "freed"

IInv == TypeOK /\ BufferBound /\ CommandInv /\ LoopInv /\ JoinInv /\ FileInv

\* Until "Back" is pressed nobody but t closes the stream or ends the command, so
\* that t leaves its loop only at the end of the output or with a full buffer.
Drained == index = BufSize \/ (pipe = 0 /\ togo = 0 /\ cmd # "run")

OutputInv ==
    ui = "loop" =>
        /\ ~orphan
        /\ cmd \in {"zombie", "reaped"} => togo = 0
        /\ t \in {"publish", "publish_rest", "read", "reading"} => file["out"] = "open"
        /\ (t \in {"join", "wait"} \/ cmd = "reaped") => Drained

------------------------------------------------------------------------------
\* The initial state of a call satisfies the invariant.
LEMMA InitIInv == Init => IInv
  <1> SUFFICES ASSUME Init PROVE IInv
    OBVIOUS
  <1> USE ConstantsAssumption DEF Init
  <1>1. FlagsOK  BY Zenon DEF FlagsOK
  <1>2. child \in Subprocess /\ process \in Subprocess  BY DEF NoProcess, Subprocess
  <1>3. TypeOK  BY <1>1, <1>2 DEF TypeOK, TPc, UiPc
  <1>4. BufferBound /\ CommandInv /\ JoinInv  BY DEF BufferBound, CommandInv, JoinInv
  <1>5. LoopInv /\ FileInv  BY DEF LoopInv, FileInv, NoProcess
  <1> QED  BY <1>3, <1>4, <1>5 DEF IInv

\* No step makes a flag anything but a Boolean.
LEMMA FlagsStep == ASSUME IInv, Next PROVE FlagsOK'
  <1> USE DEF IInv, TypeOK, FlagsOK, command, threads, KeepFiles
  <1>1. CASE Command  BY <1>1, Zenon DEF Command, CommandWrites, CommandExits, OrphanEnds
  <1>2. CASE execute_thread  BY <1>2, Zenon DEF execute_thread, TStep
  <1>3. CASE exec_follow_dirty  BY <1>3, Zenon DEF exec_follow_dirty, TStep
  <1>4. CASE subprocess_create_fails  BY <1>4, Zenon DEF subprocess_create_fails, TStep
  <1>5. CASE subprocess_create_ex  BY <1>5, Zenon DEF subprocess_create_ex, NoProcess, TStep
  <1>6. CASE publish_child  BY <1>6, Zenon DEF publish_child, PublishHalf, TStep
  <1>7. CASE publish_child_rest  BY <1>7, Zenon DEF publish_child_rest, PublishRest, TStep
  <1>8. CASE subprocess_read_stdout  BY <1>8, Zenon DEF subprocess_read_stdout, TStep
  <1>9. CASE read_some  BY <1>9, Zenon DEF read_some, TStep
  <1>10. CASE read_zero  BY <1>10, Zenon DEF read_zero, Writers, TStep
  <1>11. CASE subprocess_join  BY <1>11, Zenon DEF subprocess_join, fclose, TStep
  <1>12. CASE waitpid  BY <1>12, Zenon DEF waitpid, TStep
  <1>13. CASE subprocess_destroy  BY <1>13, Zenon DEF subprocess_destroy, fclose, TStep
  <1>14. CASE republish_child  BY <1>14, Zenon DEF republish_child, PublishHalf, TStep
  <1>15. CASE republish_child_rest  BY <1>15, Zenon DEF republish_child_rest, PublishRest, TStep
  <1>16. CASE stop_running  BY <1>16, Zenon DEF stop_running, TStep
  <1>17. CASE press_back  BY <1>17, Zenon DEF press_back, UiStep
  <1>18. CASE handle_exit  BY <1>18, Zenon DEF handle_exit, UiStep
  <1>19. CASE subprocess_terminate  BY <1>19, Zenon DEF subprocess_terminate, UiStep
  <1>20. CASE handle_exit_destroy_in  BY <1>20, Zenon DEF handle_exit_destroy_in, fclose, UiStep
  <1>21. CASE handle_exit_destroy_out  BY <1>21, Zenon DEF handle_exit_destroy_out, fclose, UiStep
  <1>22. CASE handle_exit_running  BY <1>22, Zenon DEF handle_exit_running, UiStep
  <1>23. CASE handle_exit_join_refresh  BY <1>23, Zenon DEF handle_exit_join_refresh, UiStep
  <1>24. CASE handle_exit_join_t  BY <1>24, Zenon DEF handle_exit_join_t, UiStep
  <1>25. CASE exit_loop  BY <1>25, Zenon DEF exit_loop, UiStep
  <1>26. CASE after_loop  BY <1>26, Zenon DEF after_loop, UiStep
  <1>27. CASE join_refresh_ui  BY <1>27, Zenon DEF join_refresh_ui, UiStep
  <1>28. CASE join_t  BY <1>28, Zenon DEF join_t, UiStep
  <1>29. CASE refresh_ui_ends  BY <1>29, Zenon DEF refresh_ui_ends
  <1>30. CASE Idle  BY <1>30, Zenon DEF Idle, vars
  <1> QED
    BY <1>1, <1>2, <1>3, <1>4, <1>5, <1>6, <1>7, <1>8, <1>9, <1>10, <1>11, <1>12,
       <1>13, <1>14, <1>15, <1>16, <1>17, <1>18, <1>19, <1>20, <1>21, <1>22,
       <1>23, <1>24, <1>25, <1>26, <1>27, <1>28, <1>29, <1>30 DEF Next, T, Ui

\* The command's own steps: it writes, exits, or what it left behind ends.
LEMMA CommandStep == ASSUME IInv, Command PROVE IInv'
  <1>1. FlagsOK'  BY FlagsStep DEF Next
  <1> USE <1>1, ConstantsAssumption DEF IInv, TypeOK, BufferBound, CommandInv, LoopInv,
        JoinInv, FileInv, threads, command
  <1>2. CASE CommandWrites  BY <1>2 DEF CommandWrites
  <1>3. CASE CommandExits  BY <1>3 DEF CommandExits
  <1>4. CASE OrphanEnds  BY <1>4 DEF OrphanEnds
  <1> QED  BY <1>2, <1>3, <1>4 DEF Command

\* The steps of thread t: execute_thread and exec_follow.
LEMMA TStepInv == ASSUME IInv, T PROVE IInv'
  <1>0. FlagsOK'  BY FlagsStep DEF Next
  <1> USE <1>0, ConstantsAssumption DEF IInv, TypeOK, BufferBound, CommandInv, LoopInv,
        JoinInv, FileInv, TStep, KeepFiles, command, Subprocess, TPc, UiPc
  <1>1. CASE execute_thread  BY <1>1 DEF execute_thread
  <1>2. CASE exec_follow_dirty  BY <1>2 DEF exec_follow_dirty
  <1>3. CASE subprocess_create_fails  BY <1>3 DEF subprocess_create_fails
  <1>4. CASE subprocess_create_ex  BY <1>4 DEF subprocess_create_ex, NoProcess
  <1>5. CASE publish_child  BY <1>5 DEF publish_child, PublishHalf
  <1>6. CASE publish_child_rest  BY <1>6 DEF publish_child_rest, PublishRest
  <1>7. CASE subprocess_read_stdout  BY <1>7 DEF subprocess_read_stdout
  <1>8. CASE read_some  BY <1>8 DEF read_some
  <1>9. CASE read_zero  BY <1>9 DEF read_zero, Writers
  <1>10. CASE subprocess_join
    <2>1. process' \in Subprocess  BY <1>10 DEF subprocess_join
    <2>2. /\ file' \in [{"in", "out"} -> {"none", "open", "freed"}]
          /\ file'["in"] = "freed" /\ file'["out"] = file["out"]
      BY <1>10 DEF subprocess_join, fclose
    <2>3. t = "join" /\ t' = "wait" /\ UNCHANGED <<running, child, index, command, pipe, ui, refresh_ui>>
      BY <1>10 DEF subprocess_join
    <2> QED  BY <2>1, <2>2, <2>3
  <1>11. CASE waitpid  BY <1>11 DEF waitpid
  <1>12. CASE subprocess_destroy
    <2>1. process' \in Subprocess  BY <1>12 DEF subprocess_destroy
    <2>2. /\ file' \in [{"in", "out"} -> {"none", "open", "freed"}]
          /\ file'["out"] = "freed" /\ file'["in"] = file["in"]
      BY <1>12 DEF subprocess_destroy, fclose
    <2>3. /\ t = "destroy" /\ t' = "republish"
          /\ UNCHANGED <<running, child, index, command, pipe, ui, refresh_ui>>
      BY <1>12 DEF subprocess_destroy
    <2> QED  BY <2>1, <2>2, <2>3
  <1>13. CASE republish_child  BY <1>13 DEF republish_child, PublishHalf
  <1>14. CASE republish_child_rest  BY <1>14 DEF republish_child_rest, PublishRest
  <1>15. CASE stop_running  BY <1>15 DEF stop_running
  <1> QED
    BY <1>1, <1>2, <1>3, <1>4, <1>5, <1>6, <1>7, <1>8, <1>9, <1>10, <1>11, <1>12, <1>13, <1>14, <1>15 DEF T

\* The steps of the UI thread, the user's "Back" included.
LEMMA UiStepInv == ASSUME IInv, press_back \/ Ui PROVE IInv'
  <1>0. FlagsOK'  BY FlagsStep DEF Next
  <1> USE <1>0, ConstantsAssumption DEF IInv, TypeOK, BufferBound, CommandInv, LoopInv,
        JoinInv, FileInv, UiStep, KeepFiles, command, Subprocess, TPc, UiPc
  <1>1. CASE press_back  BY <1>1 DEF press_back
  <1>2. CASE handle_exit  BY <1>2 DEF handle_exit
  <1>3. CASE subprocess_terminate  BY <1>3 DEF subprocess_terminate
  <1>4. CASE handle_exit_destroy_in
    <2>1. child' \in Subprocess /\ child'.out = child.out /\ child'.in = FALSE
      BY <1>4 DEF handle_exit_destroy_in
    <2>2. /\ file' \in [{"in", "out"} -> {"none", "open", "freed"}]
          /\ file'["out"] = file["out"]
          /\ file'["in"] = IF child.in THEN "freed" ELSE file["in"]
      BY <1>4 DEF handle_exit_destroy_in, fclose
    <2>3. /\ ui = "destroy_in" /\ ui' = "destroy_out"
          /\ UNCHANGED <<running, process, index, command, pipe, t, refresh_ui>>
      BY <1>4 DEF handle_exit_destroy_in
    <2> QED  BY <2>1, <2>2, <2>3
  <1>5. CASE handle_exit_destroy_out
    <2>1. child' \in Subprocess /\ child'.in = child.in /\ child'.out = FALSE
      BY <1>5 DEF handle_exit_destroy_out
    <2>2. /\ file' \in [{"in", "out"} -> {"none", "open", "freed"}]
          /\ file'["in"] = file["in"]
          /\ file'["out"] = IF child.out THEN "freed" ELSE file["out"]
      BY <1>5 DEF handle_exit_destroy_out, fclose
    <2>3. /\ ui = "destroy_out" /\ ui' = "if_running"
          /\ UNCHANGED <<running, process, index, command, pipe, t, refresh_ui>>
      BY <1>5 DEF handle_exit_destroy_out
    <2> QED  BY <2>1, <2>2, <2>3
  <1>6. CASE handle_exit_running  BY <1>6 DEF handle_exit_running
  <1>7. CASE handle_exit_join_refresh  BY <1>7 DEF handle_exit_join_refresh
  <1>8. CASE handle_exit_join_t  BY <1>8 DEF handle_exit_join_t
  <1>9. CASE exit_loop  BY <1>9 DEF exit_loop
  <1>10. CASE after_loop  BY <1>10 DEF after_loop
  <1>11. CASE join_refresh_ui  BY <1>11 DEF join_refresh_ui
  <1>12. CASE join_t  BY <1>12 DEF join_t
  <1> QED
    BY <1>1, <1>2, <1>3, <1>4, <1>5, <1>6, <1>7, <1>8, <1>9, <1>10, <1>11, <1>12 DEF Ui

\* Every step of the widget, its threads and the command keeps the invariant.
LEMMA NextIInv == ASSUME IInv, [Next]_vars PROVE IInv'
  <1>1. CASE Command  BY <1>1, CommandStep
  <1>2. CASE T  BY <1>2, TStepInv
  <1>3. CASE press_back \/ Ui  BY <1>3, UiStepInv
  <1>4. CASE refresh_ui_ends
    BY <1>4 DEF refresh_ui_ends, command, IInv, TypeOK, FlagsOK, BufferBound,
       CommandInv, LoopInv, JoinInv, FileInv
  <1>5. CASE Idle \/ UNCHANGED vars
    BY <1>5 DEF Idle, vars, IInv, TypeOK, FlagsOK, BufferBound, CommandInv,
       LoopInv, JoinInv, FileInv
  <1> QED  BY <1>1, <1>2, <1>3, <1>4, <1>5 DEF Next

\* Type, buffer, command, loop, joins and streams together are an invariant of
\* every call of follow_process_log_widget.
THEOREM InductiveInvariant == Spec => []IInv
  <1>1. Init => IInv  BY InitIInv
  <1>2. IInv /\ [Next]_vars => IInv'  BY NextIInv
  <1> QED  BY <1>1, <1>2, PTL DEF Spec

\* The state of a call of follow_process_log_widget keeps its type.
THEOREM TypeCorrect == Spec => []TypeOK
  BY InductiveInvariant, PTL DEF IInv

\* exec_follow keeps the final NUL of its log buffer, for every buffer, pipe and
\* output size.
THEOREM BufferSafe == Spec => []BufferBound
  BY InductiveInvariant, PTL DEF IInv

\* However the three threads interleave with "Back", a call that returns leaves
\* no thread, no child process and no open pipe behind.
THEOREM ReturnsClean == Spec => []NothingLeft
  <1>1. IInv => NothingLeft
    BY DEF IInv, TypeOK, CommandInv, JoinInv, FileInv, NothingLeft
  <1> QED  BY <1>1, InductiveInvariant, PTL

\* The widget runs its command at most once and never after it has returned.
THEOREM Implementation == Spec => ImplementsCommandOnce
  <1>1. Init => CO!Init
    BY DEF Init, CO!Init
  <1>2. IInv /\ [Next]_vars => [CO!Next]_(CO!vars)
    <2> SUFFICES ASSUME IInv, [Next]_vars PROVE [CO!Next]_(CO!vars)
      OBVIOUS
    <2> USE DEF CO!Next, CO!vars, CO!Start, CO!Finish, CO!Return, command,
          IInv, TypeOK, CommandInv, JoinInv
    <2>1. CASE Command
      BY <2>1 DEF Command, CommandWrites, CommandExits, OrphanEnds, threads
    <2>2. CASE subprocess_create_ex
      BY <2>2 DEF subprocess_create_ex, TStep
    <2>3. CASE waitpid
      BY <2>3 DEF waitpid, TStep
    <2>4. CASE T /\ ~subprocess_create_ex /\ ~waitpid
      BY <2>4 DEF T, TStep, execute_thread, exec_follow_dirty,
         subprocess_create_fails, publish_child, publish_child_rest,
         PublishHalf, PublishRest, subprocess_read_stdout, read_some,
         read_zero, subprocess_join, subprocess_destroy, republish_child,
         republish_child_rest, stop_running
    <2>5. CASE join_t
      BY <2>5 DEF join_t, UiStep
    <2>6. CASE (press_back \/ Ui) /\ ~join_t
      BY <2>6 DEF press_back, Ui, UiStep, handle_exit, subprocess_terminate,
         handle_exit_destroy_in, handle_exit_destroy_out, handle_exit_running,
         handle_exit_join_refresh, handle_exit_join_t, exit_loop, after_loop,
         join_refresh_ui
    <2>7. CASE refresh_ui_ends
      BY <2>7 DEF refresh_ui_ends
    <2>8. CASE Idle \/ UNCHANGED vars
      BY <2>8 DEF Idle, vars
    <2> QED
      BY <2>1, <2>2, <2>3, <2>4, <2>5, <2>6, <2>7, <2>8 DEF Next
  <1> QED
    BY <1>1, <1>2, InductiveInvariant, PTL DEF Spec, ImplementsCommandOnce, CO!Spec

------------------------------------------------------------------------------
\* Every step keeps what is known of the command's output.
LEMMA NextOutput == ASSUME IInv, OutputInv, [Next]_vars PROVE OutputInv'
  <1> USE DEF OutputInv, Drained, command, threads
  <1>1. CASE Command
    BY <1>1 DEF Command, CommandWrites, CommandExits, OrphanEnds, Writers, IInv, CommandInv
  <1>2. CASE T
    <2> USE DEF TStep, KeepFiles, IInv, TypeOK, CommandInv
    <2>1. CASE execute_thread \/ exec_follow_dirty \/ subprocess_create_fails \/ stop_running
      BY <2>1 DEF execute_thread, exec_follow_dirty, subprocess_create_fails, stop_running
    <2>2. CASE subprocess_create_ex  BY <2>2 DEF subprocess_create_ex
    <2>3. CASE publish_child \/ publish_child_rest
      BY <2>3 DEF publish_child, publish_child_rest, PublishHalf, PublishRest
    <2>4. CASE subprocess_read_stdout  BY <2>4 DEF subprocess_read_stdout
    <2>5. CASE read_some  BY <2>5 DEF read_some
    <2>6. CASE read_zero  BY <2>6 DEF read_zero, Writers
    <2>7. CASE subprocess_join  BY <2>7 DEF subprocess_join
    <2>8. CASE waitpid  BY <2>8 DEF waitpid
    <2>9. CASE subprocess_destroy  BY <2>9 DEF subprocess_destroy
    <2>10. CASE republish_child \/ republish_child_rest
      BY <2>10 DEF republish_child, republish_child_rest, PublishHalf, PublishRest
    <2> QED  BY <1>2, <2>1, <2>2, <2>3, <2>4, <2>5, <2>6, <2>7, <2>8, <2>9, <2>10 DEF T
  <1>3. CASE press_back \/ Ui
    BY <1>3 DEF press_back, Ui, UiStep, handle_exit, subprocess_terminate,
       handle_exit_destroy_in, handle_exit_destroy_out, handle_exit_running,
       handle_exit_join_refresh, handle_exit_join_t, exit_loop, after_loop,
       join_refresh_ui, join_t
  <1>4. CASE refresh_ui_ends
    BY <1>4 DEF refresh_ui_ends
  <1>5. CASE Idle \/ UNCHANGED vars
    BY <1>5 DEF Idle, vars
  <1> QED  BY <1>1, <1>2, <1>3, <1>4, <1>5 DEF Next

\* For every buffer, pipe and output size: a log that is shown when the command has
\* ended, and nobody pressed "Back", is complete or full.
THEOREM LogWhole == Spec => []LogComplete
  <1>1. Init => OutputInv
    BY DEF Init, OutputInv
  <1>2. IInv /\ OutputInv /\ [Next]_vars => OutputInv'
    BY NextOutput
  <1>3. OutputInv => LogComplete
    BY ConstantsAssumption DEF OutputInv, Drained, LogComplete
  <1> QED  BY <1>1, <1>2, <1>3, InductiveInvariant, PTL DEF Spec
==============================================================================
