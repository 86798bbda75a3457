------------------------------ MODULE Dialogues ------------------------------
(****************************************************************************)
(* The dialogues of widgets.cpp and functions of tui.cpp that use them.  A  *)
(* dialogue is a loop over a screen of its own; the callback of its "OK"    *)
(* runs inside of that loop and may open a dialogue in front of it.  Events *)
(* go to the screen in front.  Ending a loop is only asked for: keys that   *)
(* were pressed before still reach it, so that more edits, a second "OK" or *)
(* a "Cancel" may follow the "OK" that ends it.  Layout is left out.        *)
(****************************************************************************)
EXTENDS Text

CONSTANTS
    Kernels,        \* available_kernels
    FsMenu,         \* the mount options of each file system on the menu; the first entry
                    \* is "Do not format", which has none
    Entries,        \* how many entries the other menus and radio lists have
    Names,          \* what is typed into an input box
    None,
    MaxEvents       \* bound: keys pressed and dialogues opened

\* The lists of the code; no word of them is a delimiter.
ASSUME DialoguesAssumption ==
    /\ FsMenu \in Seq(Seq(STRING \ {" ", ","})) /\ Len(FsMenu) > 1 /\ FsMenu[1] = <<>>
    /\ Kernels \in Seq(STRING \ {" ", ","}) /\ Kernels # <<>>
    /\ Entries \in Nat /\ Entries > 1 /\ MaxEvents \in Nat
    /\ "" \notin Names /\ None \notin Names

VARIABLES
    screens,        \* the open dialogues, the one in front last
    caller,         \* the function of tui.cpp that opened the first of them
    text,           \* the string its callback fills
    fs_opts,        \* Config entry: options of the file system last selected
    formatted,      \* how often mkfs was run
    initramfs,      \* an initramfs is below /mnt/boot
    KERNEL, MOUNT_OPTS,     \* Config entries
    answer,         \* what each of the other functions last went on with
    checked,        \* for the properties: the boxes at the last "OK" of a checklist
    events

dialogue_vars == <<screens, caller, text, fs_opts, formatted, initramfs, KERNEL, MOUNT_OPTS,
                   answer, checked, events>>
config == <<fs_opts, formatted, initramfs, KERNEL, MOUNT_OPTS, answer>>

Simple == {"btrfs_subvolumes", "install_desktop", "set_hostname", "select_filesystem_simple"}
Options == IF caller = "install_base" THEN Kernels ELSE fs_opts
Contents(kind) ==
    CASE kind = "checklist" -> SUBSET DOMAIN Options
      [] kind \in {"menu", "radiolist"} ->
            IF caller = "select_filesystem" THEN DOMAIN FsMenu ELSE 1..Entries
      [] kind = "inputbox" -> Names \cup {""}
      [] OTHER -> {None}

DialoguesTypeOK ==
    /\ Len(screens) \in 0..2 /\ events \in 0..MaxEvents
    /\ caller \in Simple \cup {"none", "select_filesystem", "install_base", "select_mount_opts"}
    /\ (screens = <<>>) <=> (caller = "none")
    /\ initramfs \in BOOLEAN /\ formatted \in 0..MaxEvents
    /\ \A i \in DOMAIN screens : screens[i].quit \in BOOLEAN /\ screens[i].success \in BOOLEAN

DialoguesInit ==
    /\ screens = <<>> /\ caller = "none" /\ text = <<>>
    /\ fs_opts = <<>> /\ formatted = 0 /\ initramfs \in BOOLEAN
    /\ KERNEL = <<>> /\ MOUNT_OPTS = <<>> /\ answer = [f \in Simple |-> None]
    /\ checked = {} /\ events = 0

Event == events < MaxEvents /\ events' = events + 1

------------------------------------------------------------------------------
(* The widgets.                                                             *)

\* then: what a callback that opened another dialogue does when that returns.
Screen(kind, content) ==
    [kind |-> kind, content |-> content, success |-> FALSE, quit |-> FALSE, then |-> "return"]

msgbox_widget == Screen("msgbox", None)
inputbox_widget(value) == Screen("inputbox", value)
yesno_widget == Screen("yesno", None)
yesno_widget_container == Screen("yesno_container", None)
menu_widget == Screen("menu", 1)
radiolist_widget == Screen("radiolist", 1)
checklist_widget(state) == Screen("checklist", state)

from_checklist_vector(opts, state) ==
    LET upto[n \in 0..Len(opts)] ==
            IF n = 0 THEN <<>> ELSE upto[n - 1] \o IF n \in state THEN <<opts[n]>> ELSE <<>>
    IN  upto[Len(opts)]

\* Mutant: the blank goes between the boxes that are not checked.
from_checklist_string_glued(opts, state) ==
    LET upto[n \in 0..Len(opts)] ==
            IF n = 0 THEN <<>> ELSE upto[n - 1] \o IF n \in state THEN <<opts[n]>> ELSE <<" ">>
        res == upto[Len(opts)]
    IN  IF res # <<>> /\ Last(res) = " " THEN Front(res) ELSE res

\* Every checked option with a blank behind it; the last blank is taken off again.
from_checklist_string(opts, state) ==
    LET upto[n \in 0..Len(opts)] ==
            IF n = 0 THEN <<>> ELSE upto[n - 1] \o IF n \in state THEN <<opts[n], " ">> ELSE <<>>
        res == upto[Len(opts)]
    IN  IF res # <<>> /\ Last(res) = " " THEN Front(res) ELSE res

front == Last(screens)
InFront(screen) == screens' = [screens EXCEPT ![Len(screens)] = screen]
ExitLoop(screen) == [screen EXCEPT !.quit = TRUE]

\* Typing, moving through a list, checking a box.
edit ==
    /\ Event /\ screens # <<>>
    /\ \E content \in Contents(front.kind) :
          content # front.content /\ InFront([front EXCEPT !.content = content])
    /\ UNCHANGED <<caller, text, config, checked>>

\* Mutant: the callback of "OK" does not end the loop.
press_ok_stays ==
    /\ Event /\ screens # <<>>
    /\ front.kind \in {"msgbox", "inputbox", "yesno", "yesno_container"}
    /\ InFront([front EXCEPT !.success = (front.kind # "msgbox")])
    /\ UNCHANGED <<caller, text, config, checked>>

\* "OK" of a message, and of a question, whose result it sets.
press_ok ==
    /\ Event /\ screens # <<>>
    /\ front.kind \in {"msgbox", "inputbox", "yesno", "yesno_container"}
    /\ InFront(ExitLoop([front EXCEPT !.success = (front.kind # "msgbox")]))
    /\ UNCHANGED <<caller, text, config, checked>>

\* "OK" of a list, and Enter on a line of a menu, run the callback of the caller.
press_ok_list ==
    /\ Event /\ screens # <<>> /\ front.kind \in {"menu", "radiolist"}
    /\ text' = <<front.content>>
    /\ InFront(ExitLoop(front))
    /\ UNCHANGED <<caller, config, checked>>

\* The list of kernels stays open when none is checked and none is installed; a kernel
\* that is installed is only reported.
install_base_ok ==
    /\ Event /\ caller = "install_base" /\ front.kind = "checklist"
    /\ text' = from_checklist_string(Kernels, front.content) /\ checked' = front.content
    /\ IF text' # <<>> THEN InFront(ExitLoop(front))
       ELSE screens' = Append(Front(screens),
                              [front EXCEPT !.then = IF initramfs THEN "exit" ELSE "return"])
                       \o <<msgbox_widget>>
    /\ UNCHANGED <<caller, config>>

select_mount_opts_ok ==
    /\ Event /\ caller = "select_mount_opts" /\ front.kind = "checklist"
    /\ text' = from_checklist_string(fs_opts, front.content) /\ checked' = front.content
    /\ InFront(ExitLoop(front))
    /\ UNCHANGED <<caller, config>>

\* A message has no "Cancel".
press_cancel ==
    /\ Event /\ screens # <<>> /\ front.kind # "msgbox"
    /\ InFront(ExitLoop(front))
    /\ UNCHANGED <<caller, text, config, checked>>

------------------------------------------------------------------------------
(* The callers.                                                             *)

Open(function, screen) ==
    /\ Event /\ caller = "none" /\ caller' = function
    /\ screens' = <<screen>> /\ text' = <<>>

\* The options are reset before the menu is shown.
select_filesystem ==
    /\ Open("select_filesystem", menu_widget) /\ fs_opts' = <<>>
    /\ UNCHANGED <<formatted, initramfs, KERNEL, MOUNT_OPTS, answer, checked>>

\* The one of the simple mode: ext4, btrfs and xfs, "Do not format" is not offered.
select_filesystem_simple ==
    /\ Open("select_filesystem_simple", menu_widget) /\ fs_opts' = <<>>
    /\ UNCHANGED <<formatted, initramfs, KERNEL, MOUNT_OPTS, answer, checked>>

btrfs_subvolumes == Open("btrfs_subvolumes", menu_widget) /\ UNCHANGED <<config, checked>>
install_desktop == Open("install_desktop", radiolist_widget) /\ UNCHANGED <<config, checked>>
set_hostname ==
    \E name \in Names : Open("set_hostname", inputbox_widget(name)) /\ UNCHANGED <<config, checked>>

install_base == Open("install_base", checklist_widget({})) /\ UNCHANGED <<config, checked>>

\* What is checked to begin with; the code compares with "compress=zlip", which no
\* list has.
Preset(rotational) ==
    LET words == {"noatime"} \cup IF rotational THEN {"autodefrag", "compress=zlip", "nossd"}
                                  ELSE {"compress=lzo", "space_cache", "commit=120", "ssd"}
    IN  {i \in DOMAIN fs_opts : fs_opts[i] \in words}

\* Mutant: sed without g.
cleanup_mount_opts_first(str) ==
    [i \in DOMAIN str |-> IF i = 2 THEN "," ELSE str[i]]

\* sed 's/ /,/g', and no comma at the end.
cleanup_mount_opts(str) ==
    LET commas == [i \in DOMAIN str |-> IF str[i] = " " THEN "," ELSE str[i]]
    IN  IF commas # <<>> /\ Last(commas) = "," THEN Front(commas) ELSE commas

\* MOUNT_OPTS is emptied first; nothing is asked without options, or if forced.
select_mount_opts ==
    \E rotational, force \in BOOLEAN :
        LET preset == Preset(rotational) IN
        IF fs_opts # <<>> /\ ~force
        THEN /\ Open("select_mount_opts", checklist_widget(preset))
             /\ MOUNT_OPTS' = <<>>
             /\ UNCHANGED <<fs_opts, formatted, initramfs, KERNEL, answer, checked>>
        ELSE /\ Event /\ caller = "none" /\ checked' = preset
             /\ MOUNT_OPTS' = cleanup_mount_opts(from_checklist_string(fs_opts, preset))
             /\ UNCHANGED <<screens, caller, text, fs_opts, formatted, initramfs, KERNEL, answer>>

------------------------------------------------------------------------------
(* The end of a loop, and what its caller does with the result.             *)

Returns == screens' = Front(screens) /\ caller' = "none"

\* Back in the callback that showed the message.
message_ends ==
    LET below == screens[Len(screens) - 1] IN
    /\ screens' = Append(Front(Front(screens)), [below EXCEPT !.quit = @ \/ below.then = "exit"])
    /\ UNCHANGED <<caller, text, config>>

kernels_end ==
    /\ Returns
    /\ KERNEL' = IF text = <<>> THEN KERNEL ELSE text
    /\ UNCHANGED <<text, fs_opts, formatted, initramfs, MOUNT_OPTS, answer>>

\* Options that are left are shown once more.
mount_opts_end ==
    /\ text' = cleanup_mount_opts(text)
    /\ IF text = <<>> THEN Returns ELSE screens' = <<yesno_widget_container>> /\ UNCHANGED caller
    /\ UNCHANGED config

confirm_ends ==
    /\ Returns
    /\ MOUNT_OPTS' = IF front.success THEN text ELSE <<>>
    /\ UNCHANGED <<text, fs_opts, formatted, initramfs, KERNEL, answer>>

\* No choice, and no or an empty input, ends the function; only the menu of file systems
\* of the simple mode then takes one itself, btrfs.
simple_ends ==
    /\ Returns
    /\ answer' = [answer EXCEPT ![caller] =
                    IF front.kind = "inputbox"
                    THEN IF front.success /\ front.content # "" THEN front.content ELSE @
                    ELSE IF text # <<>> THEN text[1]
                    ELSE IF caller = "select_filesystem_simple" THEN 2 ELSE @]
    /\ UNCHANGED <<text, fs_opts, formatted, initramfs, KERNEL, MOUNT_OPTS>>

\* utils::select_filesystem takes the options over; then the user is warned.
file_systems_end ==
    /\ IF text \in {<<>>, <<1>>} THEN Returns /\ UNCHANGED fs_opts
       ELSE /\ fs_opts' = FsMenu[text[1]]
            /\ screens' = <<yesno_widget>> /\ UNCHANGED caller
    /\ UNCHANGED <<text, formatted, initramfs, KERNEL, MOUNT_OPTS, answer>>

warning_ends ==
    /\ Returns /\ formatted' = IF front.success THEN formatted + 1 ELSE formatted
    /\ UNCHANGED <<text, fs_opts, initramfs, KERNEL, MOUNT_OPTS, answer>>

loop_ends ==
    /\ screens # <<>> /\ front.quit
    /\ UNCHANGED <<events, checked>>
    /\ \/ front.kind = "msgbox" /\ message_ends
       \/ caller = "install_base" /\ front.kind = "checklist" /\ kernels_end
       \/ caller = "select_mount_opts" /\ front.kind = "checklist" /\ mount_opts_end
       \/ front.kind = "yesno_container" /\ confirm_ends
       \/ caller = "select_filesystem" /\ front.kind = "menu" /\ file_systems_end
       \/ front.kind = "yesno" /\ warning_ends
       \/ caller \in Simple /\ simple_ends

DialoguesNext ==
    \/ edit \/ press_ok \/ press_ok_list \/ install_base_ok \/ select_mount_opts_ok \/ press_cancel
    \/ select_filesystem \/ select_filesystem_simple \/ btrfs_subvolumes \/ install_desktop
    \/ set_hostname \/ install_base \/ select_mount_opts \/ loop_ends

\* A screen takes its events in order, so it comes to the request to end.
DialoguesSpec == DialoguesInit /\ [][DialoguesNext]_dialogue_vars /\ WF_dialogue_vars(loop_ends)

------------------------------------------------------------------------------
(* What should hold.                                                        *)

\* The kernels that are installed, the words of KERNEL, are those that were checked at
\* the last "OK", in the order of the list and never none, whatever was changed on the
\* list after it, answered in a message before it, or cancelled.
KernelsAsChecked ==
    [][KERNEL' # KERNEL =>
          /\ checked # {}
          /\ make_multiline(KERNEL', FALSE, " ") = from_checklist_vector(Kernels, checked)]_dialogue_vars

\* The options a partition is mounted with are those that were checked at the last
\* "OK" (or to begin with, if nothing is asked), each its own word between commas, and
\* all of them options of the file system that was selected last.
MountOptsAsChecked ==
    [][MOUNT_OPTS' \notin {MOUNT_OPTS, <<>>} =>
          /\ make_multiline(MOUNT_OPTS', FALSE, ",") = from_checklist_vector(fs_opts, checked')
          /\ \E fs \in DOMAIN FsMenu : FsMenu[fs] = fs_opts]_dialogue_vars

\* A question that was answered, or a list with a choice made.
Answered ==
    /\ screens # <<>>
    /\ front.success \/ (front.kind \in {"menu", "radiolist", "checklist"} /\ text # <<>>)

\* A dialogue that was answered goes away without another key.
AnsweredEnds == Answered ~> ~Answered
==============================================================================
