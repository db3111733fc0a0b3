---------------------------------- MODULE Menus ----------------------------------
(***************************************************************************)
(* The menus of classic mode (sysmgr --classic): main's loop, the loops of *)
(* the managers, and ui_select_menu, which reads the terminal byte by byte *)
(* with the arrow keys as sequences of three.  Each menu has two tables in *)
(* the code that must agree: the options on the screen, and the operations *)
(* that the numbers stand for.  An operation is named as the option is.    *)
(***************************************************************************)
EXTENDS Integers, Sequences, SequencesExt, Prompt

VARIABLES
  open,     \* the menus entered: the one on the screen is the last
  selected, \* the option highlighted
  escape,   \* how much of an escape sequence has been read
  gone,     \* whether the terminal is
  picked,   \* history: the option highlighted when ENTER was hit
  ran       \* the last operation, and the menu it was run from

menuVars == <<pc, told, open, selected, escape, gone, picked, ran>>

Byte == {"ESC", "[", "A", "B", "ENTER", "q", "x"}
Nobody == [menu |-> "none", op |-> "none"]

-----------------------------------------------------------------------------
(* The options of each menu, in their order on the screen.                  *)

MainOptions == <<"file", "process", "network", "socket", "package", "shell", "kernel", "exit">>
FileOptions == <<"create", "read", "write", "delete", "rename", "copy", "move", "info",
                 "list", "mkdir", "chmod", "search", "archive", "return">>
ProcessOptions == <<"list", "search", "signal", "nice", "fork", "exec", "wait", "zombie",
                    "orphan", "daemon", "siginit", "sigreset", "return">>
NetworkOptions == <<"list", "info", "config", "up", "down", "route", "ping", "dns",
                    "stats", "return">>
SocketOptions == <<"server", "client", "multi", "chat", "return">>
ChatOptions == <<"host", "join", "demo", "return">>
PackageOptions == <<"search", "info", "install", "remove", "demo", "setup", "return">>
ShellOptions == <<"exec", "script", "env", "files", "cron", "time", "install", "return">>
ScriptOptions == <<"backup.sh", "disk_usage.sh", "show_date.sh", "return">>
EnvOptions == <<"list", "query", "set", "remove", "return">>
KernelOptions == <<"info", "load", "unload", "stack", "skbuff", "napi", "return">>

Options(menu) ==
  CASE menu = "main"    -> MainOptions
    [] menu = "file"    -> FileOptions
    [] menu = "process" -> ProcessOptions
    [] menu = "network" -> NetworkOptions
    [] menu = "socket"  -> SocketOptions
    [] menu = "chat"    -> ChatOptions
    [] menu = "package" -> PackageOptions
    [] menu = "shell"   -> ShellOptions
    [] menu = "script"  -> ScriptOptions
    [] menu = "env"     -> EnvOptions
    [] menu = "kernel"  -> KernelOptions

-----------------------------------------------------------------------------
(* What runs for the selection sel, counted from 0 and -1 for none: most    *)
(* managers make it a choice from 1 and go through a chain of comparisons.  *)

MainRuns(sel) ==
  LET choice == IF sel \in {7, -1} THEN 0 ELSE sel + 1
  IN CASE choice = 0 -> "exit"    [] choice = 1 -> "file"    [] choice = 2 -> "process"
       [] choice = 3 -> "network" [] choice = 4 -> "socket"  [] choice = 5 -> "package"
       [] choice = 6 -> "shell"   [] choice = 7 -> "kernel"

\* The comparisons of a manager in order, for choices from 1 on.
Chain(operations, sel) ==
  IF sel \in {Len(operations), -1} THEN "return" ELSE operations[sel + 1]

FileRuns(sel) ==
  Chain(<<"create", "read", "write", "delete", "rename", "copy", "move", "info",
          "list", "mkdir", "chmod", "search", "archive">>, sel)
ProcessRuns(sel) ==
  Chain(<<"list", "search", "signal", "nice", "fork", "exec", "wait", "zombie", "orphan",
          "daemon", "siginit", "sigreset">>, sel)
NetworkRuns(sel) ==
  Chain(<<"list", "info", "config", "up", "down", "route", "ping", "dns", "stats">>, sel)
SocketRuns(sel) == Chain(<<"server", "client", "multi", "chat">>, sel)
ChatRuns(sel) == Chain(<<"host", "join", "demo">>, sel)
PackageRuns(sel) == Chain(<<"search", "info", "install", "remove", "demo", "setup">>, sel)
ShellRuns(sel) == Chain(<<"exec", "script", "env", "files", "cron", "time", "install">>, sel)
ScriptRuns(sel) == Chain(<<"backup.sh", "disk_usage.sh", "show_date.sh">>, sel)
EnvRuns(sel) == Chain(<<"list", "query", "set", "remove">>, sel)
\* Mutant of KernelRuns: two comparisons have changed places.
KernelRunsSwapped(sel) == Chain(<<"info", "unload", "load", "stack", "skbuff", "napi">>, sel)

KernelRuns(sel) == Chain(<<"info", "load", "unload", "stack", "skbuff", "napi">>, sel)

Runs(menu, sel) ==
  CASE menu = "main"    -> MainRuns(sel)
    [] menu = "file"    -> FileRuns(sel)
    [] menu = "process" -> ProcessRuns(sel)
    [] menu = "network" -> NetworkRuns(sel)
    [] menu = "socket"  -> SocketRuns(sel)
    [] menu = "chat"    -> ChatRuns(sel)
    [] menu = "package" -> PackageRuns(sel)
    [] menu = "shell"   -> ShellRuns(sel)
    [] menu = "script"  -> ScriptRuns(sel)
    [] menu = "env"     -> EnvRuns(sel)
    [] menu = "kernel"  -> KernelRuns(sel)

\* The options that open another menu.
Submenus(menu) ==
  CASE menu = "main"   -> {"file", "process", "network", "socket", "package", "shell", "kernel"}
    [] menu = "socket" -> {"chat"}
    [] menu = "shell"  -> {"script", "env"}
    [] OTHER           -> {}

-----------------------------------------------------------------------------
MenuInit ==
  /\ pc = "prompt" /\ told = "nothing"
  /\ open = <<>> /\ selected = 0 /\ escape = "no" /\ gone = FALSE
  /\ picked = "none" /\ ran = Nobody

\* ui_select_menu begins with the first option, if there is still a terminal.
ShowMenu(menus) ==
  /\ open' = menus /\ selected' = 0 /\ escape' = "no"
  /\ pc' = IF menus = <<>> THEN "quit" ELSE IF gone THEN "menu.none" ELSE "menu"

MenuStart == pc = "prompt" /\ ShowMenu(<<"main">>) /\ UNCHANGED <<told, gone, picked, ran>>

\* A menu is left.  Back in main's loop there is a pause; main's own is the end.
LeaveMenu ==
  LET below == Front(open)
  IN IF below = <<"main">>
     THEN pc' = "menu.pause" /\ open' = below /\ UNCHANGED <<selected, escape>>
     ELSE ShowMenu(below)

Choose(sel) ==
  LET menu == Last(open)
      op == Runs(menu, sel)
  IN /\ ran' = [menu |-> menu, op |-> op]
     /\ picked' = IF sel = -1 THEN Last(Options(menu)) ELSE Options(menu)[sel + 1]
     /\ UNCHANGED <<told, gone>>
     /\ IF op \in {"return", "exit"} THEN LeaveMenu
        ELSE IF op \in Submenus(menu) THEN ShowMenu(Append(open, op))
        ELSE pc' = "menu.run" /\ UNCHANGED <<open, selected, escape>>

Highlight(option) ==
  /\ selected' = option /\ escape' = "no"
  /\ UNCHANGED <<pc, told, open, gone, picked, ran>>

\* One round of ui_select_menu's loop, or a part of one: whatever comes after
\* an ESC is read, and lost unless it makes an arrow.
ReadByte(b) ==
  /\ pc = "menu" /\ ~gone
  /\ LET count == Len(Options(Last(open)))
         Reads(so) == escape' = so /\ UNCHANGED <<pc, told, open, selected, gone, picked, ran>>
     IN CASE escape = "no" /\ b = "ESC"   -> Reads("ESC")
          [] escape = "no" /\ b = "ENTER" -> Choose(selected)
          [] escape = "no" /\ b = "q"     -> Choose(-1)
          [] escape = "no" /\ b \notin {"ESC", "ENTER", "q"} -> Reads("no")
          [] escape = "ESC"               -> Reads(IF b = "[" THEN "CSI" ELSE "lost")
          [] escape = "CSI" /\ b = "A"    -> Highlight((selected - 1 + count) % count)
          [] escape = "CSI" /\ b = "B"    -> Highlight((selected + 1) % count)
          [] OTHER                        -> Highlight(selected)

\* The terminal goes, and sysmgr does not go with it, as under nohup.
HangUp ==
  /\ pc \in {"menu", "menu.run", "menu.pause"} /\ ~gone /\ gone' = TRUE
  /\ UNCHANGED <<pc, told, open, selected, escape, picked, ran>>

\* A read that fails within an escape sequence leaves the menu; any other is
\* repeated, for ever.
ReadFails == pc = "menu" /\ gone /\ escape # "no" /\ Choose(-1)

\* Without a terminal, ui_select_menu returns at once.
NoMenu == pc = "menu.none" /\ Choose(-1)

\* The operation has ended.  The socket manager does not pause, and a script or
\* a chat closes its menu; the environment's operations pause themselves.
OperationEnds ==
  /\ pc = "menu.run"
  /\ LET menu == Last(open)
         menus == IF menu \in {"script", "chat"} THEN Front(open) ELSE open
     IN IF menu \in {"socket", "chat"} THEN ShowMenu(menus)
        ELSE pc' = "menu.pause" /\ open' = menus /\ UNCHANGED <<selected, escape>>
  /\ UNCHANGED <<told, gone, picked, ran>>

\* A line, or the end of the input.
Pause == pc = "menu.pause" /\ ShowMenu(open) /\ UNCHANGED <<told, gone, picked, ran>>

MenuCommands == OperationEnds \/ ReadFails \/ NoMenu \/ (gone /\ Pause)

MenuUser == (\E b \in Byte : ReadByte(b)) \/ HangUp \/ (~gone /\ Pause)

MenuNext == MenuStart \/ MenuUser \/ MenuCommands

MenuSpec == MenuInit /\ [][MenuNext]_menuVars

-----------------------------------------------------------------------------
\* The variables have their types, and the option highlighted is on the screen.
MenuTypeOK ==
  /\ pc \in {"prompt", "menu", "menu.none", "menu.run", "menu.pause", "quit"} /\ gone \in BOOLEAN
  /\ open # <<>> => open[1] = "main"
  /\ \A i \in 2..Len(open) : open[i] \in Submenus(open[i - 1])
  /\ pc = "menu" => selected \in 0..Len(Options(Last(open))) - 1
  /\ escape \in {"no", "ESC", "CSI", "lost"}

\* What runs is the option that was highlighted when ENTER was hit, also after
\* arrows, lost bytes and menus in menus, and an option that only goes back, q
\* and a failed read never run anything (ui_select_menu, *_mgr_run).
LabelsRun == ran # Nobody => ran.op = picked
===============================================================================
