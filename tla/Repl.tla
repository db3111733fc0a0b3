---------------------------------- MODULE Repl ----------------------------------
(***************************************************************************)
(* The command line: cli/repl.c with the palette and the completion it     *)
(* uses (cli/palette.c, cli/autocomplete.c), and the direct mode of main.  *)
(* A line typed, completed or given as sysmgr's arguments becomes words,   *)
(* the words a command of a context, and arguments that are missing are    *)
(* asked for one after the other.                                          *)
(*                                                                         *)
(* External: linenoise, which gives a line, ESC, or NULL at the end.       *)
(***************************************************************************)
EXTENDS Parser, FiniteSets, Prompt

CONSTANTS MaxArgs, \* the size of token_argv
          Word,    \* bound: the arguments that users type
          MaxGiven \* bound: how many of them on one line

ASSUME ReplAssumption ==
  /\ MaxArgs \in Nat \ {0} /\ MaxGiven \in Nat
  /\ \A w \in Word : w \in Seq(STRING)

VARIABLES
  interactive, \* is_interactive
  context,     \* context_stack[context_depth]
  words,       \* history: the words that the user means
  offered,     \* history: completion has offered them
  argv,        \* token_argv, empty when the palette is shown
  command,     \* the command under way: its table, its name
  given        \* and the arguments it has so far

replVars == <<pc, told, interactive, context, words, offered, argv, command, given>>

Nameless == [table |-> "none", name |-> "none"]
Default == <<"the-default">>

-----------------------------------------------------------------------------
(* The commands of each context, with the number of arguments asked for.    *)

FileTable ==
  [create |-> 1, read |-> 1, write |-> 2, delete |-> 1, copy |-> 2, move |-> 2, rename |-> 2,
   info |-> 1, list |-> 0, mkdir |-> 1, chmod |-> 2, search |-> 2, archive |-> 2]
ProcessTable ==
  [list |-> 0, info |-> 1, kill |-> 1, signal |-> 2, nice |-> 2, fork |-> 0, exec |-> 0, wait |-> 0,
   zombie |-> 0, orphan |-> 0, daemon |-> 0, siginit |-> 0, sigreset |-> 0]
NetworkTable ==
  [list |-> 0, info |-> 0, config |-> 0, up |-> 0, down |-> 0, route |-> 0, ping |-> 0,
   dns |-> 0, stats |-> 0]
PackageTable == [search |-> 1, info |-> 1, install |-> 1, remove |-> 1, demo |-> 0, setup |-> 0]
KernelTable ==
  [info |-> 0, load |-> 0, unload |-> 0, status |-> 0, log |-> 0, stack |-> 0, skbuff |-> 0,
   napi |-> 0]

\* A script without a name, and a chat without a side, come from a menu.
ShellTable ==
  [exec |-> 1, script |-> 0, env |-> 0, file |-> 0, cron |-> 0, time |-> 0, install |-> 0,
   monitor |-> 0]
SocketTable == [server |-> 1, client |-> 2, multi |-> 1, chat |-> 0, status |-> 0]
ChatTable == [host |-> 1, client |-> 2, demo |-> 0]
ScriptTable == [backup |-> 0, disk_usage |-> 0, show_date |-> 0]

\* shell_mgr_cron_execute and shell_mgr_time_execute look at one more word.
CronTable == [list |-> 0, show |-> 0, delete |-> 0, clear |-> 0, create |-> 0]
TimeTable == [show |-> 0, zone |-> 0, set |-> 0, sync |-> 0, autosync |-> 0]

Contexts == {"file", "process", "network", "socket", "package", "shell", "kernel"}

Table(t) ==
  CASE t = "file"    -> FileTable    [] t = "process" -> ProcessTable
    [] t = "network" -> NetworkTable [] t = "socket"  -> SocketTable
    [] t = "package" -> PackageTable [] t = "shell"   -> ShellTable
    [] t = "kernel"  -> KernelTable  [] t = "chat"    -> ChatTable
    [] t = "script"  -> ScriptTable
    [] t = "cron"    -> CronTable    [] t = "time"    -> TimeTable

-----------------------------------------------------------------------------
(* The palette, and the completions made from it.                           *)

Single(names) == {<<name>> : name \in names}

MainPalette == Single(Contexts \union {"cron", "time", "help", "exit"})
FilePalette ==
  Single({"create", "read", "write", "delete", "copy", "move", "rename", "info", "list",
          "mkdir", "chmod", "search", "archive", "back"})
ProcessPalette ==
  Single({"list", "info", "kill", "signal", "nice", "fork", "exec", "wait", "zombie",
          "orphan", "daemon", "siginit", "sigreset", "back"})
NetworkPalette ==
  Single({"list", "info", "config", "up", "down", "route", "ping", "dns", "stats", "back"})
SocketPalette ==
  Single({"server", "client", "multi", "status", "back"})
    \union {<<"chat", "host">>, <<"chat", "client">>, <<"chat", "demo">>}
PackagePalette == Single({"search", "info", "install", "remove", "demo", "setup", "back"})
ShellPalette ==
  Single({"exec", "env", "file", "cron", "time", "install", "monitor", "back"})
    \union {<<"script", "backup.sh">>, <<"script", "disk_usage.sh">>, <<"script", "show_date.sh">>}
KernelPalette ==
  Single({"info", "load", "unload", "status", "log", "stack", "skbuff", "napi", "back"})
CronPalette == Single({"list", "create", "delete"})
TimePalette == Single({"show", "zone", "set", "sync", "autosync"})

Palette(c) ==
  CASE c = "main"    -> MainPalette    [] c = "file"    -> FilePalette
    [] c = "process" -> ProcessPalette [] c = "network" -> NetworkPalette
    [] c = "socket"  -> SocketPalette  [] c = "package" -> PackagePalette
    [] c = "shell"   -> ShellPalette   [] c = "kernel"  -> KernelPalette
    [] c = "cron"    -> CronPalette    [] c = "time"    -> TimePalette

Templates == {<<name, package>> : name \in {"search", "info", "install", "remove"},
                                  package \in {"hello", "sl", "cowsay"}}

\* All that completion_callback offers in a context, for one beginning or another.
Completions(c) ==
  Palette(c)
    \union {t \in Templates : c = "package"}
    \union IF c # "main" THEN {}
           ELSE (UNION {{<<first>> \o rest : rest \in Palette(first)} :
                          first \in Contexts \union {"main", "cron", "time"}})
                  \union {<<"package">> \o t : t \in Templates}

-----------------------------------------------------------------------------
(* Lines.                                                                   *)

AsWords(names) == [i \in DOMAIN names |-> <<names[i]>>]

ArgLists == UNION {[1..n -> Word] : n \in 0..MaxGiven}

\* Bound: what users type, commands and words that are none.
Commands(c) ==
  IF c # "main" THEN Single(DOMAIN Table(c) \union {"back", "..", "nonsense"})
                       \union {<<"chat", side>> : side \in DOMAIN ChatTable \union {"--host"}}
  ELSE Single(Contexts \union {"cron", "time", "packet", "help", "exit", "nonsense"})
         \union (UNION {{<<first, name>> : name \in DOMAIN Table(first) \union {"nonsense"}} :
                          first \in Contexts \union {"cron"}})
         \union {<<"packet", "info">>, <<"socket", "chat", "--host">>}

Lines(c) == {AsWords(names) \o args : names \in Commands(c), args \in ArgLists}

\* A word of one symbol may be a name.
Name(word) == IF Len(word) = 1 THEN word[1] ELSE "no-name"

\* is_valid_command, for the first word of a slash line as strtok finds it.
IsValidCommand(c, name) ==
  IF c = "main" THEN name = "packet" \/ <<name>> \in MainPalette
  ELSE \E item \in Palette(c) : item[1] = name

\* Mutant of Understood: the slash goes to parser_tokenize with the line.
UnderstoodWithSlash(slash, first, line) ==
  IF slash /\ ~IsValidCommand(context, first) THEN <<>>
  ELSE Tokenize((IF slash THEN <<"/">> ELSE <<>>) \o line, MaxArgs)

\* A slash is taken off a valid command; else the palette is shown.
Understood(slash, first, line) ==
  IF slash /\ ~IsValidCommand(context, first) THEN <<>> ELSE Tokenize(line, MaxArgs)

-----------------------------------------------------------------------------
ReplInit ==
  /\ pc = "prompt" /\ told = "nothing"
  /\ interactive \in BOOLEAN
  /\ context = "main"
  /\ words = <<>> /\ offered = FALSE
  /\ argv = <<>> /\ command = Nameless /\ given = <<>>

\* repl_run, with a line that is neither empty nor an ESC.
ReadLine(line, means, slash, completed) ==
  /\ words' = means /\ offered' = completed
  /\ argv' = Understood(slash, IF line[1] = Quote THEN "no-name" ELSE Name(means[1]), line)
  /\ pc' = IF argv' = <<>> THEN "repl.end" ELSE "repl.route"
  /\ told' = IF argv' = <<>> THEN "palette" ELSE "nothing"
  /\ UNCHANGED <<interactive, context, command, given>>

TypeLine ==
  /\ pc = "prompt" /\ interactive
  /\ \E means \in Lines(context), quoted, slash \in BOOLEAN, gap \in {1, 2} :
       ReadLine(LineOf(means, quoted, gap), means, slash, FALSE)

CompleteLine ==
  /\ pc = "prompt" /\ interactive
  /\ \E names \in Completions(context), slash \in BOOLEAN :
       /\ slash => names \in Palette(context)
       /\ ReadLine(LineOf(AsWords(names), FALSE, 1), AsWords(names), slash, TRUE)

\* ESC and an empty line.
NoLine ==
  /\ pc = "prompt" /\ interactive
  /\ context' \in {context, "main"}
  /\ UNCHANGED <<pc, told, interactive, words, offered, argv, command, given>>

EndOfInput ==
  /\ pc = "prompt" /\ interactive /\ pc' = "quit"
  /\ UNCHANGED <<told, interactive, context, words, offered, argv, command, given>>

\* A slash in front of sysmgr's arguments is skipped.
Stripped(line) == IF line # <<>> /\ line[1] = "/" THEN Tail(line) ELSE line

\* main, with arguments: repl_execute_command.
DirectLine ==
  /\ pc = "prompt" /\ ~interactive
  /\ \E means \in Lines("main"), slash \in BOOLEAN :
       /\ words' = means
       /\ argv' = Tokenize(Stripped((IF slash THEN <<"/">> ELSE <<>>) \o JoinArguments(means)),
                          MaxArgs)
  /\ pc' = IF argv' = <<>> THEN "repl.end" ELSE "repl.route"
  /\ UNCHANGED <<told, interactive, context, offered, command, given>>

-----------------------------------------------------------------------------
(* route_and_dispatch and the dispatchers.                                  *)

Answers(what) ==
  /\ pc' = "repl.end" /\ told' = what
  /\ UNCHANGED <<context, command, given>>

\* The command waits for arguments that are missing, or is carried out.  The
\* direct mode of the sockets has defaults instead.
Prepare(table, name, args) ==
  LET asked == IF table \in {"socket", "chat"} /\ ~interactive THEN 0 ELSE Table(table)[name]
      some == IF Len(args) < asked THEN Len(args) ELSE asked
  IN /\ command' = [table |-> table, name |-> name]
     /\ given' = SubSeq(args, 1, some)
     /\ pc' = IF some < asked THEN "repl.ask" ELSE "repl.run"
     /\ UNCHANGED <<told, context>>

ChooseFrom(menu) ==
  /\ command' = [table |-> menu, name |-> "menu"]
  /\ pc' = "repl.menu"
  /\ UNCHANGED <<told, context, given>>

\* dispatch_*, for the name at the head of args.
Dispatch(table, args) ==
  LET name == Name(Head(args))
      rest == Tail(args)
      side == IF rest = <<>> THEN "none" ELSE Name(rest[1])
  IN IF name \notin DOMAIN Table(table) THEN Answers("unknown")
     ELSE IF <<table, name>> = <<"socket", "chat">>
     THEN IF ~interactive
          THEN IF side \in {"--host", "--client"} THEN Prepare(table, name, rest)
               ELSE Answers("unknown")
          ELSE IF side = "none" THEN ChooseFrom("chat")
          ELSE IF side \in DOMAIN ChatTable THEN Prepare("chat", side, Tail(rest))
          ELSE Answers("unknown")
     ELSE IF <<table, name>> = <<"shell", "script">> /\ rest = <<>> THEN ChooseFrom("script")
     ELSE IF table = "shell" /\ name \in {"cron", "time"} /\ rest # <<>>
             /\ side \notin DOMAIN Table(name)
     THEN Answers("unknown")
     ELSE Prepare(table, name, rest)

Switch(c) ==
  /\ context' = c /\ pc' = "repl.end" /\ told' = "switched"
  /\ UNCHANGED <<command, given>>

Route ==
  /\ pc = "repl.route"
  /\ UNCHANGED <<interactive, words, offered, argv>>
  /\ LET name == IF Name(argv[1]) = "packet" /\ context = "main" THEN "package" ELSE Name(argv[1])
     IN IF context # "main"
        THEN IF name \in {"back", ".."} THEN Switch("main") ELSE Dispatch(context, argv)
        ELSE IF name \in Contexts
        THEN IF Len(argv) = 1 THEN Switch(name) ELSE Dispatch(name, Tail(argv))
        ELSE IF name \in {"cron", "time"} THEN Dispatch("shell", argv)
        ELSE IF name = "help" THEN Answers("help")
        ELSE IF name = "exit"
        THEN pc' = "quit" /\ UNCHANGED <<told, context, command, given>>
        ELSE Answers("unknown")

-----------------------------------------------------------------------------
Unprompted == UNCHANGED <<interactive, context, words, offered, argv>>

\* The answers of ui_select_menu: an entry, or none.
MenuAnswer ==
  /\ pc = "repl.menu" /\ Unprompted
  /\ \/ /\ pc' = "repl.end" /\ told' = "cancelled" /\ UNCHANGED <<command, given>>
     \/ \E entry \in DOMAIN Table(command.table) :
          /\ command' = [command EXCEPT !.name = entry]
          /\ pc' = IF Table(command.table)[entry] > 0 THEN "repl.ask" ELSE "repl.run"
          /\ UNCHANGED <<told, given>>

\* get_arg_or_prompt when the argument is not on the line: an answer; none; or
\* ESC.  The sockets go on with their default when there is none.
Ask ==
  /\ pc = "repl.ask" /\ Unprompted
  /\ LET Take(word) ==
           /\ given' = Append(given, word)
           /\ pc' = IF Len(given') < Table(command.table)[command.name] THEN "repl.ask" ELSE "repl.run"
           /\ UNCHANGED <<told, command>>
         Cancel == pc' = "repl.end" /\ told' = "cancelled" /\ UNCHANGED <<command, given>>
     IN \/ \E word \in Word \ {<<>>} : Take(word)
        \/ command.table \in {"socket", "chat"} /\ Take(Default)
        \/ Cancel

\* The operation itself, which the module of its manager describes.
Run ==
  /\ pc = "repl.run" /\ Unprompted
  /\ pc' = "repl.end" /\ told' = "carried-out"
  /\ UNCHANGED <<command, given>>

\* The line is freed, and the next prompt shown; the direct mode is over.
LineDone ==
  /\ pc = "repl.end"
  /\ pc' = IF interactive THEN "prompt" ELSE "quit"
  /\ told' = "nothing"
  /\ words' = <<>> /\ offered' = FALSE
  /\ argv' = <<>> /\ command' = Nameless /\ given' = <<>>
  /\ UNCHANGED <<interactive, context>>

ReplCommands == Route \/ Run \/ LineDone

ReplUser == TypeLine \/ CompleteLine \/ NoLine \/ EndOfInput \/ DirectLine \/ MenuAnswer \/ Ask

ReplNext == ReplUser \/ ReplCommands

ReplSpec == ReplInit /\ [][ReplNext]_replVars

-----------------------------------------------------------------------------
\* The variables have their types.
ReplTypeOK ==
  /\ pc \in {"prompt", "repl.route", "repl.menu", "repl.ask", "repl.run", "repl.end", "quit"}
  /\ context \in Contexts \union {"main"}
  /\ Len(argv) <= MaxArgs
  /\ interactive \in BOOLEAN /\ offered \in BOOLEAN

Plain(word) == word # <<>> /\ ~Contains(word, Space) /\ ~Contains(word, Quote)

\* The words of a line are the words that the user means, up to MaxArgs, with
\* their spaces and also when they are empty, however many spaces and quotation
\* marks are between and around them (but none in them), behind a slash or not;
\* in direct mode, where the words are joined and split again, as long as they
\* are plain; and an operation runs with an empty argument only if that was typed
\* (parser_tokenize, repl_run, get_arg_or_prompt).
TokensAsQuoted ==
  /\ argv # <<>> /\ (\A i \in DOMAIN words :
                       IF interactive THEN ~Contains(words[i], Quote) ELSE Plain(words[i])) =>
       argv = SubSeq(words, 1, IF Len(words) < MaxArgs THEN Len(words) ELSE MaxArgs)
  /\ pc = "repl.run" => \A i \in DOMAIN given : given[i] = <<>> => Contains(argv, <<>>)

\* What completion offers is never called unknown, in whatever context it is
\* offered, except at the main prompt "back" behind the name of a context, and
\* all that it offers behind the word "main", which is the name of a section of
\* the palette and no command (completion_callback, is_valid_command, dispatch_*).
CompletionsKnown ==
  offered => \/ told \notin {"unknown", "palette"}
             \/ /\ context = "main" /\ Len(words) > 1
                /\ words[1] = <<"main">> \/ words[2] = <<"back">>
===============================================================================
