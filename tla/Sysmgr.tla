---------------------------------- MODULE Sysmgr ----------------------------------
(***************************************************************************)
(* The program on its one thread: every manager begins its operations at   *)
(* the prompt, leaves the worlds of the others alone, and comes back to    *)
(* the prompt.  Since no two managers share more than that, a session with *)
(* one of them, however long, stands for all of them.                      *)
(***************************************************************************)
EXTENDS KernelModule, ProcessManager, Crontab, ClockSync, Environment, Packages,
        Files, Network, Menus, Repl

VARIABLE part \* bound: the part of sysmgr that the session is with

Parts == {"kernel", "process", "cron", "clock", "environment", "packages", "files",
          "network", "menus", "repl"}

kernelWorld == <<loaderVars, twin, ko, seen, logVars>>
processWorld == <<tableVars, arg, query, listVars, stat, current, lived, hit>>
cronWorld == <<crontab, job, copy, editVars>>
clockWorld == <<tools, clock, ntp, asked, date, setby, trusted>>
envWorld == <<terminal, eof, env, nameBuf, valBuf, named, typed, dropped>>
packageWorld == <<pm, dbVars, pkg, present, wanted, clash>>
filesWorld == <<fs, op, before, io>>
networkWorld == <<link, iface, listing>>
menuWorld == <<open, selected, escape, gone, picked, ran>>
replWorld == <<interactive, context, words, offered, argv, command, given>>

vars == <<pc, told, part, kernelWorld, processWorld, cronWorld, clockWorld, envWorld,
          packageWorld, filesWorld, networkWorld, menuWorld, replWorld>>

\* Only the part of the session begins in all the ways there are.
Init ==
  /\ part \in Parts
  /\ KernelInit /\ (part # "kernel" => ~Listed /\ ~twin /\ ko)
  /\ ProcessInit /\ (part # "process" => born = {})
  /\ CronInit /\ (part # "cron" => crontab = {})
  /\ ClockInit /\ (part # "clock" => tools = {} /\ ntp = "on")
  /\ EnvInit /\ (part # "environment" => terminal /\ \A n \in EnvNames : env[n] = Unset)
  /\ PackageInit /\ (part # "packages" => pm = "apt" /\ installed = {})
  /\ FilesInit
  /\ NetworkInit /\ (part # "network" => \A n \in Names : link[n] = "up")
  /\ MenuInit
  /\ ReplInit /\ (part # "repl" => interactive)

\* A step of part p leaves the worlds of the others alone.
Within(p) ==
  /\ part = p /\ UNCHANGED part
  /\ p # "kernel" => UNCHANGED kernelWorld
  /\ p # "process" => UNCHANGED processWorld
  /\ p # "cron" => UNCHANGED cronWorld
  /\ p # "clock" => UNCHANGED clockWorld
  /\ p # "environment" => UNCHANGED envWorld
  /\ p # "packages" => UNCHANGED packageWorld
  /\ p # "files" => UNCHANGED filesWorld
  /\ p # "network" => UNCHANGED networkWorld
  /\ p # "menus" => UNCHANGED menuWorld
  /\ p # "repl" => UNCHANGED replWorld

Next ==
  \/ Within("kernel") /\ KernelNext
  \/ Within("process") /\ ProcessNext
  \/ Within("cron") /\ CronNext
  \/ Within("clock") /\ ClockNext
  \/ Within("environment") /\ EnvNext
  \/ Within("packages") /\ PackageNext
  \/ Within("files") /\ FilesNext
  \/ Within("network") /\ NetworkNext
  \/ Within("menus") /\ MenuNext
  \/ Within("repl") /\ ReplNext

-----------------------------------------------------------------------------
\* Where sysmgr reads what can never come, again and again.  Bound: of the menus
\* that an operation shows, only the environment's may lose its terminal.
Spinning == (pc = "env" /\ eof) \/ (pc = "menu" /\ gone /\ escape = "no")

\* Where sysmgr waits for its user, or is no more.
Waiting ==
  \/ pc \in {"prompt", "quit", "info.offer", "time.set",
             "env.query", "env.set", "env.value", "env.remove",
             "net.ask", "net.config", "net.config.address", "net.link", "net.link.mode",
             "net.ping", "net.dns", "repl.menu", "repl.ask"}
  \/ pc = "env" /\ ~eof
  \/ pc \in {"menu", "menu.pause"} /\ ~gone

\* The steps of sysmgr and of the programs it has started.
Work ==
  /\ ~Waiting
  /\ \/ Within("kernel") /\ KernelCommands
     \/ Within("process") /\ ProcessCommands
     \/ Within("cron") /\ CronCommands
     \/ Within("clock") /\ ClockCommands
     \/ Within("packages") /\ PackageCommands
     \/ Within("files") /\ FilesCommands
     \/ Within("network") /\ NetworkCommands
     \/ Within("menus") /\ MenuCommands
     \/ Within("repl") /\ ReplCommands

\* The thread is scheduled, the programs end or are killed, and the kernel's
\* loader ends what it has begun; of the user and of others nothing is said.
Fairness == WF_vars(Work) /\ WF_vars(Within("kernel") /\ KernelWork)

Spec == Init /\ [][Next]_vars /\ Fairness

-----------------------------------------------------------------------------
\* The variables of the part in session have their types.
TypeOK ==
  /\ part \in Parts
  /\ part = "kernel" => KernelTypeOK
  /\ part = "process" => ProcessTypeOK
  /\ part = "cron" => CronTypeOK
  /\ part = "clock" => ClockTypeOK
  /\ part = "environment" => EnvTypeOK
  /\ part = "packages" => PackageTypeOK
  /\ part = "files" => FilesTypeOK
  /\ part = "network" => NetworkTypeOK
  /\ part = "menus" => MenuTypeOK
  /\ part = "repl" => ReplTypeOK

\* What a menu shows and what completion offers is what runs (the two tables of
\* every menu in *_mgr_run, and the three of the command line: palette_items,
\* is_valid_command and the dispatchers).
OfferedIsRun == LabelsRun /\ CompletionsKnown

\* Every operation comes back to the user, whatever its programs answer and
\* others do meanwhile: no operation waits for a program that waits for it, as
\* file_mgr_read would if it waited for cat before it closed the pipe, and none
\* is kept busy for ever - but for two loops that go on when their input has
\* ended: the environment's menu (shell_mgr_env_run), and a menu that waits for a
\* key of a terminal that is gone (ui_select_menu).
CommandReturns == ~Waiting ~> (Waiting \/ Spinning)
===============================================================================
