# TLA+ models and proofs of sysmgr

`sysmgr` (C, Linux) is an interactive system manager: a menu and a command
line over modules for processes, sockets, files, packages, the network, the
shell's environment and a kernel module. This directory specifies the servers and
process demos, in which several threads, processes or machines act at once, and
the managers, the command line and the menus, which act one at a time on a system
that others change meanwhile. TLC checks the models on small instances, and TLAPS
proves what matters most for every instance.

## 1. The system

| component | source | state it keeps | operations | interacts with |
|---|---|---|---|---|
| multi-client echo server | `modules/socket/socket_multi_server.c` | a listener; one `session_t` per connection on the heap; descriptors | set-up, accept loop, detached `session_worker` threads | clients over TCP |
| two-way chat | `modules/socket/socket_server.c`, `socket_client.c` | per process: `input_buffer`, `input_len`, `orig_termios`, `disconnected_printed`, descriptors, the screen | main thread reads keys and sends; receiver thread shows and ends the process | the two processes over TCP, a user each |
| socket menu | `modules/socket/socket_mgr.c` | none | starts the programs above in terminals | terminal launcher |
| terminal launcher | `common/terminal_launcher.c` | children in the process table | `terminal_open` | kernel |
| process demos | `modules/process/demo/{fork,exec,wait,zombie,orphan}_demo.c` | children in the process table | one command each | kernel, terminal launcher's children |
| daemon demo | `modules/process/demo/daemon_demo.c` | the pid file, the daemon process, its signal flag | double fork, write pid file, SIGTERM, checks | kernel, file system |
| process manager | `modules/process/process_mgr.c` | none (reads `/proc`) | list, search, signal, renice | the kernel's process table |
| kernel module manager | `modules/kernel/kernel_mgr.c` | none (reads `/proc/modules`, `lsmod`, `dmesg`) | build and load, unload, information, status, log | the module loader, `system_monitor`, others with root's rights |
| `system_monitor` | `kernel/system_monitor/system_monitor.c` | `/proc/sysmgr` | init, exit, read | kernel |
| shell manager | `modules/shell/shell_mgr.c`, `shell/autosync.sh` | its environment; the user's crontab; the clock | set, remove and show variables; add and delete cron jobs; set and synchronise the clock | crontab and its other editors, `date`, chronyc, ntpdate, timedatectl |
| package manager | `modules/package/package_mgr.c`, `shell/program.sh` | none | search, information, install, remove, demo, setup | apt or dnf and their database, another administrator |
| file manager | `modules/file/file_mgr.c`, `shell/file.sh` | none | thirteen operations by a script, one of them through a pipe | the file system |
| network manager | `modules/network/network_mgr.c` | none | list, information, configure, up, down, route, ping, dns, statistics | interfaces and routes of the kernel |
| command line | `cli/{repl,parser,palette,autocomplete}.c`, `app/main.c` | a context, the history file | read, complete, tokenize, dispatch, ask for missing arguments | every manager |
| menus | `app/main.c`, `cli/ui.c`, every `*_mgr_run` | the menus entered, the option highlighted | read a key, run an option | every manager |
| logger, helpers | `modules/core` | the log file | append a line | every module |

What is hard, component by component, and what makes each correct:

* **Echo server.** Threads come and go while descriptor numbers are used again;
  `accept`, `malloc` and `pthread_create` fail; `recv` and `send` are partial and
  block; clients close, abort and reset. Correct when each worker serves its own
  client, no path leaks a descriptor or a session, an orderly connection loses no
  byte, and everything is released when the clients are gone.
* **Chat.** Two threads share an input line, the terminal and a descriptor, and
  either may end the process. Correct when each screen shows the other's words
  in order and to the end, as far as the code does not cut them off, the end is announced once, both processes leave when
  one does, the terminal is restored, and the prompt shows what is in the buffer.
* **Process demos.** All share one process table; terminals are never waited for.
  Correct when each demo reaps its own child whatever else ends meanwhile, and
  returns.
* **Daemon demo.** The pid file is stale, empty or not there yet when it is read;
  the signal comes before its handler. Correct when a daemon that was started is
  stopped and only that one is signalled.
* **Process manager.** A listing takes three system calls per process while
  processes end, start, and take over numbers; a signal is sent by number after the
  name was read; `getpriority` returns -1 for an error and for a nice value.
  Correct when who lives all through a listing is in it once, a signal reaches who
  was named as long as he is there, and "not found" is never said of a process
  that was there all the time.
* **Kernel module manager.** Two looks that may disagree or fail, then insmod or
  rmmod, then a look at the file, while others do the same. Correct when each answer
  was true at some moment of the operation or a look has failed, and the log shows
  the last lines, in order.
* **Crontab.** A pipeline reads and replaces what others edit. Correct when nothing
  but an overlap can lose a task.
* **Clock.** A chain of sources, any of which fails, or gives a wrong date. Correct
  when the exit code agrees with the clock.
* **Environment.** Uninitialized buffers, prompts left by Ctrl-C or ESC, the end of a
  pipe. Correct when a variable is changed only when it was named, and to what was typed.
* **Packages.** A demo in four steps beside another administrator, and removals that
  take dependents and idle dependencies along. Correct when nothing goes that
  anybody has asked for by name, and critical packages stay.
* **Files.** Programs that fail half-way, ask a question, or take a name for an
  option; a pipe that is closed before its writer is done. Correct when "done" is the
  truth, and nothing else is touched.
* **Network.** Tables of fixed size; interfaces that come and go. Correct when each
  interface is listed once and the routes are the kernel's.
* **Command line and menus.** Quotes, limits, five tables that must agree. Correct
  when the words that run are the words that were meant, what is offered is what
  runs, and every operation comes back, also at the end of the input.

`PROJECT.json` lists every component with its status, and every hazard with its
line and the properties that would show it going wrong.

## 2. The modules

| module | what it is |
|---|---|
| `EchoStreams` | abstract: each client reads back its own stream |
| `ByteStreams` | the order of the places a byte passes through |
| `EchoServer` | the server, its descriptors and heap, and TCP as its calls see it |
| `StreamLemmas` | lemmas about concatenation, prefixes and suffixes of sequences |
| `EchoServerProofs` | types, ownership of descriptors and sessions, fidelity of the streams, refinement of `EchoStreams` |
| `ChatChannels` | abstract: each screen shows what the other said piece by piece and in order, each piece up to its first CR |
| `Chat` | both chat processes, two threads each, and their connection |
| `ChatProofs` | types, one farewell, every word shown, refinement of `ChatChannels` |
| `ProcessDemos` | five demos and `terminal_open` on one process table |
| `ProcessDemosProofs` | types, children reaped, zombie removed |
| `Daemon` | the daemon demo, run again and again by one `sysmgr`, with its pid file |
| `DaemonProofs` | types, SIGTERM goes to the demo's own daemon |
| `Prompt` | what the managers share: `pc`, the position of the one thread, and `told`, its last answer |
| `ProcessManager` | listing, search, signals and nice values over a changing process table |
| `KernelModule` | the kernel module manager, `system_monitor`'s life in the loader, the log's ring |
| `Crontab`, `ClockSync`, `Environment` | the shell manager: cron, time with `autosync.sh`, environment |
| `Packages` | `program.sh` on the database of apt or dnf |
| `Files` | `file.sh` on a tree, and the pipe of a read |
| `Network` | interfaces and routes |
| `Parser`, `Repl` | the tokenizer, and the command line with its palette, completion and dispatchers |
| `Menus` | classic mode, key by key |
| `Sysmgr` | the managers, the menus and the command line as one program |
| `ManagerProofs` | crontab, clock, environment, packages, processes, kernel module: types and safety |
| `DataProofs` | files, network, menus, command line, kernel log: the parts whose correctness is in trees, lists and loops |
| `SysmgrProofs` | sessions of `Sysmgr` are behaviours of its managers, with their theorems |
| `MC*` | the instances TLC checks (symmetry sets, the word "exit") |

### EchoServer

A client connects once, so that a connection, its worker and its `session_t` all
bear the client's name. `main` is the program counter of
`socket_mgr_multi_server_start` (set-up, then `accept`, `malloc`, `create`,
`detach`), `mconn` and `mfd` its locals. `fdTable` is the process's descriptor
table, the lowest free number first, used again as soon as it is closed: a worker
reaches its connection only through the number in its local `wfd`, as in the
code. `heap[c]` is the `client_fd` of an allocated session. `wpc[c]` is the
worker: `start` (copy the session), `recv`, `send`, `shutdown`, `close`, `free`,
`done`; `buf[c]` what it received and has not sent yet.

Each system call is one action per outcome: `RecvData` (any non-empty part of
what waits), `RecvEof`, `RecvError`; `SendCopies` (as much as the peer's buffer
has room for; `send` blocks when there is more), `SendReturnsShort` (an error
after some bytes were copied; the code takes the short count for success),
`SendFails`, `WorkerSigpipe`. TCP is external: a FIN follows the bytes before
it; a client that closes with unread data, or to which data is sent after it has
closed, answers with a reset; a reset drops what waits to go out to the client,
leaves what has come in, and fails the next call with ECONNRESET, or with EPIPE
after a FIN. A
`send` that has copied nothing and finds EPIPE pending raises SIGPIPE, which ends
the process. `Sigint` is Ctrl+C.

### Chat

The functions indexed by `p \in {"host", "client"}` are the two processes.
`main[p]` and `rcv[p]` are the two threads. What a thread does while it holds
`input_mutex` is one action: the sections do not block, and outside them the
threads interleave. The model keeps the double critical section of sending a line
(`ShowOwnLine`, `ResetInput`), the `disconnected_printed` test of the client,
the start of the receiver before the terminal is set, and every path on which a
thread shuts, closes, restores and exits. `line[p]` is the last line of the
terminal without its prompt. Standard input is a terminal (`Terminal`) or a pipe,
which the code reads by `fgets`; the host cuts a line of its pipe at the first CR
or LF, the client at the LF only (`Fgets`), so that it can send a CR. Words are
sequences of model characters, sent and received as a stream: a `recv` returns any
non-empty prefix of what waits. The receiver takes the text before the first CR
(`Text`), compares it with "exit" and shows it, as the code does: glued or cut lines
are not recognised, and what comes behind a CR in one `recv` is never shown. `heard`
(history) is all that was received, `shown` what the user has seen of it.

### ProcessDemos

`proc` is the kernel's table: per number a state, what the process was forked
for, where it is in its own code and who its parent is. `cmd`, `at` and `kid`
are sysmgr: which demo runs, where in it, and the pid its fork returned. `sleep`
orders nothing: a process can be held up for any time between two steps. The one
exception is in the program's favour: the grandchild's four seconds are taken to
be enough for a parent that has only to exit (`GrandchildCompares`). A number is
used again as soon as its entry is free, by sysmgr's descendants or by the
processes of other programs (`OtherForks`, `OtherEnds`), also between `waitpid` and
the second look of the zombie demo; `again` says whose process that look has found. `fork` may fail; the code then returns
without any change of state (the demo's parent `P` exits).

### Daemon

The same kernel, with a process table of its own: `sysmgr` (`at`, `ctrl`,
`target`, that is `ctrl_pid` and `d_pid`), the controller, the session leader and
the daemon of each demo, and processes of others that draw on the same numbers.
`file` is `logs/daemon.pid`: absent, empty, or the number in it. The leader opens
it (`LeaderOpens`, which truncates) and writes it (`LeaderWrites`) in two steps, and
every call may fail. Only `waitpid` orders the processes, and it waits for the
controller, which does not wait for the leader: `sysmgr`'s one second of sleep is
no guarantee, so that a late leader may write the file in the middle of the next
demo. SIGTERM sets the flag of a daemon that has installed its handler and ends
any other process; a process of somebody else may also be out of `sysmgr`'s reach.
`at` in a daemon's record is "term" once its flag is set. A heartbeat changes the
log only and is no step. The look into `/proc` and what is printed of it change
nothing; `Unlink` stands for them and for the removal of the file.

Two history variables, which no step tests, make the property sayable: `born` is
the daemon forked last in the current demo, and `doubt` is true when an earlier
demo has left a pid file (it was interrupted, or gave up before its leader had
written, or could not read the file) or a leader that is still at work, or when the
current demo's leader is not done as the file is read.

### The managers

The ten modules from `ProcessManager` to `Menus` (`Parser` has operators only)
share two variables, those of `Prompt`, and are otherwise separate: `sysmgr` has
one thread, every operation starts at `pc = "prompt"` and ends there with an
answer in `told`. In between, `pc` names the system call or program that comes next, so that
others can act between any two of them. Each module states what is external, and
what the others can do: end and start processes, load and unload the module, edit
the crontab, install packages, take interfaces away. What a manager's functions
keep in locals (`arg`, `batch`, `job`, `pkg`, `iface`, ...) is a variable while the
operation lasts. A program that is run and judged by its exit code is one step
with each of its outcomes, those included in which it fails after it had an
effect; the scripts of the repository are modelled step by step
(`autosync.sh`, the demo of `program.sh`) or operation by operation (`file.sh`).

* `ProcessManager`: `table[n]` is the process with number n. `ReadDirectory` gives
  some numbers in use, in order, and all up to the last of them, as the kernel's
  `/proc` does; `ListStat` and `ListCmdline` read two files, possibly of two
  processes. `lived[n]` (history) is everybody who has had n since the operation
  began, None among them when n was free.
* `KernelModule`: the loader's states "coming" and "going" are those in which
  `monitor_init` and `monitor_exit` run and `/proc/modules` lists the module
  already and still. A look at `/proc/modules` or at lsmod's output may fail, or miss
  the name (`Missed`), as may the opening of `/proc/sysmgr`: the code goes on as if
  nothing were there. `seen` (history) is what has been the case, and which looks have
  missed the module, since the operation began; `Explains` says for each answer what
  must have been. `Ring` is
  the ring buffer of `run_dmesg_filtered`.
* `Crontab`: `copy` is in the pipeline, `edit` in the other editor; `merged`
  (history) is what the changes, each made at once, would have made of the table.
* `ClockSync`: `autosync.sh` from its first server to its exit code. A server's date
  is near the time or wrong, and if wrong, in 2026 or later, or older, which is all
  that the script looks at in the end. `Chrony` is believed when `chronyc tracking`
  prints nothing, as the script does. `trusted` (history) is whose word the script has
  ended with.
* `Environment`: `nameBuf` and `valBuf` begin with anything and keep what the end of
  a pipe leaves in them. On a terminal a prompt is answered by a line, by ESC, which
  linenoise gives as a line of one character (`Escaped`), or by Ctrl-C or Ctrl-D,
  which empty the buffer (`Cancelled`). What the user has asked for is kept apart from
  the buffers: `named`, `typed` and `dropped` (history) follow the answers given.
* `Packages`: `Needs` is transitive; a removal takes what depends on the package and,
  with dnf, may take the dependencies that nobody has asked for and nobody needs any
  longer (`Removals`, by dnf's own notes, `auto`), whether or not they were there
  before; apt keeps configuration files (`conf`), for which `dpkg -s` still succeeds.
  `present` and `wanted` (history) are what was there when the operation began or came
  by others since, and what of it was asked for by name.
* `Files`: `fs` maps each path to what is there and whether it may be written.
  `before` is the tree when the operation began. A path that begins with a dash is
  taken for an option (`Misread`), mv asks before it replaces what may not be written
  (`Asks`), and in both cases nothing may happen and the exit code be 0. A read is a
  small machine of its own: cat, the pipe, and a buffer.
* `Network`: `Entries` is the order of `getifaddrs`; `Parse` reads the table in the
  byte order in which the kernel prints it.
* `Repl`: a line is a sequence of symbols (a space, a quotation mark, a name, or any
  other), the user's words and how they are typed are chosen, and `Tokenize`
  is the automaton of `parser_tokenize`; the direct mode drops a slash in front of
  the joined line first (`Stripped`). Completion offers the palette's
  commands; the dispatchers are tables with the number of arguments asked for.
* `Menus`: `Options` are the labels on the screen, `Runs` the numbers that the
  managers compare with; `ReadByte` is `ui_select_menu` with its escape sequences. The
  terminal may go while `sysmgr` stays (`HangUp`): a menu that is to be shown then
  returns at once (`NoMenu`), one that waits for a key reads again and again.

`Sysmgr` is all of them: the next step is one of the part in session, within its
own world. A session stays with one part (`part`, a bound): the worlds are
disjoint, so that sessions with two managers are interleavings of operations that
neither see nor change each other's state. `SysmgrProofs` makes use of just that.

## 3. What TLC checks

| run | bounds | what it shows |
|---|---|---|
| `echo_safety` | 2 clients, 2 byte values, 2 bytes each, `recv` of up to 2, 1 byte of kernel buffer, 2 descriptors, backlog 1 | `OwnConnection`, `NoLeakedFd`, `SessionOwned`, `NothingLost`, `EchoedBeforeClose`; the server implements `EchoStreams` (`EchoSpec`) |
| `echo_live` | 2 clients, 1 byte value, 2 bytes each, 1 descriptor, backlog 0 | `TypeOK`, `EveryByteEchoed`, `AllReleased` |
| `echo_sigpipe` | 1 client | violation of `NeverSigpipe` |
| `chat` | the host at a terminal, the client on a pipe; two characters and CR, lines of 1 character, the host says 1 and the client 2 | `TypeOK`, `ToldOnce`, `EverythingShown`; `Chat` implements `ChatChannels` (`ChatSpec`) |
| `chat_live` | one character each | `BothLeave` |
| `chat_terminal` | one character each | violation of `TerminalRestored` |
| `chat_prompt` | two characters each | violation of `TypedTextShown` |
| `demos` | 3 process numbers | `TypeOK`, `ChildrenReaped`, `ZombieRemoved`, `EveryDemoEnds`, `OrphanGone` |
| `daemon` | 3 process numbers | `TypeOK`, `OwnDaemon`, `DemoReturns`, `DaemonStops` |
| `sysmgr` | see below | `TypeOK` and sixteen properties, listed below |
| `demo_wait` | 2 process numbers | violation of `WaitedForOwnChild` |
| `demo_orphan` | 2 process numbers | violation of `AdoptionDetected` |

Why the bounds are enough. Two clients on two descriptors give every
interleaving of a worker that closes a number with a main thread that gets it
from `accept`; two bytes over a buffer of one make `send` block half-way, and
`recv` return one byte or two; one descriptor for two clients makes `accept`
fail and recover. In the chat two characters of the client's are enough for a line
to be glued to "exit" or to a CR in front of it, and one of the host's for a message
to arrive between the two critical sections of sending one; which side says more
is immaterial, for both receivers are the same actions with another `p`, and the
proofs hold for any number. Three process numbers hold a terminal, a demo's child and a
grandchild, or two terminals that end in either order while a demo waits. Three
also hold the controller, leader and daemon of one demo, or a daemon of an earlier
demo, a late leader and the next controller; a fourth number changed nothing in
what is safe (`DaemonInv` was checked on four).

What `sysmgr` checks, all in the interleavings with the others of each module:

| property | what it shows |
|---|---|
| `ListingComplete`, `SignalReachesNamed`, `NotFoundMeansGone` | listings, signals and "not found" are right although numbers change hands in between |
| `OutcomeExplained`, `LastLinesShown` | each answer of the kernel module manager was true during its operation, unless both looks or the opening of the file have failed; the log's ring keeps the last lines |
| `OnlyClashesLoseJobs` | only overlapping changes, or a failed `crontab -l`, lose a task |
| `ExitCodeTellsClock` | `autosync.sh`'s exit code agrees with the clock, but for a wrong date that chronyc's silence or the year has passed |
| `EnvironmentAsTyped` | no prompt acts on an earlier name or value left in the uninitialized buffers, nor on another variable; one left without a value empties its own, or sets it to an ESC |
| `DemoKeepsOthers`, `CriticalKept` | the package demo takes nothing that was asked for by name; refused names stay, but go with what they need or, never asked for, with the last that needed them |
| `SuccessMeansDone` | what a file operation reports is so, apart from options, mv's question and echo's "-n"; and nothing else has changed |
| `InterfacesListedOnce`, `RoutesShown` | the tables of fixed size list each interface once and the kernel's routes |
| `TokensAsQuoted`, `OfferedIsRun` | the words meant are the words run; what menus and completion offer is known and is what runs |
| `CommandReturns` | every operation comes back to its user, but for two loops at the end of the input (`Spinning`) |

The run `sysmgr` has 2 process numbers and 3 processes, so that a number is used
again and its second owner may be out of reach; 3 tasks, one of which crontab
refuses; 2 servers; 2 variables and 1 value, and the ESC as either; 4 packages, of which one
is critical and needed by another, and three need the fourth; the paths a, d, d/a and
--help; a buffer of 4 and a pipe of 3 for
files of 0, 1, 2 and 5 bytes, so that a file fits, or fills pipe and buffer; 3
interfaces with a table for 2 names; 2 routes kept of up to 3; a ring of 2 lines
under a log of up to 3, so that the ring wraps; 3 words kept of up to 5 on a line,
empty ones and ones with a space among them. Parts other than the one in session
stay in one initial state.

Deadlock is not checked: each system may stop. The server's process may have
ended, both chat processes have left, a table whose numbers are all held by
zombie terminals lets nobody fork, nor does one held by running daemons that no
pid file names any more, and `sysmgr` itself may
quit. What must not stop is stated by the liveness properties instead. Symmetry under permutation of clients or of process numbers
is used in `echo_safety` only, whose properties are safety properties.

### Fairness

Weak fairness of threads and processes (they are scheduled), of TCP (it delivers
what it holds) and of `init`. In the echo server, clients that keep a connection
open read from it: without it `send` may block for ever, and rightly. Nothing is
assumed of users: nobody has to type, connect, close, pick a command, close a
terminal, or end a process that is not `sysmgr`'s. `EveryByteEchoed` therefore excuses clients that have closed, and
`AllReleased` begins where all have closed. Weak fairness suffices because a
thread's step, once enabled, stays enabled until the thread moves: `accept` that
fails for want of a descriptor is a step too (the loop spins), and a worker gives
its descriptor back without help from the main thread.

In `Sysmgr` it is the program's own step (`Work`) that is fair, and the kernel's
loader, which ends what it has begun. Where the program waits for its user
(`Waiting`) nothing is assumed. A menu whose input has ended is not waiting: it goes
round for ever (`Spinning`), which `CommandReturns` names as the two places where an
operation may stay. Nothing is assumed of the others who change the system either: that
`CommandReturns` holds although they may act for ever between any two steps rests
on each operation having a bound of its own. A program that is run is taken to
end, which is the one assumption that the code does not enforce: it has no
time limit for any of them.

### What the code does and its documents say otherwise

* `NeverSigpipe`: `send` (`socket_multi_server.c:48`) has neither MSG_NOSIGNAL nor
  an ignored SIGPIPE; `docs/socket/socket.md:84` says that EPIPE is caught.
* `TerminalRestored`: the receiver thread starts before the terminal's mode is
  saved and set (`socket_server.c:191` and `205`), and may end the process in
  between; a SIGPIPE leaves it raw as well. `docs/socket/socket.md:181`.
* `TypedTextShown`: a sent line is shown and then removed from `input_buffer` in
  two critical sections. `docs/socket/socket.md:291`.
* `WaitedForOwnChild`: the wait demo's `wait` takes any child, also a terminal that
  was closed. `docs/process/process.md:283`.
* `AdoptionDetected`: the grandchild may ask for its "original" parent after that
  one has exited. `docs/process/process.md:314`.

Met while modelling, and kept in the models as the code has it, without a run of
their own:

* `setpriority` takes the nearest nice value and the screen shows the one asked for
  (`process_mgr_set_priority`); `siginit` and `sigreset` only write a log line,
  where `cli/palette.c:57` speaks of handlers.
* Deleting the crontab reports success whatever `crontab -r` answered
  (`CronDelete`).
* A chat receiver cuts what `recv` returned at the first CR (`socket_server.c:84`,
  `socket_client.c:85`), and a client on a pipe sends one for each line that ends with
  CR LF (`socket_client.c:262`): what arrives glued behind it is never shown, and its
  "exit\r" ends the host, while the client does not take it for "exit" itself (`Recv`).
* The zombie demo says that its child still exists (`zombie_demo.c:159`) when another
  program has been given the number since (`LookAgain`).
* "Not loaded" is also the answer when `/proc/modules` cannot be opened and lsmod
  cannot be run, or when `/proc/sysmgr` cannot be opened (`OutcomeExplained` excepts it).
* `autosync.sh` may leave NTP switched off; it believes chrony when its daemon does
  not answer, and a wrong date in 2026 or later for its year: `ExitCodeTellsClock` says
  nothing of NTP and excepts just these two.
* ESC at a prompt of the environment menu does not cancel it: `setenv` runs with a
  name or a value of one ESC. A value that is not given, by Ctrl-C, Ctrl-D or ESC,
  still overwrites the variable (`AskValue`).
* The environment menu, on a pipe that has ended, acts on an earlier name and then
  shows itself for ever: `sysmgr shell env` from a script (`shell_mgr.c:100`); and a
  menu whose terminal goes while it waits for a key tries to read it for ever
  (`ui.c:187`).
* `setup` installs packages that `install` refuses. A critical package can go with
  the removal of something it needs and, by dnf's cleaning, of the last that needed it
  (`CriticalKept` excuses both). The demo, too, may take idle dependencies that were
  there before it (`DemoKeepsOthers`).
* The file manager reports success for a path that the program takes for an option,
  and when its user has told mv not to replace a file (`Misread`, `Declined`).
* `write` of "-n" or "-e" leaves the file empty, `echo` taking it for an option
  (`Written`); a read that fills the buffer ends with a script killed by SIGPIPE,
  and is reported as a failure (`CatEnds`).
* The direct mode joins its arguments and splits them again at spaces
  (`DirectLine`); an empty argument in quotes is taken from the line, though not at
  the prompt.
* Completion offers "back" behind the name of a context, and commands behind
  "main", that no dispatcher knows (`CompletionsKnown` excuses them).
* After a single ESC a menu takes the next two keys for the rest of an arrow, and
  loses them if they are none (`ReadByte`).

## 4. What is proved

The theorems hold for every value of the constants that satisfies the named
assumptions of their modules (natural bounds, buffers that are not empty, special
values that are no client and no process number, needs that are transitive, paths
closed under their beginnings, candidates of the package demo that the script's
patterns do not refuse, as in `program.sh:121`). Every invariant and every
refinement that a passing run checks is a theorem; what is left to TLC is liveness.

**Echo server.** `Typing` is `TypeOK`, by a step per action. `OwnConnection`,
`NoLeakedFd` and `SessionOwned` are inductive only together, and with what the
main thread's locals mean between `accept` and the next one (`MainLocals`), that
a waiting connection waits once and has no worker (`Waiting`), that a client that
has not connected is known to nobody (`Unconnected`), and that workers are
detached (`Detached`). Their conjunction is `OwnerInv`; `Ownership`, `NoLeak` and
`Sessions` follow. Without `Waiting`, say, a connection accepted twice would have
two owners.

The bytes rest on ownership: a worker's system calls reach its own client
(`OwnConn`). `StreamInv` is the conservation of bytes (`NothingLost`), that a
pending socket error comes from a reset (`TcpInv`), that a buffer is empty unless
it is being sent and a worker that ends an orderly session has drained its socket
(`WorkerInv`), and that the prefix survives the end of the process (`Prefixes`).
From `IInv`, the conjunction of types, `OwnerInv` and `StreamInv`, follow
`Fidelity`, `EchoBeforeEnd` and `Refinement`: each step of the server is a step of
`EchoStreams` or leaves its two variables alone. `StreamLemmas` holds the facts
about sequences, among them that a prefix can be read one element at a time.

**Chat.** `ChatInv` has three parts. `TypeInv`: the types, and that a farewell is
counted only when `disconnected_printed` is set (`FarewellInv`). `ConnInv`: where the
threads are while there is no connection and while there is one (`SetupInv`,
`ListenInv`), that a FIN has been sent only by who has shut or closed
(`FinInv`), what `chunk` and `input` hold at each place (`BufferInv`), and that a
receiver that saw the end without an error has drained its socket and the other
side has ended its stream (`EofInv`). `StreamInv`: what a peer has said is what the
other has heard, holds in `chunk` or has waiting, followed by what was lost, and
nothing is lost while the other receives. `PlainInv`: the host, and a client at a
terminal, say no CR, and who has heard none has been shown all that he heard. `EofInv` is what makes the
last of these survive the end of a process: without it the receiver could leave
with words on the way.
`ChatTyping`, `ToldAtMostOnce`, `AllShownAtEnd` and `ChatRefined` follow: each
step of the two processes is a step of `ChatChannels` or leaves it alone.

**Process demos.** `DemoInv` adds to `ChildrenReaped` that a child of sysmgr is a
terminal's, a wait demo's, or the very process that the current demo is going to
wait for; that `P` of the orphan demo stays sysmgr's child; and that at the second
look of the zombie demo the child's number is free or another program's: sysmgr is
busy, and `P`, who alone could fork a process of the demos, would be a child that was
not waited for. `DemoTyping`, `NothingLeftBehind` and `ZombieGone` follow.

**Daemon.** `DaemonInv` is `OwnDaemon` with two facts that make it inductive.
`Family`: a process that has forked knows its child, and the only controller is the
one `sysmgr` waits for. `NoDoubt`, as long as `doubt` is false: there is at most one
leader, it belongs to the current demo, what it may write is `born`, and the file
holds `born` or no number. The argument is that a demo that ends with no leader at
work and no pid file leaves nobody behind who could write one. `DaemonTyping` and
`SignalsOwnDaemon` follow from `DaemonAssumption` (special values that are no process
numbers).

**The managers** (`ManagerProofs`, for any crontab, servers, variables, packages and
process numbers, under the assumptions of their modules).

* *Crontab.* As long as nothing has overlapped, the table is `merged`, and whoever
  has read it holds what is in it (`CronInv`). `CronTyped`,
  `NoJobLostWithoutClash`.
* *Clock.* Before the script sets the clock nobody has, and once it has, the clock
  is exact, or shows the server's date and nobody but the server has set it (`NotYet`,
  `SinceThen`). `ClockTyped`,
  `ExitCodeRight`.
* *Environment.* A value is asked for only after a name that the user has given, which
  is the one in the buffer, and what is in the buffers is looked at only after it was
  put there by an answer, until a pipe has ended (`EnvInv`). `EnvTyped`, `EnvironmentIsTyped`.
* *Packages.* Installing keeps a set closed under needs, and so does removing a
  package with its dependents and what these leave idle, because needs are transitive
  (`RemovalsAre`). Unless others came to want the demo's package, nothing that was there
  is that package or needs it, what else is there came with it, and what has gone it
  needed (`Apart`); so what the demo takes is its own or an idle need of its own. `PackagesTyped`,
  `DemoLeavesOthers`. `CritInv` adds that the demo's package is none that the script
  refuses: whatever is removed, what goes is that package, or needs it, or was needed by such a
  package and nobody has asked for it (`RemovedBecause`; `CriticalStaysInPlace`).
* *Processes.* `LivedInv`: whoever has a number now is among those who had it since
  the operation began. `ListInv`: rows and batch are in order, the batch lies behind
  the rows and before the cursor, and everybody up to the cursor who has lived all
  along has a row, or is in the batch. `EveryListingComplete`,
  `EverySignalReachesNamed`, `EveryNotFoundIsGone`, `ProcessTyped`.

**Kernel module manager** (`ManagerProofs`). `KernelInv` adds three facts to `OutcomeExplained`.
`Loading`: `sysmgr` waits for insmod or rmmod exactly while the loader works for
it, and a loaded module has its file. `Recorded`: what is the case has been noted.
`Learned`: what has been noted on the way to each position, for instance that at
the last look of a load the file is there or others have been at work, and that a
look which has found nothing was right or has missed the module.
`KernelTyped` and `EveryOutcomeExplained` follow.

**Trees, lists and loops** (`DataProofs`). The recursive functions of these modules
are loops of the code, and their theorems need induction. The library's induction
theorems take an operator, which no prover here can give them, so it is done by
the least counterexample (`Least`, `UpTo`): a loop is a function on 0..n
that satisfies its equation (`Computes`), `Recursion` shows that there is one, and
an invariant of its step holds at the end.

* *Files.* `FilesInv`: `fs` stays a tree, that is, whatever is there lies in a folder
  (`IsTree`); nothing changes but at the end of an operation (`before = fs`); and
  while a file is read, what cat has left, the pipe holds and the buffer has make up
  the file (`ReadInv`). Then for each operation: what its script makes of a tree is
  a tree again, has the effect when it succeeds, and changes nothing else.
  `FilesTyped`, `SuccessIsDone`.
* *Network.* After i entries of `getifaddrs` the table of names has those of the
  first i, each once as long as there is room; after i lines the routes are
  the first ones and the gateway that of the first default route (`NetworkInv`
  carries it through the dialogues). `NetworkTyped`, `EveryInterfaceListed`,
  `EveryRouteShown`.
* *Menus.* `MenuInv`: `open` is a path of menus from main's, and the two tables of every menu
  agree (`Agrees`). `MenusTyped`, `EveryLabelRuns`.
* *Command line.* A line spells words (`Spells`) when each stands at its place, plain
  or in quotation marks, with nothing but spaces between them. Every line
  of words without quotation marks that is typed, and every one that main joins of plain arguments, spells its words
  (`LinesSpell`, `ArgumentsSpell`); and the tokenizer makes of a line that spells
  words these words, up to `MaxArgs` (`Retokenized`). `ReplInv` keeps that, and that
  empty arguments come from the line, through dispatchers and prompts. `ReplTyped`,
  `EveryTokenAsQuoted`. `OfferedInv` says of a completed line that its words are an
  entry of a palette, or one behind a context's name, as far as `MaxArgs` lets them
  through; with the tables of the dispatchers `EveryOfferKnown` follows.
* *Kernel log.* After i lines the ring of size m holds the last m of the module's
  lines, the one of number k (from 0) in the slot k mod m (`RingInv`); read from the oldest
  slot they are in order (`RingShown`). `LogInv` says that what is shown is the ring
  of what was read. `LastLinesAreShown`.

**Sysmgr.** `KernelRefined` to `ReplRefined`: a session with a part is a behaviour of
that part's own specification, since its steps leave the part's world alone or are
steps of it, and its initial states are among those of the part. `SysmgrTyping`,
`SysmgrAnswers` and `EveryOfferRuns` carry the theorems about the parts over to the
program; the last also needs that a part without a session stays as it began
(`Untouched`).

**Model-checked only.** The liveness properties, which rest on fairness and so on
ENABLED: `EveryByteEchoed`, `AllReleased`, `BothLeave`, `EveryDemoEnds`, `OrphanGone`,
`DemoReturns`, `DaemonStops` and `CommandReturns`; and the five violations.

## 5. What is not modelled, and the plan

Left out of the modelled components: the wording and layout of output, the log,
the descriptors the logger opens (so that the second `close` of a chat process,
which could close the log, is not seen), signals other than SIGINT and SIGPIPE of
the echo server and SIGTERM of the daemon demo, an interrupted system call.

Left out of the managers: what programs and `/proc` print beyond what an answer
depends on; the modes of files but for the right to write; links; a second user of
the file system; packages that an installation removes because they are in conflict
with it; names longer than the environment's buffers; options that name a path of
their own, or make a program wait (`Misread`); the texts about the network stack.

Not modelled at all:

* *linenoise* is vendored; `Repl` and `Environment` have it give a line, ESC or the end.
* *The history file* is read at the start and written after each line: no other
  part reads it.
* *Menus by number.* Each `*_mgr_run` can also read a number from a pipe, when
  `is_interactive` is 0. That is so in direct mode only, which reaches no menu but
  the environment's (`Environment`).
* *logger*: open with O_APPEND, one write, close; nothing is kept between two calls.
  The double `close` of a chat process, which may hit the log's descriptor
  (`socket_client.c:118`), is outside `Chat` with it.
* *String and time helpers*: a few pure lines each.
* *Functions that only tests call*: `network_list_interfaces`,
  `network_show_host_info`, `package_mgr_is_installed`; *scripts* that `sysmgr` runs
  and waits for, or that cron runs; the tests.
* *Terminals.* `terminal_open` never waits for its children
  (`terminal_launcher.c:81`): each leaves a zombie, which `ProcessDemos` has in its
  table, for as long as `sysmgr` runs.
* *Output buffers.* The fork of the zombie demo copies what is unflushed
  (`zombie_demo.c:92`).

What could come next: the start of the chat demo (host, `sleep(2)`, client;
`socket_mgr.c:278`) with the launcher and `Chat`'s listening; the last check of the
daemon demo, which prints "Exited cleanly" also for a daemon that died before it had a handler.

## 6. How to run

    tlc -config EchoSafety.cfg MCEchoServer.tla
    tlc -config Sysmgr.cfg MCSysmgr.tla
    tlapm EchoServerProofs.tla

The runs take from a second to about three minutes with two workers.
