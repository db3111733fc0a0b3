---------------------------- MODULE ProcessManager ----------------------------
(***************************************************************************)
(* The process manager (modules/process/process_mgr.c): lists and searches *)
(* /proc, sends signals and changes nice values.  Processes end and start  *)
(* at any moment, also between two system calls of one operation, and a    *)
(* number that is free again is given to the next process.                 *)
(*                                                                         *)
(* External: the kernel's process table and readdir of /proc, which gives  *)
(* the numbers in increasing order, as many at a time as fit its buffer.   *)
(***************************************************************************)
EXTENDS Integers, Sequences, FiniteSets, Prompt

CONSTANTS Number,  \* process numbers, but for sysmgr's own
          Process, \* bound: the processes that ever live
          Named,   \* those whose name or command line contains the query
          Mine,    \* those that the user may signal and renice
          None,    \* no process
          NiceMin, NiceMax, NiceAsked

ASSUME ProcessAssumption ==
  /\ Number \subseteq Nat \ {0} /\ IsFiniteSet(Number)
  /\ Named \subseteq Process /\ Mine \subseteq Process
  /\ None \notin Process
  /\ NiceAsked \subseteq Int /\ NiceMin \in Int /\ NiceMax \in Int

VARIABLES
  table,   \* the process that has a number
  nice,    \* the nice value of each process
  born,    \* the processes that have been started
  arg,     \* the number and the value the user has given
  query,   \* the processes looked for
  batch,   \* what readdir has in its buffer
  cursor,  \* the last number readdir has read
  stat,    \* the process whose stat file was read
  current, \* what getpriority has returned, and errno
  rows,    \* the lines printed: a number and the process it is said to be
  lived,   \* history: who has had a number since the operation began
  hit      \* history: the processes a signal of the operation has reached

tableVars == <<table, nice, born>>
listVars == <<batch, cursor, rows>>
processVars == <<pc, told, tableVars, arg, query, listVars, stat, current, lived, hit>>

NoValue == [value |-> 0, errno |-> FALSE]

ProcessInit ==
  /\ pc = "prompt" /\ told = "nothing"
  /\ table \in [Number -> {None} \union Process]
  /\ \A m, n \in Number : table[m] = table[n] /\ m # n => table[m] = None
  /\ born = {table[n] : n \in Number} \ {None}
  /\ nice = [p \in Process |-> -1]
  /\ arg = [pid |-> 0, value |-> 0] /\ query = Process
  /\ batch = <<>> /\ cursor = 0 /\ rows = <<>>
  /\ stat = None /\ current = NoValue
  /\ lived = [n \in Number |-> {}] /\ hit = {}

-----------------------------------------------------------------------------
(* Other processes.                                                         *)

TableBecomes(t) ==
  /\ table' = t
  /\ lived' = IF pc = "prompt" THEN lived
              ELSE [n \in Number |-> lived[n] \union {t[n]}]

Starts(n, p) ==
  /\ table[n] = None /\ p \notin born
  /\ TableBecomes([table EXCEPT ![n] = p])
  /\ born' = born \union {p}
  /\ UNCHANGED <<pc, told, nice, arg, query, listVars, stat, current, hit>>

Ends(n) ==
  /\ table[n] # None
  /\ TableBecomes([table EXCEPT ![n] = None])
  /\ UNCHANGED <<pc, told, nice, born, arg, query, listVars, stat, current, hit>>

OtherProcesses == \E n \in Number : Ends(n) \/ \E p \in Process : Starts(n, p)

-----------------------------------------------------------------------------
ProcessBegin(operation, pid, value, who) ==
  /\ pc = "prompt" /\ pc' = operation /\ told' = "nothing"
  /\ arg' = [pid |-> pid, value |-> value] /\ query' = who
  /\ batch' = <<>> /\ cursor' = 0 /\ rows' = <<>>
  /\ stat' = None /\ current' = NoValue
  /\ lived' = [n \in Number |-> {table[n]}] /\ hit' = {}
  /\ UNCHANGED tableVars

ProcessTell(what) ==
  /\ pc' = "prompt" /\ told' = what
  /\ UNCHANGED <<tableVars, arg, query, listVars, stat, current, lived>>

\* Who has the number the user has given.
Holder == IF arg.pid \in Number THEN table[arg.pid] ELSE None

\* parse_proc_stat.
ReadStat(p, next) ==
  /\ stat' = p /\ pc' = next
  /\ UNCHANGED <<told, tableVars, arg, query, listVars, current, lived, hit>>

-----------------------------------------------------------------------------
(* process_mgr_list, and process_mgr_search for a name.                     *)

\* readdir: some of the numbers in use now, and all of them up to the last.
ReadDirectory(k) ==
  LET there == {n \in Number : n > cursor /\ table[n] # None}
  IN /\ batch' \in [1..k -> there]
     /\ \A i, j \in 1..k : i < j => batch'[i] < batch'[j]
     /\ \A n \in there : n <= batch'[k] => \E i \in 1..k : batch'[i] = n
     /\ cursor' = batch'[k]
     /\ UNCHANGED <<pc, told, tableVars, arg, query, rows, stat, current, lived, hit>>

EndOfDirectory ==
  /\ \A n \in Number : n > cursor => table[n] = None
  /\ ProcessTell(IF rows = <<>> THEN "no-match" ELSE "rows") /\ UNCHANGED hit

\* Mutant of ListStat: the loop ends where it should go on.
ListStatStops ==
  IF table[Head(batch)] = None THEN ProcessTell("rows") /\ UNCHANGED hit
  ELSE ReadStat(table[Head(batch)], "list.cmdline")

\* A process that has ended since readdir is left out.
ListStat ==
  IF table[Head(batch)] = None
  THEN /\ batch' = Tail(batch)
       /\ UNCHANGED <<pc, told, tableVars, arg, query, cursor, rows, stat, current, lived, hit>>
  ELSE ReadStat(table[Head(batch)], "list.cmdline")

\* get_proc_cmdline reads the file of whoever has the number by now.
ListCmdline ==
  /\ batch' = Tail(batch)
  /\ rows' = IF {stat, table[Head(batch)]} \cap query # {}
             THEN Append(rows, [pid |-> Head(batch), process |-> stat]) ELSE rows
  /\ pc' = "list"
  /\ UNCHANGED <<told, tableVars, arg, query, cursor, stat, current, lived, hit>>

ProcessList ==
  \/ pc = "list" /\ batch = <<>> /\ (EndOfDirectory \/ \E k \in 1..Cardinality(Number) : ReadDirectory(k))
  \/ pc = "list" /\ batch # <<>> /\ ListStat
  \/ pc = "list.cmdline" /\ ListCmdline

\* process_mgr_search for a number.
ProcessSearch ==
  /\ pc = "search"
  /\ stat' = Holder
  /\ pc' = "prompt" /\ told' = IF Holder = None THEN "not-found" ELSE "found"
  /\ UNCHANGED <<tableVars, arg, query, listVars, current, lived, hit>>

-----------------------------------------------------------------------------
(* process_mgr_send_signal.                                                 *)

\* Mutant of SignalNames: any number goes on to kill.
SignalAnyNumber == pc = "signal" /\ ReadStat(Holder, "signal.kill")

\* The name is read first; a number that is not positive goes no further.
SignalNames ==
  /\ pc = "signal"
  /\ \/ arg.pid <= 0 /\ ProcessTell("invalid-PID") /\ UNCHANGED hit
     \/ arg.pid > 0 /\ ReadStat(Holder, "signal.kill")

\* kill: 0 and the negative numbers stand for groups of processes.
Reached(pid) == IF pid \in Number THEN {table[pid]} \ {None}
                ELSE {table[n] : n \in Number} \cap Mine

Kill ==
  /\ pc = "signal.kill"
  /\ LET reached == Reached(arg.pid)
     IN IF reached = {} THEN ProcessTell("not-found") /\ UNCHANGED hit
        ELSE IF reached \cap Mine = {} THEN ProcessTell("denied") /\ UNCHANGED hit
        ELSE \/ ProcessTell("signalled") /\ hit' = reached \cap Mine
             \/ ProcessTell("invalid-signal") /\ UNCHANGED hit

-----------------------------------------------------------------------------
(* process_mgr_set_priority.                                                *)

\* A file of /proc that cannot be opened leaves errno set.
NiceNames ==
  /\ pc = "nice"
  /\ \/ arg.pid <= 0 /\ ProcessTell("invalid-PID") /\ UNCHANGED hit
     \/ /\ arg.pid > 0
        /\ stat' = Holder
        /\ current' = [value |-> 0, errno |-> TRUE]
        /\ pc' = "nice.get"
        /\ UNCHANGED <<told, tableVars, arg, query, listVars, lived, hit>>

\* Mutant of GetPriority: errno is not set to 0 before.
GetPriorityStale == IF Holder = None THEN [value |-> -1, errno |-> TRUE]
                    ELSE [value |-> nice[Holder], errno |-> current.errno]

\* getpriority after errno = 0: -1 is an error and also a nice value.
GetPriority == IF Holder = None THEN [value |-> -1, errno |-> TRUE]
               ELSE [value |-> nice[Holder], errno |-> FALSE]

NiceGets ==
  /\ pc = "nice.get"
  /\ current' = GetPriority
  /\ IF current'.value = -1 /\ current'.errno
     THEN pc' = "prompt" /\ told' = "not-found"
     ELSE pc' = "nice.set" /\ UNCHANGED told
  /\ UNCHANGED <<tableVars, arg, query, listVars, stat, lived, hit>>

Clamp(v) == IF v < NiceMin THEN NiceMin ELSE IF v > NiceMax THEN NiceMax ELSE v

\* setpriority takes the nearest value there is; a lower one needs the right.
NiceSets ==
  /\ pc = "nice.set"
  /\ IF Holder = None THEN ProcessTell("not-found") /\ UNCHANGED hit
     ELSE IF Holder \notin Mine THEN ProcessTell("denied") /\ UNCHANGED hit
     ELSE \/ Clamp(arg.value) < nice[Holder] /\ ProcessTell("denied") /\ UNCHANGED hit
          \/ /\ pc' = "prompt" /\ told' = "reniced"
             /\ nice' = [nice EXCEPT ![Holder] = Clamp(arg.value)]
             /\ hit' = {Holder}
             /\ UNCHANGED <<table, born, arg, query, listVars, stat, current, lived>>

-----------------------------------------------------------------------------
ProcessStart ==
  \/ \E who \in {Process, Named} : ProcessBegin("list", 0, 0, who)
  \/ \E pid \in Number \union {0} :
       \/ ProcessBegin("search", pid, 0, Process)
       \/ ProcessBegin("signal", pid, 0, Process)
       \/ \E v \in NiceAsked : ProcessBegin("nice", pid, v, Process)

ProcessCommands == ProcessList \/ ProcessSearch \/ SignalNames \/ Kill \/ NiceNames \/ NiceGets \/ NiceSets

ProcessNext == ProcessStart \/ ProcessCommands \/ OtherProcesses

ProcessSpec == ProcessInit /\ [][ProcessNext]_processVars

-----------------------------------------------------------------------------
\* The variables have their types.
ProcessTypeOK ==
  /\ table \in [Number -> {None} \union Process]
  /\ \A m, n \in Number : table[m] = table[n] /\ m # n => table[m] = None
  /\ {table[n] : n \in Number} \ {None} \subseteq born
  /\ nice \in [Process -> Int]
  /\ \A i \in DOMAIN batch : batch[i] \in Number
  /\ stat \in {None} \union Process
  /\ lived \in [Number -> SUBSET ({None} \union Process)]
  /\ hit \subseteq Mine

\* A listing, which takes many system calls while processes come and go, has
\* exactly one line for every process that is looked for and lives all through
\* it, no number on two lines, and nobody who has not lived since it began
\* (process_mgr_list, process_mgr_search).
ListingComplete ==
  pc = "prompt" /\ told \in {"rows", "no-match"} =>
    /\ \A i, j \in DOMAIN rows : i < j => rows[i].pid < rows[j].pid
    /\ \A i \in DOMAIN rows : rows[i].process \in lived[rows[i].pid] \ {None}
    /\ \A n \in Number, p \in query :
         lived[n] = {p} => \E i \in DOMAIN rows : rows[i] = [pid |-> n, process |-> p]

\* A signal reaches nobody but who has had the number since the operation
\* began, and the very process that was named if that one is still there when
\* the signal is sent; "success" is never said when it has reached nobody
\* (process_mgr_send_signal reads the name first and sends afterwards).
SignalReachesNamed ==
  told = "signalled" =>
    /\ arg.pid \in Number /\ hit # {}
    /\ hit \subseteq lived[arg.pid]
    /\ lived[arg.pid] = {stat} => hit = {stat}

\* "Not found" is only said of a number that was free at some moment of the
\* operation, never of a process whose nice value happens to be -1, and a value
\* shown as the old one was that of a process with this number
\* (process_mgr_set_priority, process_mgr_search, process_mgr_send_signal).
NotFoundMeansGone ==
  pc = "prompt" /\ told = "not-found" /\ arg.pid \in Number => None \in lived[arg.pid]
===============================================================================
