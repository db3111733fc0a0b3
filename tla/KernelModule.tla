----------------------------- MODULE KernelModule -----------------------------
(***************************************************************************)
(* The kernel module manager (modules/kernel/kernel_mgr.c) and the module  *)
(* it manages (kernel/system_monitor/system_monitor.c).  sysmgr looks at   *)
(* /proc/modules, at lsmod's output and at /proc/sysmgr, and has make,     *)
(* insmod, rmmod and dmesg do the rest; anybody else with root's rights    *)
(* may load and unload the same module at any moment.                      *)
(*                                                                         *)
(* External: the kernel's module loader, sudo, make, and the other user.   *)
(***************************************************************************)
EXTENDS Naturals, Sequences, FiniteSets, Prompt

CONSTANTS MAX_LOG_LINES, \* lines the log shows
          MaxDmesg       \* bound: lines dmesg prints

ASSUME KernelAssumption == MAX_LOG_LINES \in Nat \ {0}

VARIABLES
  module, \* the loader's state of system_monitor
  owner,  \* who has asked for the loading or unloading under way
  proc,   \* /proc/sysmgr exists
  twin,   \* lsmod prints "system_monitor" on the line of another module
  ko,     \* system_monitor.ko has been built
  seen,   \* history: what was the case since the operation began
  dmesg,  \* what dmesg prints
  shown   \* the lines shown, as positions in dmesg

loaderVars == <<module, owner, proc>>
logVars == <<dmesg, shown>>
kernelVars == <<pc, told, module, owner, proc, twin, ko, seen, dmesg, shown>>

Listed == module # "absent"

KernelInit ==
  /\ pc = "prompt" /\ told = "nothing"
  /\ \/ module = "absent" /\ proc = FALSE
     \/ module = "live" /\ proc = TRUE
  /\ owner = "other"
  /\ twin \in BOOLEAN /\ ko \in BOOLEAN
  /\ seen = {} /\ dmesg = <<>> /\ shown = <<>>

-----------------------------------------------------------------------------
\* What can be said of the state (m, o, p) of the loader.
Facts(m, o, p) ==
  {IF m = "absent" THEN "absent" ELSE "listed"}
    \union {IF p THEN "proc" ELSE "no-proc"}
    \union {f \in {"others-at-work"} : o = "other" /\ m \in {"coming", "going"}}
    \union {f \in {"twin"} : twin}

Observe(new) == seen' = seen \union Facts(module', owner', proc') \union new

\* sysmgr goes on to `next`, without an effect on the kernel.
KernelGoesTo(next, new) ==
  /\ pc' = next /\ seen' = seen \union new
  /\ UNCHANGED <<told, loaderVars, twin, ko, logVars>>

KernelTell(what, new) ==
  /\ pc' = "prompt" /\ told' = what
  /\ UNCHANGED <<loaderVars, twin, ko, logVars>>
  /\ Observe(new)

KernelBegin(operation) ==
  /\ pc = "prompt" /\ pc' = operation
  /\ told' = "nothing"
  /\ UNCHANGED <<loaderVars, twin, ko>>
  /\ seen' = Facts(module, owner, proc)
  /\ dmesg' = <<>> /\ shown' = <<>>

\* The loader's state becomes m, because of `who`.
Loader(m, who, p) ==
  /\ module' = m /\ owner' = who /\ proc' = p
  /\ IF pc = "prompt" THEN UNCHANGED seen ELSE Observe({})
  /\ UNCHANGED <<told, twin, ko, logVars>>

-----------------------------------------------------------------------------
(* The module: monitor_init runs while the module is "coming", monitor_exit *)
(* while it is "going"; /proc/modules lists it in both states.              *)

\* When the loader is done with sysmgr's insmod or rmmod, so is the command.
CommandEnds(result) == pc' = IF owner = "sysmgr" THEN result ELSE pc

InitCreatesProc ==
  /\ module = "coming" /\ ~proc
  /\ Loader("coming", owner, TRUE)
  /\ UNCHANGED pc

InitDone ==
  /\ module = "coming" /\ proc
  /\ Loader("live", owner, TRUE)
  /\ CommandEnds("load.verify")

\* Mutant of InitFails: monitor_init returns 0 without its file.
InitFailsQuietly ==
  /\ module = "coming" /\ ~proc
  /\ Loader("live", owner, FALSE)
  /\ CommandEnds("load.verify")

\* proc_create returns NULL: -ENOMEM, and the loader forgets the module.
InitFails ==
  /\ module = "coming" /\ ~proc
  /\ Loader("absent", owner, FALSE)
  /\ CommandEnds("load.failed")

ExitRemovesProc ==
  /\ module = "going" /\ proc
  /\ Loader("going", owner, FALSE)
  /\ UNCHANGED pc

ExitDone ==
  /\ module = "going" /\ ~proc
  /\ Loader("absent", owner, FALSE)
  /\ CommandEnds("unload.verify")

OtherLoads ==
  /\ module = "absent"
  /\ Loader("coming", "other", proc)
  /\ UNCHANGED pc

OtherUnloads ==
  /\ module = "live"
  /\ Loader("going", "other", proc)
  /\ UNCHANGED pc

-----------------------------------------------------------------------------
(* kernel_mgr_load_module_internal.                                         *)

\* is_module_loaded answers no when /proc/modules cannot be opened or read, and
\* is_module_loaded_via_lsmod when there is no pipe, no process and no lsmod, or
\* the name is cut in two by read: a look that finds nothing may have missed it.
Missed(look) == {l \in {look} : Listed}

LoadLooks ==
  /\ pc = "load"
  /\ \/ Listed /\ KernelTell("already-loaded", {})
     \/ KernelGoesTo("load.lsmod", Missed("modules-missed"))

LoadAsksLsmod ==
  /\ pc = "load.lsmod"
  /\ \/ (Listed \/ twin) /\ KernelTell("already-loaded", {})
     \/ KernelGoesTo(IF ko THEN "load.insmod" ELSE "load.make", Missed("lsmod-missed"))

Make ==
  /\ pc = "load.make"
  /\ \/ KernelTell("build-failure", {})
     \/ /\ ko' = TRUE /\ pc' = "load.insmod"
        /\ UNCHANGED <<told, loaderVars, twin, seen, logVars>>

\* The loader waits while another insmod of the module is under way.
Insmod ==
  /\ pc = "load.insmod"
  /\ \/ KernelTell("insmod-failed", {"refused"})
     \/ module \in {"live", "going"} /\ KernelTell("insmod-failed", {})
     \/ /\ module = "absent"
        /\ Loader("coming", "sysmgr", proc)
        /\ pc' = "load.inserting"

LoadFails == pc = "load.failed" /\ KernelTell("insmod-failed", {"refused"})

LoadVerifies ==
  /\ pc = "load.verify"
  /\ KernelTell(IF proc THEN "loaded" ELSE "missing-after-loading", {})

-----------------------------------------------------------------------------
(* kernel_mgr_unload_module.                                                *)

UnloadLooks ==
  /\ pc = "unload"
  /\ \/ Listed /\ KernelGoesTo("unload.rmmod", {})
     \/ KernelGoesTo("unload.lsmod", Missed("modules-missed"))

UnloadAsksLsmod ==
  /\ pc = "unload.lsmod"
  /\ \/ (Listed \/ twin) /\ KernelGoesTo("unload.rmmod", {})
     \/ KernelTell("not-loaded", Missed("lsmod-missed"))

Rmmod ==
  /\ pc = "unload.rmmod"
  /\ \/ KernelTell("rmmod-failed", {"refused"})
     \/ module # "live" /\ KernelTell("rmmod-failed", {})
     \/ /\ module = "live"
        /\ Loader("going", "sysmgr", proc)
        /\ pc' = "unload.removing"

UnloadVerifies ==
  /\ pc = "unload.verify"
  /\ KernelTell(IF proc THEN "still-there-after-unloading" ELSE "unloaded", {})

-----------------------------------------------------------------------------
(* kernel_mgr_show_info.                                                    *)

\* Whatever fopen fails for, the module is said not to be loaded.
InfoOpens ==
  /\ pc = "info"
  /\ \/ proc /\ KernelGoesTo("info.read", {})
     \/ KernelGoesTo("info.offer", {f \in {"info-unopened"} : proc})

\* The user may have the module loaded that was not there.
InfoOffers ==
  /\ pc = "info.offer"
  /\ KernelGoesTo("load", {}) \/ KernelTell("no-info", {})

InfoReads ==
  /\ pc = "info.read"
  /\ KernelTell(IF proc THEN "info" ELSE "read-failure", {})

\* kernel_mgr_show_status: three looks, at the module and at its file.
StatusLooks ==
  /\ pc = "status"
  /\ \/ Listed /\ KernelGoesTo("status.loaded", {})
     \/ KernelGoesTo("status.lsmod", Missed("modules-missed"))

StatusAsksLsmod ==
  /\ pc = "status.lsmod"
  /\ \/ (Listed \/ twin) /\ KernelGoesTo("status.loaded", {})
     \/ KernelGoesTo("status.not-loaded", Missed("lsmod-missed"))

StatusLooksForProc ==
  /\ \/ pc = "status.loaded"
        /\ KernelTell(IF proc THEN "loaded-available" ELSE "loaded-missing", {})
     \/ pc = "status.not-loaded"
        /\ KernelTell(IF proc THEN "not-loaded-available" ELSE "not-loaded-missing", {})

-----------------------------------------------------------------------------
(* kernel_mgr_show_log.  A line of dmesg is the module's, asks for          *)
(* permission, or is any other line.                                        *)

Logs == UNION {[1..n -> {"ours", "denied", "other"}] : n \in 0..MaxDmesg}

\* The ring after the first i lines of the log.
Ring(log) ==
  LET ring[i \in 0..Len(log)] ==
        IF i = 0 THEN [count |-> 0, slot |-> [j \in 0..MAX_LOG_LINES - 1 |-> 0]]
        ELSE IF log[i] # "ours" THEN ring[i - 1]
        ELSE LET r == ring[i - 1]
             IN [count |-> r.count + 1,
                 slot |-> [r.slot EXCEPT ![r.count % MAX_LOG_LINES] = i]]
  IN ring[Len(log)]

\* Mutant of RingStart: the ring is shown from its first slot.
RingStartAtZero(r) == 0

RingStart(r) == IF r.count > MAX_LOG_LINES THEN r.count % MAX_LOG_LINES ELSE 0

ShowRing(r) ==
  LET limit == IF r.count > MAX_LOG_LINES THEN MAX_LOG_LINES ELSE r.count
  IN [i \in 1..limit |-> r.slot[(RingStart(r) + i - 1) % MAX_LOG_LINES]]

PermissionError(log) == \E i \in DOMAIN log : log[i] = "denied"

\* run_dmesg_filtered reads all of the log, or dmesg fails.
Dmesg(log, failed) ==
  /\ dmesg' = log
  /\ UNCHANGED <<loaderVars, twin, ko, seen>>
  /\ IF failed \/ PermissionError(log)
     THEN /\ pc' = IF pc = "log" THEN "log.sudo" ELSE "prompt"
          /\ told' = IF pc = "log" THEN told ELSE "log-denied"
          /\ UNCHANGED shown
     ELSE pc' = "prompt" /\ told' = "log" /\ shown' = ShowRing(Ring(log))

ShowLog ==
  /\ pc \in {"log", "log.sudo"}
  /\ \/ \E log \in Logs : Dmesg(log, FALSE)
     \/ Dmesg(<<"denied">>, TRUE)
     \/ KernelTell("log-denied", {})

-----------------------------------------------------------------------------
KernelStart == \E operation \in {"load", "unload", "info", "status", "log"} : KernelBegin(operation)

KernelCommands ==
  \/ LoadLooks \/ LoadAsksLsmod \/ Make \/ Insmod \/ LoadFails \/ LoadVerifies
  \/ UnloadLooks \/ UnloadAsksLsmod \/ Rmmod \/ UnloadVerifies
  \/ InfoOpens \/ InfoOffers \/ InfoReads
  \/ StatusLooks \/ StatusAsksLsmod \/ StatusLooksForProc
  \/ ShowLog

KernelWork == InitCreatesProc \/ InitDone \/ InitFails \/ ExitRemovesProc \/ ExitDone

KernelNext == KernelStart \/ KernelCommands \/ KernelWork \/ OtherLoads \/ OtherUnloads

KernelSpec == KernelInit /\ [][KernelNext]_kernelVars

-----------------------------------------------------------------------------
KernelPosition ==
  {"prompt", "load", "load.lsmod", "load.make", "load.insmod", "load.inserting",
   "load.failed", "load.verify", "unload", "unload.lsmod", "unload.rmmod",
   "unload.removing", "unload.verify", "info", "info.read", "info.offer", "status",
   "status.lsmod", "status.loaded", "status.not-loaded", "log", "log.sudo"}

\* The variables have their types.
KernelTypeOK ==
  /\ pc \in KernelPosition
  /\ module \in {"absent", "coming", "live", "going"}
  /\ owner \in {"sysmgr", "other"}
  /\ proc \in BOOLEAN /\ twin \in BOOLEAN /\ ko \in BOOLEAN
  /\ seen \subseteq {"absent", "listed", "proc", "no-proc", "others-at-work", "twin", "refused",
                    "modules-missed", "lsmod-missed", "info-unopened"}

\* Neither look found the module, which was not there or was missed by both.
BothMissed(facts) == {"modules-missed", "lsmod-missed"} \subseteq facts
NotFound(facts) == "absent" \in facts \/ BothMissed(facts)

\* What must have been the case at some moment for an answer to be right.
Explains(answer, facts) ==
  CASE answer = "already-loaded"              -> {"listed", "twin"} \cap facts # {}
    [] answer = "loaded"                      -> {"listed", "proc"} \subseteq facts
    [] answer = "missing-after-loading"       -> {"others-at-work", "no-proc"} \subseteq facts
    [] answer = "insmod-failed"               -> {"refused", "listed"} \cap facts # {}
    [] answer = "not-loaded"                  -> NotFound(facts)
    [] answer = "no-info"                     -> {"no-proc", "info-unopened"} \cap facts # {}
    [] answer = "unloaded"                    -> {"absent", "no-proc"} \subseteq facts
    [] answer = "still-there-after-unloading" -> {"others-at-work", "absent"} \subseteq facts
    [] answer = "rmmod-failed"                -> {"refused", "others-at-work", "absent"} \cap facts # {}
    [] answer = "info"                        -> "proc" \in facts
    [] answer = "read-failure"                -> {"proc", "no-proc", "others-at-work"} \subseteq facts
    [] answer = "loaded-available"            -> {"listed", "twin"} \cap facts # {} /\ "proc" \in facts
    [] answer = "loaded-missing"              -> {"others-at-work", "twin"} \cap facts # {}
    [] answer = "not-loaded-available"        -> /\ NotFound(facts) /\ "proc" \in facts
                                                 /\ "others-at-work" \in facts \/ BothMissed(facts)
    [] answer = "not-loaded-missing"          -> NotFound(facts) /\ "no-proc" \in facts
    [] OTHER                                  -> TRUE

\* Whatever a kernel operation answers was so at some moment between its start
\* and its answer, although the module is loaded, unloaded and listed by
\* others in between; a file missing after a successful insmod, or still there
\* after a successful rmmod, is always somebody else's doing
\* (kernel_mgr_load_module_internal and kernel_mgr_unload_module).  What the code
\* takes for an absent module and is none has to fail first: both looks at the
\* lists, or the opening of /proc/sysmgr.
OutcomeExplained == pc = "prompt" => Explains(told, seen)

\* kernel_mgr_show_log shows the last MAX_LOG_LINES lines of the module, in the
\* order in which the kernel wrote them (the ring of run_dmesg_filtered).
LastLinesShown ==
  told = "log" =>
    LET ours == {i \in DOMAIN dmesg : dmesg[i] = "ours"}
        Later(i) == {j \in ours : j >= i}
        last == {i \in ours : \E k \in 1..MAX_LOG_LINES :
                    k = Cardinality(Later(i))}
    IN /\ {shown[i] : i \in DOMAIN shown} = last
       /\ \A i, j \in DOMAIN shown : i < j => shown[i] < shown[j]
===============================================================================
