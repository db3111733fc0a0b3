----------------------------- MODULE ProcessDemos -----------------------------
(***************************************************************************)
(* The process demonstrations of modules/process/demo (fork, exec, wait,   *)
(* zombie and orphan) and terminal_open of common/terminal_launcher.c, as  *)
(* commands that one sysmgr process runs one after the other.  All of them *)
(* fork, and they share the kernel's process table: what one command       *)
(* leaves there, another one finds.                                        *)
(*                                                                         *)
(* sleep only delays: a process may be held up for any time anywhere, so   *)
(* that no sleep orders the steps of two processes, with one exception in  *)
(* the program's favour (GrandchildCompares).                              *)
(*                                                                         *)
(* External: the process table, fork, exit and wait as Linux defines them, *)
(* init, the programs run by exec, and the user who picks the commands.    *)
(***************************************************************************)
EXTENDS Naturals

CONSTANTS Pid,      \* process numbers; one is used again when it is free
          Sysmgr,   \* the number of sysmgr
          InitPid,  \* the number of init
          NoPid     \* no process

ASSUME PidAssumption ==
  /\ Sysmgr \notin Pid /\ InitPid \notin Pid /\ NoPid \notin Pid
  /\ Sysmgr # InitPid /\ Sysmgr # NoPid /\ InitPid # NoPid

Demo == {"fork", "exec", "wait", "zombie", "orphan"}

\* What a process was forked for: a demo's child, the terminal's, or the
\* grandchild of the orphan demo; or by another program, whoever its parent is.
Job == Demo \cup {"terminal", "grandchild", "other"}

VARIABLES
  proc,     \* the process table
  cmd,      \* the demo sysmgr is running, or "none"
  at,       \* where it is in it
  kid,      \* the pid that its fork returned
  waited,   \* the pid that its wait or waitpid returned
  again,    \* zombie: whose process the second parse_proc_status finds, if any
  adoption  \* orphan: what the grandchild found out

vars == <<proc, cmd, at, kid, waited, again, adoption>>

NoProcess == [state |-> "free", job |-> "none", at |-> "none",
              parent |-> NoPid, orig |-> NoPid]

Process == [state : {"run", "zombie"}, job : Job, at : {"start", "ls", "exit", "sleep"},
            parent : Pid \cup {Sysmgr, InitPid},
            orig : Pid \cup {InitPid, NoPid}]

TypeOK ==
  /\ proc \in [Pid -> Process \cup {NoProcess}]
  /\ cmd \in Demo \cup {"none"}
  /\ at \in {"prompt", "look", "wait", "waitpid", "recheck", "sleep", "report"}
  /\ kid \in IF cmd = "none" THEN {NoPid} ELSE Pid
  /\ cmd = "none" <=> at = "prompt"
  /\ waited \in Pid \cup {NoPid}
  /\ again \in Job \cup {"none"}
  /\ adoption \in {"unknown", "detected", "not detected"}

Init ==
  /\ proc = [p \in Pid |-> NoProcess]
  /\ cmd = "none" /\ at = "prompt"
  /\ kid = NoPid /\ waited = NoPid
  /\ again = "none" /\ adoption = "unknown"

-------------------------------------------------------------------------------
(* The kernel.                                                             *)

Free(p)    == proc[p].state = "free"
Running(p) == proc[p].state = "run"
Zombie(p)  == proc[p].state = "zombie"

NewProcess(job, parent) ==
  [state |-> "run", job |-> job, at |-> "start", parent |-> parent, orig |-> NoPid]

\* fork by sysmgr.
Fork(p, job) ==
  /\ Free(p)
  /\ proc' = [proc EXCEPT ![p] = NewProcess(job, Sysmgr)]

\* exit: p is a zombie until its parent waits for it, and init adopts its
\* children.
Exited(p) ==
  proc' = [q \in Pid |->
             IF q = p THEN [proc[q] EXCEPT !.state = "zombie"]
             ELSE IF proc[q].parent = p THEN [proc[q] EXCEPT !.parent = InitPid]
             ELSE proc[q]]

\* A parent's wait takes its zombie child p out of the table.
Reap(p) ==
  /\ Zombie(p)
  /\ proc[p].parent = Sysmgr
  /\ proc' = [proc EXCEPT ![p] = NoProcess]
  /\ waited' = p

\* init waits for whatever it has adopted.
InitReaps(p) ==
  /\ Zombie(p)
  /\ proc[p].parent = InitPid
  /\ proc' = [proc EXCEPT ![p] = NoProcess]
  /\ UNCHANGED <<cmd, at, kid, waited, again, adoption>>

-------------------------------------------------------------------------------
(* sysmgr.                                                                 *)

\* terminal_open forks and returns at once; nobody ever waits for the child.
\* When fork fails or there is no terminal program, it returns -1.
OpenTerminal(p) ==
  /\ cmd = "none"
  /\ Fork(p, "terminal")
  /\ UNCHANGED <<cmd, at, kid, waited, again, adoption>>

\* What follows the fork in each demo.
AfterFork == [fork |-> "waitpid", exec |-> "waitpid", wait |-> "wait",
              zombie |-> "look", orphan |-> "waitpid"]

\* Mutant of StartDemo: a fork that returns -1 is taken for one that succeeds.
StartDemoUntested(d, p) ==
  /\ cmd = "none"
  /\ cmd' = d
  /\ at' = AfterFork[d]
  /\ kid' = NoPid
  /\ UNCHANGED <<proc, waited, again, adoption>>

\* A demo begins; when its fork fails it only says so and returns.
StartDemo(d, p) ==
  /\ cmd = "none"
  /\ Fork(p, d)
  /\ cmd' = d
  /\ at' = AfterFork[d]
  /\ kid' = p
  /\ adoption' = "unknown"
  /\ UNCHANGED <<waited, again>>

\* The zombie demo sleeps and reads /proc/<pid>/status, the child being a
\* zombie by then or not.
LookAtChild ==
  /\ at = "look"
  /\ at' = "waitpid"
  /\ UNCHANGED <<proc, cmd, kid, waited, again, adoption>>

AfterWaitpid == [fork |-> "report", exec |-> "report", zombie |-> "recheck",
                 orphan |-> "sleep"]

\* Mutant of Waitpid: wait, which takes any child.
WaitsForAny(p) ==
  /\ at = "waitpid"
  /\ Reap(p)
  /\ at' = AfterWaitpid[cmd]
  /\ UNCHANGED <<cmd, kid, again, adoption>>

\* Mutant of Waitpid: waitpid with WNOHANG, which does not wait.
WaitpidNoHang(p) ==
  /\ at = "waitpid"
  /\ p = kid
  /\ IF Zombie(p) THEN Reap(p) ELSE UNCHANGED <<proc, waited>>
  /\ at' = AfterWaitpid[cmd]
  /\ UNCHANGED <<cmd, kid, again, adoption>>

\* waitpid(kid, &status, 0) of the fork, exec, zombie and orphan demos.
Waitpid(p) ==
  /\ at = "waitpid"
  /\ p = kid
  /\ Reap(p)
  /\ at' = AfterWaitpid[cmd]
  /\ UNCHANGED <<cmd, kid, again, adoption>>

\* wait(&status) of the wait demo: any child of sysmgr will do.
Wait(p) ==
  /\ at = "wait"
  /\ Reap(p)
  /\ at' = "report"
  /\ UNCHANGED <<cmd, kid, again, adoption>>

\* The zombie demo reads /proc/<pid>/status once more, of whoever has the number
\* by now; found, it prints that the child still exists (zombie_demo.c:159).
LookAgain ==
  /\ at = "recheck"
  /\ again' = proc[kid].job
  /\ at' = "report"
  /\ UNCHANGED <<proc, cmd, kid, waited, adoption>>

\* The orphan demo sleeps, for the grandchild to finish, which it may or may
\* not have done then.
SleepForGrandchild ==
  /\ at = "sleep"
  /\ at' = "report"
  /\ UNCHANGED <<proc, cmd, kid, waited, again, adoption>>

\* The demo prints what it has found, and returns to the prompt.
Report ==
  /\ at = "report"
  /\ cmd' = "none" /\ at' = "prompt"
  /\ kid' = NoPid /\ waited' = NoPid /\ again' = "none"
  /\ UNCHANGED <<proc, adoption>>

-------------------------------------------------------------------------------
(* The children.                                                           *)

\* Mutant of ChildExits: the child returns to its own prompt instead.
ChildReturns(p) ==
  /\ Running(p)
  /\ proc[p].job \in {"fork", "wait", "zombie"}
  /\ UNCHANGED vars

\* The children of the fork, wait and zombie demos exit, after a sleep or
\* at once.
ChildExits(p) ==
  /\ Running(p)
  /\ proc[p].job \in {"fork", "wait", "zombie"}
  /\ Exited(p)
  /\ UNCHANGED <<cmd, at, kid, waited, again, adoption>>

\* The child of the exec demo becomes ls, or exits if execvp fails; and ls
\* exits.
ChildExecs(p) ==
  /\ Running(p) /\ proc[p].job = "exec"
  /\ \/ /\ proc[p].at = "start"
        /\ proc' = [proc EXCEPT ![p] = [proc[p] EXCEPT !.at = "ls"]]
     \/ Exited(p)
  /\ UNCHANGED <<cmd, at, kid, waited, again, adoption>>

\* A terminal's program ends when its user closes the window.
TerminalEnds(p) ==
  /\ Running(p) /\ proc[p].job = "terminal"
  /\ Exited(p)
  /\ UNCHANGED <<cmd, at, kid, waited, again, adoption>>

\* The other programs of the machine, whose processes take any number that is
\* free, end when they like, and are waited for by their own parents, for whom
\* init stands.
OtherForks(p) ==
  /\ Free(p)
  /\ proc' = [proc EXCEPT ![p] = NewProcess("other", InitPid)]
  /\ UNCHANGED <<cmd, at, kid, waited, again, adoption>>

OtherEnds(p) ==
  /\ Running(p) /\ proc[p].job = "other"
  /\ Exited(p)
  /\ UNCHANGED <<cmd, at, kid, waited, again, adoption>>

\* The parent P of the orphan demo forks the grandchild; when the fork fails it
\* exits.
ParentForks(p) ==
  /\ Running(p) /\ proc[p].job = "orphan" /\ proc[p].at = "start"
  /\ \/ \E q \in Pid :
          /\ Free(q)
          /\ proc' = [proc EXCEPT ![q] = NewProcess("grandchild", p),
                                  ![p] = [proc[p] EXCEPT !.at = "exit"]]
     \/ Exited(p)
  /\ UNCHANGED <<cmd, at, kid, waited, again, adoption>>

\* P exits immediately to orphan the grandchild.
ParentExits(p) ==
  /\ Running(p) /\ proc[p].job = "orphan" /\ proc[p].at = "exit"
  /\ Exited(p)
  /\ UNCHANGED <<cmd, at, kid, waited, again, adoption>>

\* The grandchild asks for its parent, and sleeps.
GrandchildAsks(p) ==
  /\ Running(p) /\ proc[p].job = "grandchild" /\ proc[p].at = "start"
  /\ proc' = [proc EXCEPT ![p] =
                [proc[p] EXCEPT !.orig = proc[p].parent, !.at = "sleep"]]
  /\ UNCHANGED <<cmd, at, kid, waited, again, adoption>>

\* Mutant of GrandchildCompares: the loop around sleep does not count down.
GrandchildSleepsOn(p) ==
  /\ Running(p) /\ proc[p].job = "grandchild" /\ proc[p].at = "sleep"
  /\ UNCHANGED vars

\* It asks again, and compares.  Its four seconds are taken to be enough for P,
\* which has only to exit.
GrandchildCompares(p) ==
  /\ Running(p) /\ proc[p].job = "grandchild" /\ proc[p].at = "sleep"
  /\ proc[p].parent = InitPid
  /\ adoption' = IF proc[p].parent # proc[p].orig THEN "detected" ELSE "not detected"
  /\ Exited(p)
  /\ UNCHANGED <<cmd, at, kid, waited, again>>

Child(p) == \/ ChildExits(p) \/ ChildExecs(p) \/ ParentForks(p) \/ ParentExits(p)
            \/ GrandchildAsks(p) \/ GrandchildCompares(p)

\* A demo's steps; and the commands the user picks.
Step == \/ LookAtChild \/ LookAgain \/ SleepForGrandchild \/ Report
        \/ \E p \in Pid : Waitpid(p) \/ Wait(p)

Pick == \E p \in Pid : OpenTerminal(p) \/ \E d \in Demo : StartDemo(d, p)

Next == \/ Pick
        \/ Step
        \/ \E p \in Pid : Child(p) \/ TerminalEnds(p) \/ InitReaps(p) \/ OtherForks(p) \/ OtherEnds(p)

Spec == Init /\ [][Next]_vars

-------------------------------------------------------------------------------
(* Safety.                                                                 *)

\* Back at the prompt nothing of the fork, exec, zombie and orphan demos is
\* left among the children of sysmgr, whatever other children ended meanwhile:
\* waitpid names the child (fork_demo.c:122, exec_demo.c:113,
\* zombie_demo.c:143, orphan_demo.c:95).
ChildrenReaped ==
  at = "prompt" => \A p \in Pid :
    proc[p].parent = Sysmgr => proc[p].job \in {"terminal", "wait"}

\* The zombie demo's second look into /proc (zombie_demo.c:155) never finds the
\* child, also when it had not exited yet at the first look: what it says still
\* exists (zombie_demo.c:159) can only be a process of another program that was
\* given the number in between, never one that sysmgr has left behind.
ZombieRemoved == again \in {"none", "other"}

\* What docs/process/process.md:283 says of the wait demo: the status it
\* prints is its own child's.
WaitedForOwnChild == cmd = "wait" /\ at = "report" => waited = kid

\* What docs/process/process.md:314 says of the orphan demo: the grandchild
\* sees its parent change and confirms the adoption.
AdoptionDetected == adoption # "not detected"

\* What makes the two invariants inductive: where sysmgr is tells the demo;
\* P of the orphan demo is always sysmgr's child; a child of sysmgr is the
\* current demo's, or one that no waitpid will name; and at the second look
\* nobody but another program can have a process with the child's number.
DemoInv ==
  /\ at = "wait" <=> cmd = "wait" /\ at # "report"
  /\ at \in {"look", "recheck"} => cmd = "zombie"
  /\ \A p \in Pid :
       /\ proc[p].job = "orphan" => proc[p].parent = Sysmgr
       /\ proc[p].parent = Sysmgr =>
            \/ proc[p].job \in {"terminal", "wait"}
            \/ p = kid /\ at \in {"look", "waitpid"} /\ proc[p].job = cmd
  /\ at = "recheck" => proc[kid].job \in {"none", "other"}
  /\ again \in {"none", "other"}

-------------------------------------------------------------------------------
(* Liveness.  Every process is scheduled.  Nobody has to close a terminal, *)
(* to end another program or to pick a command.                            *)

FairSpec ==
  /\ Spec
  /\ WF_vars(Step)
  /\ \A p \in Pid : WF_vars(Child(p)) /\ WF_vars(InitReaps(p))

\* Every demo comes back to the prompt, terminals that stay open or not.
EveryDemoEnds == cmd # "none" ~> cmd = "none"

\* The grandchild of the orphan demo does not stay in the table: P does not
\* wait for it, but P's exit hands it to init.
OrphanGone ==
  \A p \in Pid : proc[p].job = "grandchild" ~> proc[p].job # "grandchild"
===============================================================================
