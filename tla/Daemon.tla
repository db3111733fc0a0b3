-------------------------------- MODULE Daemon --------------------------------
(***************************************************************************)
(* The daemon demonstration, modules/process/demo/daemon_demo.c, run again *)
(* and again by one sysmgr.  sysmgr forks a controller, which forks a      *)
(* session leader and exits; the leader forks the daemon, writes its       *)
(* number into the pid file and exits; sysmgr reads the file, ends the     *)
(* daemon by SIGTERM and removes the file.                                 *)
(*                                                                         *)
(* Only waitpid orders the processes.  sleep does not: a leader may be     *)
(* held up past the second that sysmgr gives it, into the next demo.       *)
(*                                                                         *)
(* External: fork, exit, wait, kill and init, and processes that have      *)
(* nothing to do with sysmgr but draw on the same numbers.                 *)
(***************************************************************************)
EXTENDS Naturals

CONSTANTS Pid,      \* process numbers; one is used again when it is free
          Sysmgr,   \* the number of sysmgr
          InitPid,  \* the number of init
          NoPid     \* no process

ASSUME DaemonAssumption ==
  /\ Sysmgr \notin Pid /\ InitPid \notin Pid /\ NoPid \notin Pid
  /\ Sysmgr # InitPid /\ Sysmgr # NoPid /\ InitPid # NoPid
  /\ "absent" \notin Pid /\ "empty" \notin Pid

Job   == {"controller", "leader", "daemon", "other"}
Place == {"start", "forked", "write", "loop", "term"}

VARIABLES
  proc,    \* the process table
  file,    \* logs/daemon.pid: absent, empty, or the number it holds
  at,      \* where sysmgr is in daemon_demo_run
  ctrl,    \* ctrl_pid
  target,  \* d_pid

  \* History, which no step tests.
  born,    \* the daemon forked last, since the current demo began
  doubt    \* an earlier demo has left a pid file, or a leader that will write one

vars == <<proc, file, at, ctrl, target, born, doubt>>

NoProcess == [state |-> "free", job |-> "none", at |-> "none",
              parent |-> NoPid, child |-> NoPid]

Process == [state : {"run", "zombie"}, job : Job, at : Place,
            parent : Pid \cup {Sysmgr, InitPid}, child : Pid \cup {NoPid}]

TypeOK ==
  /\ proc \in [Pid -> Process \cup {NoProcess}]
  /\ file \in Pid \cup {"absent", "empty"}
  /\ at \in {"prompt", "wait", "read", "kill", "unlink"}
  /\ ctrl \in IF at = "wait" THEN Pid ELSE {NoPid}
  /\ target \in IF at = "kill" THEN Pid ELSE {NoPid}
  /\ born \in Pid \cup {NoPid}
  /\ doubt \in BOOLEAN

\* A sysmgr that was interrupted in the middle of a demo, or gave up on a slow
\* leader, has left its pid file to the next.
Init ==
  /\ proc = [p \in Pid |-> NoProcess]
  /\ file \in Pid \cup {"absent", "empty"}
  /\ at = "prompt"
  /\ ctrl = NoPid /\ target = NoPid
  /\ born = NoPid /\ doubt = (file \in Pid)

-------------------------------------------------------------------------------
(* The kernel.                                                             *)

Free(p)    == proc[p].state = "free"
Running(p) == proc[p].state = "run"
Zombie(p)  == proc[p].state = "zombie"

NewProcess(job, parent) ==
  [state |-> "run", job |-> job, at |-> "start", parent |-> parent, child |-> NoPid]

\* exit: p is a zombie until its parent waits for it, and init adopts its
\* children.
Exited(p) ==
  proc' = [q \in Pid |->
             IF q = p THEN [proc[q] EXCEPT !.state = "zombie"]
             ELSE IF proc[q].parent = p THEN [proc[q] EXCEPT !.parent = InitPid]
             ELSE proc[q]]

InitReaps(p) ==
  /\ Zombie(p) /\ proc[p].parent = InitPid
  /\ proc' = [proc EXCEPT ![p] = NoProcess]
  /\ UNCHANGED <<file, at, ctrl, target, born, doubt>>

\* Processes of others come and go.
OtherStarts(p) ==
  /\ Free(p)
  /\ proc' = [proc EXCEPT ![p] = NewProcess("other", InitPid)]
  /\ UNCHANGED <<file, at, ctrl, target, born, doubt>>

OtherEnds(p) ==
  /\ Running(p) /\ proc[p].job = "other"
  /\ proc' = [proc EXCEPT ![p] = NoProcess]
  /\ UNCHANGED <<file, at, ctrl, target, born, doubt>>

\* p goes on at another place of its code.
GoesTo(p, place) == proc' = [proc EXCEPT ![p] = [proc[p] EXCEPT !.at = place]]

-------------------------------------------------------------------------------
(* sysmgr.                                                                 *)

\* The demo forks the controller; when fork fails it returns.
Start(p) ==
  /\ at = "prompt"
  /\ Free(p)
  /\ proc' = [proc EXCEPT ![p] = NewProcess("controller", Sysmgr)]
  /\ ctrl' = p /\ born' = NoPid
  /\ at' = "wait"
  /\ UNCHANGED <<file, target, doubt>>

WaitController(p) ==
  /\ at = "wait"
  /\ p = ctrl /\ Zombie(p)
  /\ proc' = [proc EXCEPT ![p] = NoProcess]
  /\ ctrl' = NoPid
  /\ at' = "read"
  /\ UNCHANGED <<file, target, born, doubt>>

LeaderAtWork == \E p \in Pid : Running(p) /\ proc[p].job = "leader"

\* Mutant of ReadPidFile: d_pid is not tested, and 0 is the process group of
\* sysmgr.
ReadUntested ==
  /\ at = "read"
  /\ target' = IF file \in Pid THEN file ELSE NoPid
  /\ at' = "kill"
  /\ doubt' = (doubt \/ LeaderAtWork)
  /\ UNCHANGED <<proc, file, ctrl, born>>

\* sysmgr reads the pid file.
ReadPidFile ==
  /\ at = "read"
  /\ file \in Pid
  /\ target' = file
  /\ at' = "kill"
  /\ doubt' = (doubt \/ LeaderAtWork)
  /\ UNCHANGED <<proc, file, ctrl, born>>

\* There is no number in it, or open or read fails: sysmgr returns, and leaves
\* the file alone, and the daemon if there is one.
NoPidFile ==
  /\ at = "read"
  /\ at' = "prompt"
  /\ doubt' = (file \in Pid \/ LeaderAtWork)
  /\ UNCHANGED <<proc, file, ctrl, target, born>>

\* SIGTERM: a daemon that has installed its handler takes note of it; another
\* process dies, unless it has ended already or belongs to somebody else.
Signalled(p) ==
  LET handles == proc[p].job = "daemon" /\ proc[p].at # "start"
  IN  \/ Running(p) /\ handles /\ GoesTo(p, "term")
      \/ Running(p) /\ ~handles /\ Exited(p)
      \/ (~Running(p) \/ proc[p].job = "other") /\ UNCHANGED proc

Kill(p) ==
  /\ at = "kill"
  /\ p = target
  /\ Signalled(p)
  /\ target' = NoPid
  /\ at' = "unlink"
  /\ UNCHANGED <<file, ctrl, born, doubt>>

\* Mutant of Unlink: the file stays.
KeepsPidFile ==
  /\ at = "unlink"
  /\ at' = "prompt"
  /\ doubt' = LeaderAtWork
  /\ UNCHANGED <<proc, file, ctrl, target, born>>

\* sysmgr looks into /proc, prints what it finds, removes the pid file and
\* returns.
Unlink ==
  /\ at = "unlink"
  /\ file' = "absent"
  /\ at' = "prompt"
  /\ doubt' = LeaderAtWork
  /\ UNCHANGED <<proc, ctrl, target, born>>

-------------------------------------------------------------------------------
(* The controller, the leader and the daemon.                              *)

\* p forks, and remembers its child.
Forks(p, q, job) ==
  /\ Free(q)
  /\ proc' = [proc EXCEPT ![q] = NewProcess(job, p),
                          ![p] = [proc[p] EXCEPT !.at = "forked", !.child = q]]

Is(p, job, place) == Running(p) /\ proc[p].job = job /\ proc[p].at = place

\* Mutant of Controller: the controller waits for its child.
ControllerWaits(p) ==
  /\ \/ Is(p, "controller", "start") /\ \E q \in Pid : Forks(p, q, "leader")
     \/ Is(p, "controller", "forked") /\ Free(proc[p].child) /\ Exited(p)
  /\ UNCHANGED <<file, at, ctrl, target, born, doubt>>

\* The controller forks the leader and exits, as it does when fork fails.
Controller(p) ==
  /\ \/ Is(p, "controller", "start") /\ \E q \in Pid : Forks(p, q, "leader")
     \/ Running(p) /\ proc[p].job = "controller" /\ Exited(p)
  /\ UNCHANGED <<file, at, ctrl, target, born, doubt>>

\* setsid, and the fork of the daemon.
LeaderForks(p) ==
  /\ Is(p, "leader", "start")
  /\ \E q \in Pid : /\ Forks(p, q, "daemon")
                    /\ born' = q
  /\ UNCHANGED <<file, at, ctrl, target, doubt>>

\* open creates the pid file, or truncates it.
LeaderOpens(p) ==
  /\ Is(p, "leader", "forked")
  /\ file' = "empty"
  /\ GoesTo(p, "write")
  /\ UNCHANGED <<at, ctrl, target, born, doubt>>

\* write, which may fail.
LeaderWrites(p) ==
  /\ Is(p, "leader", "write")
  /\ file' \in {file, proc[p].child}
  /\ Exited(p)
  /\ UNCHANGED <<at, ctrl, target, born, doubt>>

\* The leader exits early: setsid, fork or open has failed.
LeaderExits(p) ==
  /\ Is(p, "leader", "start") \/ Is(p, "leader", "forked")
  /\ Exited(p)
  /\ UNCHANGED <<file, at, ctrl, target, born, doubt>>

\* The daemon installs its handler and goes into its loop; or chdir, open or
\* signal fails.
DaemonStarts(p) ==
  /\ Is(p, "daemon", "start")
  /\ GoesTo(p, "loop") \/ Exited(p)
  /\ UNCHANGED <<file, at, ctrl, target, born, doubt>>

\* Mutant of DaemonEnds: the loop does not test keep_running.
DaemonBeatsOn(p) ==
  /\ Is(p, "daemon", "term")
  /\ UNCHANGED vars

\* A heartbeat changes the log only.  After a SIGTERM the loop ends.
DaemonEnds(p) ==
  /\ Is(p, "daemon", "term")
  /\ Exited(p)
  /\ UNCHANGED <<file, at, ctrl, target, born, doubt>>

Leader(p) == LeaderForks(p) \/ LeaderOpens(p) \/ LeaderWrites(p) \/ LeaderExits(p)

\* sysmgr once it has begun a demo.
Demo == \/ ReadPidFile \/ NoPidFile \/ Unlink
        \/ \E p \in Pid : WaitController(p) \/ Kill(p)

Child(p) == Controller(p) \/ Leader(p) \/ DaemonStarts(p) \/ DaemonEnds(p)

Next ==
  \/ Demo
  \/ \E p \in Pid : \/ Start(p) \/ Child(p)
                    \/ InitReaps(p) \/ OtherStarts(p) \/ OtherEnds(p)

Spec == Init /\ [][Next]_vars

-------------------------------------------------------------------------------
(* Safety.                                                                 *)

\* SIGTERM (line 297) goes to the number of the daemon this very demo has
\* forked, never to one of an earlier demo, whatever fork, open or write has
\* failed: unless an earlier demo, interrupted or too early for its leader, has
\* left its pid file behind, or this one's leader is late.  And one complete demo is
\* enough to get out of that state.
OwnDaemon == at = "kill" /\ ~doubt => target = born

\* What makes it inductive.  A process that has forked knows its child, and
\* there is no controller but the current demo's.
Family ==
  \A p \in Pid :
    /\ proc[p].at \in {"forked", "write"} => proc[p].child \in Pid
    /\ proc[p].job = "controller" => p = ctrl

\* As long as there is no doubt, the leader at work is the only one and the
\* current demo's, what it may write is the daemon born last, and the file
\* names that daemon or nobody.
NoDoubt ==
  /\ LeaderAtWork => at \in {"wait", "read"} /\ file \notin Pid
  /\ \A p, q \in Pid :
       /\ Running(p) /\ proc[p].job = "leader"
       /\ Running(q) /\ proc[q].job = "leader"
       => p = q
  /\ \A p \in Pid : Running(p) /\ proc[p].job = "leader" =>
       born = IF proc[p].at = "start" THEN NoPid ELSE proc[p].child
  /\ (\E p \in Pid : Is(p, "controller", "start")) =>
       ~LeaderAtWork /\ file \notin Pid /\ born = NoPid
  /\ file \in Pid => file = born /\ at # "prompt"

DaemonInv == Family /\ OwnDaemon /\ (~doubt => NoDoubt)

-------------------------------------------------------------------------------
(* Liveness.  The processes of the demo are scheduled; others need not     *)
(* come or go, and nobody has to start a demo.                             *)

FairSpec ==
  /\ Spec
  /\ WF_vars(Demo)
  /\ \A p \in Pid : WF_vars(Child(p)) /\ WF_vars(InitReaps(p))

\* The demo comes back, whatever fails.
DemoReturns == at # "prompt" ~> at = "prompt"

\* A daemon that is sent SIGTERM ends, whether it has installed its handler by
\* then or not, and leaves the process table though its leader never waits.
DaemonStops ==
  \A p \in Pid :
    (at = "kill" /\ target = p /\ proc[p].job = "daemon") ~> proc[p].job # "daemon"
===============================================================================
