----------------------------- MODULE DaemonProofs -----------------------------
(***************************************************************************)
(* For any set of process numbers: the types, and that the daemon demo     *)
(* signals its own daemon.                                                 *)
(***************************************************************************)
EXTENDS Daemon, TLAPS

IInv == TypeOK /\ DaemonInv

\* Nothing is running at first, and a file that is there is in doubt.
LEMMA InitIInv == Init => IInv
<1> SUFFICES ASSUME Init PROVE IInv
  OBVIOUS
<1>1. TypeOK
  BY DEF Init, TypeOK
<1>2. \A p \in Pid : proc[p].state = "free" /\ proc[p].job = "none" /\ proc[p].at = "none"
  BY DEF Init, NoProcess
<1>3. Family
  BY <1>2 DEF Family
<1>4. OwnDaemon
  BY DEF Init, OwnDaemon
<1>5. ASSUME ~doubt
      PROVE  NoDoubt
  <2>1. file \notin Pid
    BY <1>5 DEF Init
  <2>2. \A p \in Pid : ~Running(p)
    BY <1>2 DEF Running
  <2> QED BY <2>1, <2>2 DEF NoDoubt, LeaderAtWork, Is
<1> QED BY <1>1, <1>3, <1>4, <1>5 DEF IInv, DaemonInv

-------------------------------------------------------------------------------
(* The process table.                                                      *)

\* A process that runs is one.
LEMMA RunningTyped ==
  ASSUME TypeOK, NEW p \in Pid, Running(p)
  PROVE  proc[p] \in Process
<1>1. proc[p] \in Process \/ proc[p] = NoProcess
  BY DEF TypeOK
<1>2. proc[p].state = "run"
  BY DEF Running
<1>3. NoProcess.state = "free"
  BY DEF NoProcess
<1> QED BY <1>1, <1>2, <1>3

\* A new process starts at the start of its code.
LEMMA NewProcessTyped ==
  ASSUME NEW job \in Job, NEW parent \in Pid \cup {Sysmgr, InitPid}
  PROVE  /\ NewProcess(job, parent) \in Process
         /\ NewProcess(job, parent).state = "run"
         /\ NewProcess(job, parent).job = job
         /\ NewProcess(job, parent).at = "start"
BY DEF NewProcess, Process, Place

\* exit changes the exiting process's state, and its children's parent.
LEMMA ExitedTable ==
  ASSUME TypeOK, NEW p \in Pid, Running(p), Exited(p)
  PROVE  /\ proc' \in [Pid -> Process \cup {NoProcess}]
         /\ \A q \in Pid :
              /\ proc'[q].job = proc[q].job
              /\ proc'[q].at = proc[q].at
              /\ proc'[q].child = proc[q].child
              /\ proc'[q].state = IF q = p THEN "zombie" ELSE proc[q].state
<1>1. proc \in [Pid -> Process \cup {NoProcess}]
  BY DEF TypeOK
<1>2. proc[p] \in Process
  BY RunningTyped
<1>3. ASSUME NEW q \in Pid
      PROVE  /\ proc'[q] \in Process \cup {NoProcess}
             /\ proc'[q].job = proc[q].job
             /\ proc'[q].at = proc[q].at
             /\ proc'[q].child = proc[q].child
             /\ proc'[q].state = IF q = p THEN "zombie" ELSE proc[q].state
  <2>1. CASE q = p
    BY <1>2, <2>1 DEF Exited, Process
  <2>2. CASE q # p /\ proc[q].parent = p
    <3>1. proc[q] \in Process
      BY <1>1, <2>2, DaemonAssumption DEF NoProcess
    <3>2. proc'[q] = [proc[q] EXCEPT !.parent = InitPid]
      BY <2>2 DEF Exited
    <3> QED BY <3>1, <3>2, <2>2 DEF Process
  <2>3. CASE q # p /\ proc[q].parent # p
    BY <1>1, <2>3 DEF Exited
  <2> QED BY <2>1, <2>2, <2>3
<1>4. proc' = [q \in Pid |-> proc'[q]]
  BY DEF Exited
<1> QED BY <1>3, <1>4

\* A process that goes on changes its place only.
LEMMA GoesToTable ==
  ASSUME TypeOK, NEW p \in Pid, Running(p), NEW place \in Place, GoesTo(p, place)
  PROVE  /\ proc' \in [Pid -> Process \cup {NoProcess}]
         /\ \A q \in Pid :
              /\ proc'[q].job = proc[q].job
              /\ proc'[q].child = proc[q].child
              /\ proc'[q].state = proc[q].state
              /\ proc'[q].at = IF q = p THEN place ELSE proc[q].at
<1> DEFINE new == [proc[p] EXCEPT !.at = place]
<1>1. proc \in [Pid -> Process \cup {NoProcess}]
  BY DEF TypeOK
<1>2. proc[p] \in Process
  BY RunningTyped
<1>3. /\ new \in Process /\ new.job = proc[p].job /\ new.child = proc[p].child
      /\ new.state = proc[p].state /\ new.at = place
  BY <1>2 DEF Process
<1>4. proc' = [proc EXCEPT ![p] = new]
  BY DEF GoesTo
<1> HIDE DEF new
<1>5. proc' \in [Pid -> Process \cup {NoProcess}]
  BY <1>1, <1>3, <1>4
<1>6. ASSUME NEW q \in Pid
      PROVE  /\ proc'[q].job = proc[q].job
             /\ proc'[q].child = proc[q].child
             /\ proc'[q].state = proc[q].state
             /\ proc'[q].at = IF q = p THEN place ELSE proc[q].at
  <2>1. CASE q = p
    <3>1. proc'[q] = new
      BY <1>1, <1>4, <2>1
    <3> QED BY <1>3, <2>1, <3>1
  <2>2. CASE q # p
    <3>1. proc'[q] = proc[q]
      BY <1>1, <1>4, <2>2
    <3> QED BY <2>2, <3>1
  <2> QED BY <2>1, <2>2
<1> QED BY <1>5, <1>6

\* fork, for a process that remembers its child.
LEMMA ForksTable ==
  ASSUME TypeOK, NEW p \in Pid, Running(p), NEW q \in Pid, NEW job \in Job,
         Forks(p, q, job)
  PROVE  /\ proc' \in [Pid -> Process \cup {NoProcess}]
         /\ p # q /\ Free(q)
         /\ proc'[q].state = "run" /\ proc'[q].job = job /\ proc'[q].at = "start"
         /\ proc'[p].state = "run" /\ proc'[p].job = proc[p].job
         /\ proc'[p].at = "forked" /\ proc'[p].child = q
         /\ \A r \in Pid : r # p /\ r # q => proc'[r] = proc[r]
<1> DEFINE new == NewProcess(job, p)
           old == [proc[p] EXCEPT !.at = "forked", !.child = q]
<1>1. proc \in [Pid -> Process \cup {NoProcess}]
  BY DEF TypeOK
<1>2. proc[p] \in Process /\ proc[p].state = "run"
  BY RunningTyped DEF Running
<1>3. Free(q) /\ proc' = [proc EXCEPT ![q] = new, ![p] = old]
  BY DEF Forks
<1>4. /\ new \in Process /\ new.state = "run" /\ new.job = job /\ new.at = "start"
  BY NewProcessTyped
<1>5. /\ old \in Process /\ old.state = "run" /\ old.job = proc[p].job
      /\ old.at = "forked" /\ old.child = q
  BY <1>2 DEF Process, Place
<1> HIDE DEF new, old
<1>6. p # q
  BY <1>2, <1>3 DEF Free
<1>7. proc'[q] = new /\ proc'[p] = old
  BY <1>1, <1>3, <1>6
<1>8. proc' \in [Pid -> Process \cup {NoProcess}]
  BY <1>1, <1>3, <1>4, <1>5
<1>9. \A r \in Pid : r # p /\ r # q => proc'[r] = proc[r]
  BY <1>1, <1>3
<1> QED BY <1>3, <1>4, <1>5, <1>6, <1>7, <1>8, <1>9

-------------------------------------------------------------------------------
(* The steps.                                                              *)

\* A step in which no process becomes a leader or a controller, no leader or
\* controller goes on, and sysmgr does nothing but send SIGTERM, keeps the
\* invariant.
LEMMA Quieter ==
  ASSUME IInv, TypeOK',
         \A q \in Pid :
           \/ /\ proc'[q].job = proc[q].job
              /\ proc'[q].at = proc[q].at
              /\ proc'[q].child = proc[q].child
              /\ proc'[q].state = "run" => proc[q].state = "run"
           \/ /\ proc'[q].job \notin {"leader", "controller"}
              /\ proc'[q].at \notin {"forked", "write"},
         UNCHANGED <<file, ctrl, born, doubt>>,
         UNCHANGED <<at, target>> \/ (at = "kill" /\ at' = "unlink")
  PROVE  IInv'
<1>1. Family /\ OwnDaemon /\ (~doubt => NoDoubt)
  BY DEF IInv, DaemonInv
<1>2. Family'
  BY <1>1 DEF Family
<1>3. OwnDaemon'
  BY <1>1 DEF OwnDaemon
<1>4. ASSUME ~doubt'
      PROVE  NoDoubt'
  <2>1. NoDoubt
    BY <1>1, <1>4
  <2>2. ASSUME NEW q \in Pid, Running(q)', proc'[q].job = "leader"
        PROVE  /\ Running(q) /\ proc[q].job = "leader"
               /\ proc'[q].at = proc[q].at /\ proc'[q].child = proc[q].child
    BY <2>2 DEF Running
  <2>3. LeaderAtWork' => LeaderAtWork
    BY <2>2 DEF LeaderAtWork
  <2>4. ASSUME NEW q \in Pid, Is(q, "controller", "start")'
        PROVE  Is(q, "controller", "start")
    BY <2>4 DEF Is, Running
  <2>5. LeaderAtWork' => at' \in {"wait", "read"} /\ file' \notin Pid
    BY <2>1, <2>3 DEF NoDoubt
  <2>6. \A p, q \in Pid :
          /\ Running(p)' /\ proc'[p].job = "leader"
          /\ Running(q)' /\ proc'[q].job = "leader"
          => p = q
    BY <2>1, <2>2 DEF NoDoubt
  <2>7. \A p \in Pid : Running(p)' /\ proc'[p].job = "leader" =>
          born' = IF proc'[p].at = "start" THEN NoPid ELSE proc'[p].child
    BY <2>1, <2>2 DEF NoDoubt
  <2>8. (\E p \in Pid : Is(p, "controller", "start")') =>
          ~LeaderAtWork' /\ file' \notin Pid /\ born' = NoPid
    BY <2>1, <2>3, <2>4 DEF NoDoubt
  <2>9. file' \in Pid => file' = born' /\ at' # "prompt"
    BY <2>1 DEF NoDoubt
  <2> QED BY <2>5, <2>6, <2>7, <2>8, <2>9 DEF NoDoubt
<1> QED BY <1>2, <1>3, <1>4 DEF IInv, DaemonInv

\* A process exits, and sysmgr does nothing but send SIGTERM.
LEMMA ExitKeepsIInv ==
  ASSUME IInv, NEW p \in Pid, Running(p), Exited(p),
         UNCHANGED <<file, ctrl, born, doubt>>,
         \/ UNCHANGED <<at, target>>
         \/ at = "kill" /\ at' = "unlink" /\ target' = NoPid
  PROVE  IInv'
<1>1. TypeOK
  BY DEF IInv
<1>2. /\ proc' \in [Pid -> Process \cup {NoProcess}]
      /\ \A q \in Pid :
           /\ proc'[q].job = proc[q].job
           /\ proc'[q].at = proc[q].at
           /\ proc'[q].child = proc[q].child
           /\ proc'[q].state = IF q = p THEN "zombie" ELSE proc[q].state
  BY <1>1, ExitedTable
<1>3. TypeOK'
  BY <1>1, <1>2 DEF TypeOK
<1> QED BY <1>2, <1>3, Quieter

\* A process leaves the table.
LEMMA FreedTable ==
  ASSUME TypeOK, NEW p \in Pid, proc' = [proc EXCEPT ![p] = NoProcess]
  PROVE  /\ proc' \in [Pid -> Process \cup {NoProcess}]
         /\ \A q \in Pid : q # p => proc'[q] = proc[q]
         /\ proc'[p].state = "free" /\ proc'[p].job = "none" /\ proc'[p].at = "none"
BY DEF TypeOK, NoProcess

LEMMA FreeingSteps ==
  ASSUME IInv, NEW p \in Pid, InitReaps(p) \/ OtherEnds(p)
  PROVE  IInv'
<1>1. TypeOK
  BY DEF IInv
<1>2. /\ proc' = [proc EXCEPT ![p] = NoProcess]
      /\ UNCHANGED <<file, at, ctrl, target, born, doubt>>
  BY DEF InitReaps, OtherEnds
<1>3. /\ proc' \in [Pid -> Process \cup {NoProcess}]
      /\ \A q \in Pid : q # p => proc'[q] = proc[q]
      /\ proc'[p].state = "free" /\ proc'[p].job = "none" /\ proc'[p].at = "none"
  BY <1>1, <1>2, FreedTable
<1>4. TypeOK'
  BY <1>1, <1>2, <1>3 DEF TypeOK
<1> QED BY <1>2, <1>3, <1>4, Quieter

LEMMA OtherStartsStep ==
  ASSUME IInv, NEW p \in Pid, OtherStarts(p)
  PROVE  IInv'
<1> DEFINE new == NewProcess("other", InitPid)
<1>1. TypeOK /\ proc \in [Pid -> Process \cup {NoProcess}]
  BY DEF IInv, TypeOK
<1>2. /\ proc' = [proc EXCEPT ![p] = new]
      /\ UNCHANGED <<file, at, ctrl, target, born, doubt>>
  BY DEF OtherStarts
<1>3. new \in Process /\ new.job = "other" /\ new.at = "start"
  BY NewProcessTyped DEF Job
<1> HIDE DEF new
<1>4. /\ proc' \in [Pid -> Process \cup {NoProcess}]
      /\ proc'[p] = new
      /\ \A q \in Pid : q # p => proc'[q] = proc[q]
  BY <1>1, <1>2, <1>3
<1>5. TypeOK'
  BY <1>1, <1>2, <1>4 DEF TypeOK
<1>6. proc'[p].job \notin {"leader", "controller"} /\ proc'[p].at \notin {"forked", "write"}
  BY <1>3, <1>4
<1> QED BY <1>2, <1>4, <1>5, <1>6, Quieter

\* The daemon's steps, and a signal to it.
LEMMA DaemonGoesOn ==
  ASSUME IInv, NEW p \in Pid, Running(p), proc[p].job = "daemon",
         NEW place \in {"loop", "term"}, GoesTo(p, place),
         UNCHANGED <<file, ctrl, born, doubt>>,
         \/ UNCHANGED <<at, target>>
         \/ at = "kill" /\ at' = "unlink" /\ target' = NoPid
  PROVE  IInv'
<1>1. TypeOK
  BY DEF IInv
<1>2. place \in Place
  BY DEF Place
<1>3. /\ proc' \in [Pid -> Process \cup {NoProcess}]
      /\ \A q \in Pid :
           /\ proc'[q].job = proc[q].job
           /\ proc'[q].child = proc[q].child
           /\ proc'[q].state = proc[q].state
           /\ proc'[q].at = IF q = p THEN place ELSE proc[q].at
  BY <1>1, <1>2, GoesToTable
<1>4. TypeOK'
  BY <1>1, <1>3 DEF TypeOK
<1>5. proc'[p].job = "daemon" /\ proc'[p].at \notin {"forked", "write"}
  BY <1>3
<1> QED BY <1>3, <1>4, <1>5, Quieter

\* sysmgr begins a demo: no leader is at work when it was not in doubt.
LEMMA StartStep ==
  ASSUME IInv, NEW p \in Pid, Start(p)
  PROVE  IInv'
<1> DEFINE new == NewProcess("controller", Sysmgr)
<1>1. /\ TypeOK /\ proc \in [Pid -> Process \cup {NoProcess}]
      /\ Family /\ (~doubt => NoDoubt)
  BY DEF IInv, DaemonInv, TypeOK
<1>2. /\ at = "prompt" /\ at' = "wait"
      /\ proc' = [proc EXCEPT ![p] = new]
      /\ ctrl' = p /\ born' = NoPid
      /\ UNCHANGED <<file, target, doubt>>
  BY DEF Start
<1>3. /\ new \in Process /\ new.job = "controller" /\ new.at = "start"
  BY NewProcessTyped DEF Job
<1> HIDE DEF new
<1>4. /\ proc' \in [Pid -> Process \cup {NoProcess}]
      /\ proc'[p] = new
      /\ \A q \in Pid : q # p => proc'[q] = proc[q]
  BY <1>1, <1>2, <1>3
<1>5. TypeOK'
  BY <1>1, <1>2, <1>4 DEF TypeOK
<1>6. ctrl = NoPid
  BY <1>1, <1>2 DEF TypeOK
<1>7. Family'
  <2> SUFFICES ASSUME NEW q \in Pid
               PROVE  /\ proc'[q].at \in {"forked", "write"} => proc'[q].child \in Pid
                      /\ proc'[q].job = "controller" => q = ctrl'
    BY DEF Family
  <2>1. CASE q = p
    BY <2>1, <1>2, <1>3, <1>4
  <2>2. CASE q # p
    <3>1. proc'[q] = proc[q] /\ q # NoPid
      BY <2>2, <1>4, DaemonAssumption
    <3> QED BY <3>1, <1>1, <1>6 DEF Family
  <2> QED BY <2>1, <2>2
<1>8. OwnDaemon'
  BY <1>2 DEF OwnDaemon
<1>9. ASSUME ~doubt'
      PROVE  NoDoubt'
  <2>1. NoDoubt
    BY <1>1, <1>2, <1>9
  <2>2. ~LeaderAtWork /\ file \notin Pid
    BY <1>2, <2>1 DEF NoDoubt
  <2>3. ASSUME NEW q \in Pid
        PROVE  ~(Running(q)' /\ proc'[q].job = "leader")
    <3>1. CASE q = p
      BY <3>1, <1>3, <1>4
    <3>2. CASE q # p
      BY <3>2, <1>4, <2>2 DEF LeaderAtWork, Running
    <3> QED BY <3>1, <3>2
  <2>4. ~LeaderAtWork'
    BY <2>3 DEF LeaderAtWork
  <2> QED BY <1>2, <2>2, <2>3, <2>4 DEF NoDoubt
<1> QED BY <1>5, <1>7, <1>8, <1>9 DEF IInv, DaemonInv

\* The controller is gone, and it was the only one.
LEMMA WaitStep ==
  ASSUME IInv, NEW p \in Pid, WaitController(p)
  PROVE  IInv'
<1>1. TypeOK /\ Family /\ (~doubt => NoDoubt)
  BY DEF IInv, DaemonInv
<1>2. /\ at = "wait" /\ at' = "read" /\ p = ctrl /\ ctrl' = NoPid
      /\ proc' = [proc EXCEPT ![p] = NoProcess]
      /\ UNCHANGED <<file, target, born, doubt>>
  BY DEF WaitController
<1>3. /\ proc' \in [Pid -> Process \cup {NoProcess}]
      /\ \A q \in Pid : q # p => proc'[q] = proc[q]
      /\ proc'[p].state = "free" /\ proc'[p].job = "none" /\ proc'[p].at = "none"
  BY <1>1, <1>2, FreedTable
<1>4. TypeOK'
  BY <1>1, <1>2, <1>3 DEF TypeOK
<1>5. \A q \in Pid : proc'[q].job # "controller"
  BY <1>1, <1>2, <1>3 DEF Family
<1>6. Family'
  BY <1>1, <1>3, <1>5 DEF Family
<1>7. OwnDaemon'
  BY <1>2 DEF OwnDaemon
<1>8. ASSUME ~doubt'
      PROVE  NoDoubt'
  <2>1. NoDoubt
    BY <1>1, <1>2, <1>8
  <2>2. ASSUME NEW q \in Pid, Running(q)', proc'[q].job = "leader"
        PROVE  Running(q) /\ proc[q].job = "leader" /\ proc'[q] = proc[q]
    BY <2>2, <1>3 DEF Running
  <2>3. LeaderAtWork' => LeaderAtWork
    BY <2>2 DEF LeaderAtWork
  <2>4. LeaderAtWork' => at' \in {"wait", "read"} /\ file' \notin Pid
    BY <1>2, <2>1, <2>3 DEF NoDoubt
  <2>5. \A q, r \in Pid :
          /\ Running(q)' /\ proc'[q].job = "leader"
          /\ Running(r)' /\ proc'[r].job = "leader"
          => q = r
    BY <2>1, <2>2 DEF NoDoubt
  <2>6. \A q \in Pid : Running(q)' /\ proc'[q].job = "leader" =>
          born' = IF proc'[q].at = "start" THEN NoPid ELSE proc'[q].child
    BY <1>2, <2>1, <2>2 DEF NoDoubt
  <2>7. ~(\E q \in Pid : Is(q, "controller", "start")')
    BY <1>5 DEF Is
  <2>8. file' \in Pid => file' = born' /\ at' # "prompt"
    BY <1>2, <2>1 DEF NoDoubt
  <2> QED BY <2>4, <2>5, <2>6, <2>7, <2>8 DEF NoDoubt
<1> QED BY <1>4, <1>6, <1>7, <1>8 DEF IInv, DaemonInv

\* sysmgr reads the file, or removes it: when no leader is at work then, there
\* is no doubt.
LEMMA FileSteps ==
  ASSUME IInv, ReadPidFile \/ NoPidFile \/ Unlink
  PROVE  IInv'
<1>1. TypeOK /\ Family /\ (~doubt => NoDoubt)
  BY DEF IInv, DaemonInv
<1>2. /\ UNCHANGED <<proc, ctrl, born>> /\ at \in {"read", "unlink"}
      /\ \/ at' = "prompt" /\ target' = target
         \/ at' = "kill" /\ file \in Pid /\ target' = file /\ file' = file
      /\ file' \in {file, "absent"}
  <2>1. CASE ReadPidFile
    BY <2>1 DEF ReadPidFile
  <2>2. CASE NoPidFile
    BY <2>2 DEF NoPidFile
  <2>3. CASE Unlink
    BY <2>3, DaemonAssumption DEF Unlink
  <2> QED BY <2>1, <2>2, <2>3
<1>3. doubt \in BOOLEAN
  BY <1>1 DEF TypeOK
<1>4. doubt' \in BOOLEAN /\ (~doubt' => ~LeaderAtWork)
  <2>1. LeaderAtWork \in BOOLEAN
    BY DEF LeaderAtWork
  <2>2. CASE ReadPidFile
    <3>1. doubt' = (doubt \/ LeaderAtWork)
      BY <2>2 DEF ReadPidFile
    <3> QED BY <1>3, <2>1, <3>1, Zenon
  <2>3. CASE NoPidFile
    <3>1. doubt' = (file \in Pid \/ LeaderAtWork)
      BY <2>3 DEF NoPidFile
    <3> QED BY <2>1, <3>1, Zenon
  <2>4. CASE Unlink
    <3>1. doubt' = LeaderAtWork
      BY <2>4 DEF Unlink
    <3> QED BY <2>1, <3>1, Zenon
  <2> QED BY <2>2, <2>3, <2>4
<1>10. at' = "prompt" /\ ~doubt' => file' \notin Pid
  <2>1. CASE ReadPidFile
    BY <2>1 DEF ReadPidFile
  <2>2. CASE NoPidFile
    <3>1. doubt' = (file \in Pid \/ LeaderAtWork) /\ file' = file
      BY <2>2 DEF NoPidFile
    <3> QED BY <3>1, Zenon
  <2>3. CASE Unlink
    BY <2>3, DaemonAssumption DEF Unlink
  <2> QED BY <2>1, <2>2, <2>3
<1>5. at' = "kill" /\ ~doubt' => ~doubt
  <2>1. CASE ReadPidFile
    <3>1. doubt' = (doubt \/ LeaderAtWork)
      BY <2>1 DEF ReadPidFile
    <3> QED BY <1>3, <3>1, Zenon
  <2>2. CASE NoPidFile \/ Unlink
    BY <2>2 DEF NoPidFile, Unlink
  <2> QED BY <2>1, <2>2
<1>6. TypeOK'
  BY <1>1, <1>2, <1>4 DEF TypeOK
<1>7. Family'
  BY <1>1, <1>2 DEF Family
<1>8. \A p \in Pid : proc[p].job # "controller"
  <2>1. ctrl \notin Pid
    BY <1>1, <1>2, DaemonAssumption DEF TypeOK
  <2> QED BY <1>1, <2>1 DEF Family
<1>9. OwnDaemon'
  BY <1>1, <1>2, <1>5 DEF OwnDaemon, NoDoubt
<1>11. ASSUME ~doubt'
      PROVE  NoDoubt'
  <2>1. \A p \in Pid : ~(Running(p)' /\ proc'[p].job = "leader")
    BY <1>2, <1>11, <1>4 DEF LeaderAtWork, Running
  <2>2. \A p \in Pid : ~Is(p, "controller", "start")'
    BY <1>2, <1>8 DEF Is
  <2>3. file' \in Pid => file' = born' /\ at' # "prompt"
    BY <1>1, <1>2, <1>10, <1>11, <1>5 DEF NoDoubt
  <2> QED BY <2>1, <2>2, <2>3 DEF NoDoubt, LeaderAtWork
<1> QED BY <1>6, <1>7, <1>9, <1>11 DEF IInv, DaemonInv

\* The signal: a daemon takes note of it, or a process dies, or nothing happens.
LEMMA KillStep ==
  ASSUME IInv, NEW p \in Pid, Kill(p)
  PROVE  IInv'
<1>1. /\ at = "kill" /\ at' = "unlink" /\ target' = NoPid
      /\ UNCHANGED <<file, ctrl, born, doubt>>
  BY DEF Kill
<1>2. TypeOK
  BY DEF IInv
<1>3. CASE Running(p) /\ proc[p].job = "daemon" /\ GoesTo(p, "term")
  BY <1>1, <1>3, DaemonGoesOn
<1>4. CASE Running(p) /\ Exited(p)
  BY <1>1, <1>4, ExitKeepsIInv
<1>5. CASE UNCHANGED proc
  <2>1. TypeOK'
    BY <1>1, <1>2, <1>5 DEF TypeOK
  <2> QED BY <1>1, <1>5, <2>1, Quieter
<1> QED BY <1>3, <1>4, <1>5 DEF Kill, Signalled

LEMMA DaemonStep ==
  ASSUME IInv, NEW p \in Pid, DaemonStarts(p) \/ DaemonEnds(p)
  PROVE  IInv'
<1>1. /\ Running(p) /\ proc[p].job = "daemon"
      /\ GoesTo(p, "loop") \/ Exited(p)
      /\ UNCHANGED <<file, at, ctrl, target, born, doubt>>
  BY DEF DaemonStarts, DaemonEnds, Is
<1>2. CASE GoesTo(p, "loop")
  BY <1>1, <1>2, DaemonGoesOn
<1>3. CASE Exited(p)
  BY <1>1, <1>3, ExitKeepsIInv
<1> QED BY <1>1, <1>2, <1>3

\* The controller forks the leader.  When there is no doubt it is the only one.
LEMMA ControllerStep ==
  ASSUME IInv, NEW p \in Pid, Controller(p)
  PROVE  IInv'
<1>1. UNCHANGED <<file, at, ctrl, target, born, doubt>>
  BY DEF Controller
<1>2. CASE Running(p) /\ Exited(p)
  BY <1>1, <1>2, ExitKeepsIInv
<1>3. ASSUME Is(p, "controller", "start"), NEW q \in Pid, Forks(p, q, "leader")
      PROVE  IInv'
  <2>1. TypeOK /\ Family /\ (~doubt => NoDoubt) /\ OwnDaemon
    BY DEF IInv, DaemonInv
  <2>2. Running(p) /\ proc[p].job = "controller" /\ proc[p].at = "start"
    BY <1>3 DEF Is
  <2>3. /\ proc' \in [Pid -> Process \cup {NoProcess}]
        /\ p # q /\ Free(q)
        /\ proc'[q].state = "run" /\ proc'[q].job = "leader" /\ proc'[q].at = "start"
        /\ proc'[p].state = "run" /\ proc'[p].job = proc[p].job
        /\ proc'[p].at = "forked" /\ proc'[p].child = q
        /\ \A r \in Pid : r # p /\ r # q => proc'[r] = proc[r]
    BY <1>3, <2>1, <2>2, ForksTable DEF Job
  <2>4. TypeOK'
    BY <1>1, <2>1, <2>3 DEF TypeOK
  <2>5. Family'
    BY <1>1, <2>1, <2>3 DEF Family
  <2>6. OwnDaemon'
    BY <1>1, <2>1 DEF OwnDaemon
  <2>7. ASSUME ~doubt'
        PROVE  NoDoubt'
    <3>1. NoDoubt
      BY <1>1, <2>1, <2>7
    <3>2. ~LeaderAtWork /\ file \notin Pid /\ born = NoPid
      BY <1>3, <3>1 DEF NoDoubt
    <3>3. at = "wait"
      <4>1. p = ctrl
        BY <2>1, <2>2 DEF Family
      <4> QED BY <2>1, <4>1, DaemonAssumption DEF TypeOK
    <3>4. ASSUME NEW r \in Pid, Running(r)', proc'[r].job = "leader"
          PROVE  r = q
      <4>1. r # p
        BY <2>2, <2>3, <3>4
      <4> QED BY <2>3, <3>2, <3>4, <4>1 DEF LeaderAtWork, Running
    <3>5. \A r \in Pid : ~Is(r, "controller", "start")'
      <4> SUFFICES ASSUME NEW r \in Pid, Is(r, "controller", "start")'
                   PROVE  FALSE
        OBVIOUS
      <4>1. proc'[r].job = "controller" /\ proc'[r].at = "start"
        BY DEF Is
      <4>2. r = p
        <5>1. p = ctrl
          BY <2>1, <2>2 DEF Family
        <5>2. r = ctrl'
          BY <2>5, <4>1 DEF Family
        <5> QED BY <1>1, <5>1, <5>2
      <4> QED BY <2>3, <4>1, <4>2
    <3>6. LeaderAtWork' => at' \in {"wait", "read"} /\ file' \notin Pid
      BY <1>1, <3>2, <3>3
    <3>7. \A r \in Pid : Running(r)' /\ proc'[r].job = "leader" =>
            born' = IF proc'[r].at = "start" THEN NoPid ELSE proc'[r].child
      BY <1>1, <2>3, <3>2, <3>4
    <3> QED BY <1>1, <3>2, <3>4, <3>5, <3>6, <3>7 DEF NoDoubt
  <2> QED BY <2>4, <2>5, <2>6, <2>7 DEF IInv, DaemonInv
<1> QED BY <1>2, <1>3 DEF Controller

\* The leader forks the daemon, which is then the one born last.
LEMMA LeaderForksStep ==
  ASSUME IInv, NEW p \in Pid, LeaderForks(p)
  PROVE  IInv'
<1>1. TypeOK /\ Family /\ (~doubt => NoDoubt) /\ OwnDaemon
  BY DEF IInv, DaemonInv
<1>2. Running(p) /\ proc[p].job = "leader" /\ proc[p].at = "start"
  BY DEF LeaderForks, Is
<1>3. PICK q \in Pid : Forks(p, q, "daemon") /\ born' = q
  BY DEF LeaderForks
<1>4. UNCHANGED <<file, at, ctrl, target, doubt>>
  BY DEF LeaderForks
<1>5. /\ proc' \in [Pid -> Process \cup {NoProcess}]
      /\ p # q /\ Free(q)
      /\ proc'[q].state = "run" /\ proc'[q].job = "daemon" /\ proc'[q].at = "start"
      /\ proc'[p].state = "run" /\ proc'[p].job = proc[p].job
      /\ proc'[p].at = "forked" /\ proc'[p].child = q
      /\ \A r \in Pid : r # p /\ r # q => proc'[r] = proc[r]
  BY <1>1, <1>2, <1>3, ForksTable DEF Job
<1>6. TypeOK'
  BY <1>1, <1>3, <1>4, <1>5 DEF TypeOK
<1>7. Family'
  BY <1>1, <1>4, <1>5 DEF Family
<1>8. ASSUME ~doubt
      PROVE  NoDoubt /\ LeaderAtWork
  BY <1>1, <1>2, <1>8 DEF LeaderAtWork
<1>9. OwnDaemon'
  BY <1>4, <1>8 DEF OwnDaemon, NoDoubt
<1>10. ASSUME ~doubt'
       PROVE  NoDoubt'
  <2>1. NoDoubt /\ at \in {"wait", "read"} /\ file \notin Pid
    BY <1>4, <1>8, <1>10 DEF NoDoubt
  <2>2. ASSUME NEW r \in Pid, Running(r)', proc'[r].job = "leader"
        PROVE  r = p
    <3>1. r # q
      BY <1>5, <2>2
    <3> QED BY <1>2, <1>5, <2>1, <2>2, <3>1 DEF NoDoubt, Running
  <2>3. \A r \in Pid : ~Is(r, "controller", "start")'
    <3> SUFFICES ASSUME NEW r \in Pid, Is(r, "controller", "start")'
                 PROVE  FALSE
      OBVIOUS
    <3>1. Running(r)' /\ proc'[r].job = "controller" /\ proc'[r].at = "start"
      BY DEF Is
    <3>2. r # p /\ r # q
      BY <1>5, <3>1
    <3>3. Is(r, "controller", "start")
      BY <1>5, <3>1, <3>2 DEF Is, Running
    <3> QED BY <1>2, <2>1, <3>3 DEF NoDoubt, LeaderAtWork
  <2> QED BY <1>3, <1>4, <1>5, <2>1, <2>2, <2>3 DEF NoDoubt
<1> QED BY <1>6, <1>7, <1>9, <1>10 DEF IInv, DaemonInv

\* The leader creates the pid file.
LEMMA LeaderOpensStep ==
  ASSUME IInv, NEW p \in Pid, LeaderOpens(p)
  PROVE  IInv'
<1>1. TypeOK /\ Family /\ (~doubt => NoDoubt) /\ OwnDaemon
  BY DEF IInv, DaemonInv
<1>2. Running(p) /\ proc[p].job = "leader" /\ proc[p].at = "forked"
  BY DEF LeaderOpens, Is
<1>3. /\ file' = "empty" /\ GoesTo(p, "write")
      /\ UNCHANGED <<at, ctrl, target, born, doubt>>
  BY DEF LeaderOpens
<1>4. /\ proc' \in [Pid -> Process \cup {NoProcess}]
      /\ \A q \in Pid :
           /\ proc'[q].job = proc[q].job
           /\ proc'[q].child = proc[q].child
           /\ proc'[q].state = proc[q].state
           /\ proc'[q].at = IF q = p THEN "write" ELSE proc[q].at
  BY <1>1, <1>2, <1>3, GoesToTable DEF Place
<1>5. TypeOK'
  BY <1>1, <1>3, <1>4 DEF TypeOK
<1>6. Family'
  BY <1>1, <1>2, <1>3, <1>4 DEF Family
<1>7. OwnDaemon'
  BY <1>1, <1>3 DEF OwnDaemon
<1>8. ASSUME ~doubt'
      PROVE  NoDoubt'
  <2>1. NoDoubt
    BY <1>1, <1>3, <1>8
  <2>2. LeaderAtWork /\ at \in {"wait", "read"}
    BY <1>2, <2>1 DEF NoDoubt, LeaderAtWork
  <2>3. ASSUME NEW r \in Pid, Running(r)', proc'[r].job = "leader"
        PROVE  r = p
    BY <1>2, <1>4, <2>1, <2>3 DEF NoDoubt, Running
  <2>4. \A r \in Pid : ~Is(r, "controller", "start")'
    <3> SUFFICES ASSUME NEW r \in Pid, Is(r, "controller", "start")'
                 PROVE  FALSE
      OBVIOUS
    <3>1. Running(r)' /\ proc'[r].job = "controller" /\ proc'[r].at = "start"
      BY DEF Is
    <3>2. Is(r, "controller", "start")
      BY <1>2, <1>4, <3>1 DEF Is, Running
    <3> QED BY <2>1, <2>2, <3>2 DEF NoDoubt
  <2>5. born' = proc'[p].child /\ proc'[p].at # "start"
    BY <1>2, <1>3, <1>4, <2>1 DEF NoDoubt
  <2>6. file' \notin Pid
    BY <1>3, DaemonAssumption
  <2> QED BY <1>3, <2>2, <2>3, <2>4, <2>5, <2>6 DEF NoDoubt
<1> QED BY <1>5, <1>6, <1>7, <1>8 DEF IInv, DaemonInv

\* The leader writes the number of its child, or fails to, and exits.
LEMMA LeaderWritesStep ==
  ASSUME IInv, NEW p \in Pid, LeaderWrites(p)
  PROVE  IInv'
<1>1. TypeOK /\ Family /\ (~doubt => NoDoubt) /\ OwnDaemon
  BY DEF IInv, DaemonInv
<1>2. Running(p) /\ proc[p].job = "leader" /\ proc[p].at = "write"
  BY DEF LeaderWrites, Is
<1>3. /\ file' \in {file, proc[p].child} /\ Exited(p)
      /\ UNCHANGED <<at, ctrl, target, born, doubt>>
  BY DEF LeaderWrites
<1>4. /\ proc' \in [Pid -> Process \cup {NoProcess}]
      /\ \A q \in Pid :
           /\ proc'[q].job = proc[q].job
           /\ proc'[q].at = proc[q].at
           /\ proc'[q].child = proc[q].child
           /\ proc'[q].state = IF q = p THEN "zombie" ELSE proc[q].state
  BY <1>1, <1>2, <1>3, ExitedTable
<1>5. proc[p].child \in Pid
  BY <1>1, <1>2 DEF Family
<1>6. TypeOK'
  BY <1>1, <1>3, <1>4, <1>5 DEF TypeOK
<1>7. Family'
  BY <1>1, <1>3, <1>4 DEF Family
<1>8. OwnDaemon'
  BY <1>1, <1>3 DEF OwnDaemon
<1>9. ASSUME ~doubt'
      PROVE  NoDoubt'
  <2>1. NoDoubt
    BY <1>1, <1>3, <1>9
  <2>2. LeaderAtWork /\ at \in {"wait", "read"} /\ file \notin Pid
    BY <1>2, <2>1 DEF NoDoubt, LeaderAtWork
  <2>3. \A r \in Pid : ~(Running(r)' /\ proc'[r].job = "leader")
    <3> SUFFICES ASSUME NEW r \in Pid, Running(r)', proc'[r].job = "leader"
                 PROVE  FALSE
      OBVIOUS
    <3>1. r # p /\ Running(r) /\ proc[r].job = "leader"
      BY <1>4 DEF Running
    <3> QED BY <1>2, <2>1, <3>1 DEF NoDoubt
  <2>4. \A r \in Pid : ~Is(r, "controller", "start")'
    <3> SUFFICES ASSUME NEW r \in Pid, Is(r, "controller", "start")'
                 PROVE  FALSE
      OBVIOUS
    <3>1. Running(r)' /\ proc'[r].job = "controller" /\ proc'[r].at = "start"
      BY DEF Is
    <3>2. Is(r, "controller", "start")
      BY <1>2, <1>4, <3>1 DEF Is, Running
    <3> QED BY <2>1, <2>2, <3>2 DEF NoDoubt
  <2>5. born = proc[p].child
    BY <1>2, <2>1 DEF NoDoubt
  <2>6. file' \in Pid => file' = born' /\ at' # "prompt"
    BY <1>3, <2>2, <2>5
  <2> QED BY <2>3, <2>4, <2>6 DEF NoDoubt, LeaderAtWork
<1> QED BY <1>6, <1>7, <1>8, <1>9 DEF IInv, DaemonInv

LEMMA LeaderExitsStep ==
  ASSUME IInv, NEW p \in Pid, LeaderExits(p)
  PROVE  IInv'
<1>1. Running(p) /\ Exited(p) /\ UNCHANGED <<file, at, ctrl, target, born, doubt>>
  BY DEF LeaderExits, Is
<1> QED BY <1>1, ExitKeepsIInv

-------------------------------------------------------------------------------
\* IInv is an inductive invariant of the demo.
LEMMA Inductive == Spec => []IInv
<1>1. IInv /\ [Next]_vars => IInv'
  <2> SUFFICES ASSUME IInv, [Next]_vars PROVE IInv'
    OBVIOUS
  <2>1. CASE Demo
    BY <2>1, FileSteps, WaitStep, KillStep DEF Demo
  <2>2. ASSUME NEW p \in Pid, Child(p)
        PROVE  IInv'
    BY <2>2, ControllerStep, DaemonStep, LeaderForksStep, LeaderOpensStep,
       LeaderWritesStep, LeaderExitsStep DEF Child, Leader
  <2>3. ASSUME NEW p \in Pid,
               Start(p) \/ InitReaps(p) \/ OtherStarts(p) \/ OtherEnds(p)
        PROVE  IInv'
    BY <2>3, StartStep, FreeingSteps, OtherStartsStep
  <2>4. CASE UNCHANGED vars
    <3>1. UNCHANGED <<proc, file, at, ctrl, target, born, doubt>>
      BY <2>4 DEF vars
    <3>2. TypeOK'
      BY <3>1 DEF IInv, TypeOK
    <3> QED BY <3>1, <3>2, Quieter
  <2> QED BY <2>1, <2>2, <2>3, <2>4 DEF Next
<1> QED BY InitIInv, <1>1, PTL DEF Spec

\* The process table, the pid file and sysmgr's locals keep their types; in
\* particular SIGTERM is sent to one process.
THEOREM DaemonTyping == Spec => []TypeOK
<1>1. IInv => TypeOK
  BY DEF IInv
<1> QED BY Inductive, <1>1, PTL

\* Unless an earlier demo has left its pid file or a leader at work, SIGTERM
\* goes to the daemon this demo has forked, whichever of its forks, opens and
\* writes fail.
THEOREM SignalsOwnDaemon == Spec => []OwnDaemon
<1>1. IInv => OwnDaemon
  BY DEF IInv, DaemonInv
<1> QED BY Inductive, <1>1, PTL
===============================================================================
