-------------------------- MODULE ProcessDemosProofs --------------------------
(***************************************************************************)
(* For any set of process numbers: the types, and what the demos leave     *)
(* behind among the children of sysmgr.                                    *)
(***************************************************************************)
EXTENDS ProcessDemos, TLAPS

IInv == TypeOK /\ DemoInv

\* Nothing is running at first.
LEMMA InitIInv == Init => IInv
<1> SUFFICES ASSUME Init PROVE IInv
  OBVIOUS
<1>1. TypeOK
  BY DEF Init, TypeOK
<1>2. \A p \in Pid : proc[p].job = "none" /\ proc[p].parent = NoPid
  BY DEF Init, NoProcess
<1>3. DemoInv
  BY <1>2, PidAssumption DEF Init, DemoInv
<1> QED BY <1>1, <1>3 DEF IInv

\* exit changes the exiting process's state and its children's parent only.
LEMMA ExitedTable ==
  ASSUME TypeOK, NEW p \in Pid, ~Free(p), Exited(p)
  PROVE  /\ proc' \in [Pid -> Process \cup {NoProcess}]
         /\ \A q \in Pid :
              /\ proc'[q].job = proc[q].job
              /\ proc'[q].state = IF q = p THEN "zombie" ELSE proc[q].state
              /\ \/ proc'[q].parent = proc[q].parent
                 \/ proc[q].parent = p /\ proc'[q].parent = InitPid
<1>1. proc \in [Pid -> Process \cup {NoProcess}]
  BY DEF TypeOK
<1>2. proc[p] \in Process
  BY <1>1 DEF Free, NoProcess
<1>3. ASSUME NEW q \in Pid
      PROVE  /\ proc'[q] \in Process \cup {NoProcess}
             /\ proc'[q].job = proc[q].job
             /\ proc'[q].state = IF q = p THEN "zombie" ELSE proc[q].state
             /\ \/ proc'[q].parent = proc[q].parent
                \/ proc[q].parent = p /\ proc'[q].parent = InitPid
  <2>1. CASE q = p
    BY <1>2, <2>1 DEF Exited, Process
  <2>2. CASE q # p /\ proc[q].parent = p
    <3>1. proc[q] \in Process
      BY <1>1, <2>2, PidAssumption DEF NoProcess
    <3>2. proc'[q] = [proc[q] EXCEPT !.parent = InitPid]
      BY <2>2 DEF Exited
    <3> QED BY <3>1, <3>2, <2>2 DEF Process
  <2>3. CASE q # p /\ proc[q].parent # p
    BY <1>1, <2>3 DEF Exited
  <2> QED BY <2>1, <2>2, <2>3
<1>4. proc' = [q \in Pid |-> proc'[q]]
  BY DEF Exited
<1> QED BY <1>3, <1>4

\* When a child exits, and sysmgr does nothing, the invariant is kept.
LEMMA ExitKeepsIInv ==
  ASSUME IInv, NEW p \in Pid, Running(p), Exited(p),
         UNCHANGED <<cmd, at, kid, waited, again>>,
         adoption' \in {"unknown", "detected", "not detected"}
  PROVE  IInv'
<1>1. ~Free(p) /\ TypeOK /\ DemoInv
  BY DEF Running, Free, IInv
<1>2. /\ proc' \in [Pid -> Process \cup {NoProcess}]
      /\ \A q \in Pid :
           /\ proc'[q].job = proc[q].job
           /\ proc'[q].state = IF q = p THEN "zombie" ELSE proc[q].state
           /\ \/ proc'[q].parent = proc[q].parent
              \/ proc[q].parent = p /\ proc'[q].parent = InitPid
  BY <1>1, ExitedTable
<1>3. TypeOK'
  BY <1>1, <1>2 DEF TypeOK
<1>4. \A q \in Pid :
        /\ proc'[q].job = "orphan" => proc'[q].parent = Sysmgr
        /\ proc'[q].parent = Sysmgr =>
             \/ proc'[q].job \in {"terminal", "wait"}
             \/ q = kid' /\ at' \in {"look", "waitpid"} /\ proc'[q].job = cmd'
  <2> TAKE q \in Pid
  <2>1. /\ proc[q].job = "orphan" => proc[q].parent = Sysmgr
        /\ proc[q].parent = Sysmgr =>
             \/ proc[q].job \in {"terminal", "wait"}
             \/ q = kid /\ at \in {"look", "waitpid"} /\ proc[q].job = cmd
    BY <1>1 DEF DemoInv
  <2>2. /\ proc'[q].job = proc[q].job
        /\ \/ proc'[q].parent = proc[q].parent
           \/ proc[q].parent = p /\ proc'[q].parent = InitPid
    BY <1>2
  <2>3. p # Sysmgr /\ InitPid # Sysmgr
    BY PidAssumption
  <2> QED BY <2>1, <2>2, <2>3
<1>5. at' = "recheck" => proc'[kid'].job \in {"none", "other"}
  <2> SUFFICES ASSUME at' = "recheck" PROVE proc'[kid'].job \in {"none", "other"}
    OBVIOUS
  <2>1. proc[kid].job \in {"none", "other"} /\ kid \in Pid
    BY <1>1 DEF DemoInv, TypeOK
  <2> QED BY <1>2, <2>1
<1> QED BY <1>1, <1>3, <1>4, <1>5 DEF IInv, DemoInv

\* A process that runs is one.
LEMMA RunningTyped ==
  ASSUME TypeOK, NEW p \in Pid, Running(p)
  PROVE  proc[p] \in Process
<1>1. proc[p] \in Process \/ proc[p] = NoProcess
  BY DEF TypeOK
<1>2. proc[p].state = "run"
  BY DEF Running
<1>3. NoProcess.state = "free"
  BY DEF NoProcess
<1> QED BY <1>1, <1>2, <1>3

\* A new process may take a free number, for a terminal, a demo that begins or
\* the grandchild.
LEMMA NewProcessTyped ==
  ASSUME NEW job \in Job, NEW parent \in Pid \cup {Sysmgr, InitPid}
  PROVE  NewProcess(job, parent) \in Process
BY DEF NewProcess, Process

\* A process that leaves the table leaves the invariant alone, wherever sysmgr
\* goes then.
LEMMA FreedTable ==
  ASSUME TypeOK, NEW p \in Pid, proc' = [proc EXCEPT ![p] = NoProcess]
  PROVE  /\ proc' \in [Pid -> Process \cup {NoProcess}]
         /\ \A q \in Pid : q # p => proc'[q] = proc[q]
         /\ proc'[p].state = "free" /\ proc'[p].job = "none" /\ proc'[p].parent = NoPid
BY DEF TypeOK, NoProcess

LEMMA OpenTerminalStep ==
  ASSUME IInv, NEW p \in Pid, OpenTerminal(p)
  PROVE  IInv'
<1> DEFINE new == NewProcess("terminal", Sysmgr)
<1>1. TypeOK /\ DemoInv
  BY DEF IInv
<1>2. proc' = [proc EXCEPT ![p] = new] /\ cmd = "none"
      /\ UNCHANGED <<cmd, at, kid, waited, again, adoption>>
  BY DEF OpenTerminal, Fork
<1>3. new \in Process /\ new.job = "terminal" /\ new.parent = Sysmgr
  BY NewProcessTyped DEF Job, NewProcess
<1> HIDE DEF new
<1>4. TypeOK'
  BY <1>1, <1>2, <1>3 DEF TypeOK
<1>5. at = "prompt"
  BY <1>1, <1>2 DEF TypeOK
<1>6. DemoInv'
  BY <1>1, <1>2, <1>3, <1>5 DEF DemoInv, TypeOK
<1> QED BY <1>4, <1>6 DEF IInv

LEMMA StartDemoStep ==
  ASSUME IInv, NEW p \in Pid, NEW d \in Demo, StartDemo(d, p)
  PROVE  IInv'
<1> DEFINE new == NewProcess(d, Sysmgr)
<1>1. TypeOK /\ DemoInv
  BY DEF IInv
<1>2. /\ proc' = [proc EXCEPT ![p] = new] /\ cmd = "none"
      /\ cmd' = d /\ at' = AfterFork[d] /\ kid' = p
      /\ adoption' = "unknown" /\ UNCHANGED <<waited, again>>
  BY DEF StartDemo, Fork
<1>3. new \in Process /\ new.job = d /\ new.parent = Sysmgr
  BY NewProcessTyped DEF Job, NewProcess
<1>4. /\ at' \in {"waitpid", "wait", "look"}
      /\ at' = "wait" <=> d = "wait"
      /\ at' = "look" <=> d = "zombie"
  BY <1>2 DEF AfterFork, Demo
<1> HIDE DEF new
<1>5. TypeOK'
  BY <1>1, <1>2, <1>3, <1>4 DEF TypeOK, Demo
<1>6. at = "prompt"
  BY <1>1, <1>2 DEF TypeOK
<1>7. \A q \in Pid :
        /\ proc'[q].job = "orphan" => proc'[q].parent = Sysmgr
        /\ proc'[q].parent = Sysmgr =>
             \/ proc'[q].job \in {"terminal", "wait"}
             \/ q = kid' /\ at' \in {"look", "waitpid"} /\ proc'[q].job = cmd'
  <2> TAKE q \in Pid
  <2>1. CASE q = p
    BY <2>1, <1>1, <1>2, <1>3, <1>4 DEF TypeOK
  <2>2. CASE q # p
    BY <2>2, <1>1, <1>2, <1>6 DEF TypeOK, DemoInv
  <2> QED BY <2>1, <2>2
<1>8. DemoInv'
  BY <1>1, <1>2, <1>4, <1>7 DEF DemoInv
<1> QED BY <1>5, <1>8 DEF IInv

\* waitpid takes exactly the child of the current demo.
LEMMA WaitpidStep ==
  ASSUME IInv, NEW p \in Pid, Waitpid(p)
  PROVE  IInv'
<1>1. TypeOK /\ DemoInv
  BY DEF IInv
<1>2. /\ at = "waitpid" /\ p = kid /\ proc[p].parent = Sysmgr /\ Zombie(p)
      /\ proc' = [proc EXCEPT ![p] = NoProcess] /\ waited' = p
      /\ at' = AfterWaitpid[cmd] /\ UNCHANGED <<cmd, kid, again, adoption>>
  BY DEF Waitpid, Reap
<1>3. cmd \in Demo \ {"wait"}
  BY <1>1, <1>2 DEF TypeOK, DemoInv
<1>4. /\ at' \in {"report", "recheck", "sleep"}
      /\ at' = "recheck" => cmd = "zombie"
  BY <1>2, <1>3 DEF AfterWaitpid, Demo
<1>5. /\ proc' \in [Pid -> Process \cup {NoProcess}]
      /\ \A q \in Pid : q # p => proc'[q] = proc[q]
      /\ proc'[p].state = "free" /\ proc'[p].job = "none" /\ proc'[p].parent = NoPid
  BY <1>1, <1>2, FreedTable
<1>6. TypeOK'
  BY <1>1, <1>2, <1>3, <1>4, <1>5 DEF TypeOK
<1>7. \A q \in Pid :
        /\ proc'[q].job = "orphan" => proc'[q].parent = Sysmgr
        /\ proc'[q].parent = Sysmgr => proc'[q].job \in {"terminal", "wait"}
  <2> TAKE q \in Pid
  <2>1. CASE q = p
    BY <2>1, <1>5, PidAssumption
  <2>2. CASE q # p
    BY <2>2, <1>1, <1>2, <1>5 DEF DemoInv
  <2> QED BY <2>1, <2>2
<1>8. DemoInv'
  BY <1>1, <1>2, <1>3, <1>4, <1>5, <1>7 DEF DemoInv, Free
<1> QED BY <1>6, <1>8 DEF IInv

\* wait takes some child, which need not be the demo's.
LEMMA WaitStep ==
  ASSUME IInv, NEW p \in Pid, Wait(p)
  PROVE  IInv'
<1>1. TypeOK /\ DemoInv
  BY DEF IInv
<1>2. /\ at = "wait" /\ at' = "report" /\ waited' = p
      /\ proc' = [proc EXCEPT ![p] = NoProcess]
      /\ UNCHANGED <<cmd, kid, again, adoption>>
  BY DEF Wait, Reap
<1>3. /\ proc' \in [Pid -> Process \cup {NoProcess}]
      /\ \A q \in Pid : q # p => proc'[q] = proc[q]
      /\ proc'[p].state = "free" /\ proc'[p].job = "none" /\ proc'[p].parent = NoPid
  BY <1>1, <1>2, FreedTable
<1>4. cmd = "wait"
  BY <1>1, <1>2 DEF DemoInv
<1>5. TypeOK'
  BY <1>1, <1>2, <1>3, <1>4 DEF TypeOK, Demo
<1>6. \A q \in Pid :
        /\ proc'[q].job = "orphan" => proc'[q].parent = Sysmgr
        /\ proc'[q].parent = Sysmgr => proc'[q].job \in {"terminal", "wait"}
  <2> TAKE q \in Pid
  <2>1. CASE q = p
    BY <2>1, <1>3, PidAssumption
  <2>2. CASE q # p
    BY <2>2, <1>1, <1>2, <1>3 DEF DemoInv
  <2> QED BY <2>1, <2>2
<1>7. DemoInv'
  BY <1>1, <1>2, <1>4, <1>6 DEF DemoInv
<1> QED BY <1>5, <1>7 DEF IInv

\* The other steps of sysmgr do not touch the process table.
LEMMA OwnSteps ==
  ASSUME IInv, LookAtChild \/ LookAgain \/ SleepForGrandchild \/ Report
  PROVE  IInv'
<1>1. TypeOK /\ DemoInv
  BY DEF IInv
<1>2. CASE LookAtChild
  <2>1. TypeOK'
    BY <1>1, <1>2 DEF LookAtChild, TypeOK
  <2>2. DemoInv'
    BY <1>1, <1>2 DEF LookAtChild, DemoInv, Free
  <2> QED BY <2>1, <2>2 DEF IInv
<1>3. CASE LookAgain
  <2>1. proc[kid].job \in {"none", "other"} /\ cmd = "zombie"
    BY <1>1, <1>3 DEF LookAgain, DemoInv
  <2>2. again' \in {"none", "other"} /\ at' = "report" /\ UNCHANGED <<proc, cmd, kid, waited, adoption>>
    BY <1>3, <2>1 DEF LookAgain
  <2>3. TypeOK'
    BY <1>1, <2>1, <2>2 DEF TypeOK, Job
  <2>4. DemoInv'
    BY <1>1, <1>3, <2>1, <2>2 DEF LookAgain, DemoInv
  <2> QED BY <2>3, <2>4 DEF IInv
<1>4. CASE SleepForGrandchild
  <2>1. TypeOK'
    BY <1>1, <1>4 DEF SleepForGrandchild, TypeOK
  <2>2. DemoInv'
    BY <1>1, <1>4 DEF SleepForGrandchild, DemoInv
  <2> QED BY <2>1, <2>2 DEF IInv
<1>5. CASE Report
  <2>1. TypeOK'
    BY <1>1, <1>5 DEF Report, TypeOK
  <2>2. DemoInv'
    BY <1>1, <1>5 DEF Report, DemoInv
  <2> QED BY <2>1, <2>2 DEF IInv
<1> QED BY <1>2, <1>3, <1>4, <1>5

\* A child that goes on without exiting keeps its job and its parent.
LEMMA GoesOn ==
  ASSUME IInv, NEW p \in Pid, Running(p),
         NEW new \in Process, new.state = proc[p].state, new.job = proc[p].job,
         new.parent = proc[p].parent,
         proc' = [proc EXCEPT ![p] = new],
         UNCHANGED <<cmd, at, kid, waited, again, adoption>>
  PROVE  IInv'
<1>1. TypeOK /\ DemoInv
  BY DEF IInv
<1>2. proc \in [Pid -> Process \cup {NoProcess}]
  BY <1>1 DEF TypeOK
<1>3. proc' \in [Pid -> Process \cup {NoProcess}]
  BY <1>2
<1>4. ASSUME NEW q \in Pid
      PROVE  /\ proc'[q].job = proc[q].job
             /\ proc'[q].parent = proc[q].parent
             /\ proc'[q].state = proc[q].state
  <2>1. CASE q = p
    <3>1. proc'[q] = new
      BY <1>2, <2>1
    <3> QED BY <2>1, <3>1
  <2>2. CASE q # p
    <3>1. proc'[q] = proc[q]
      BY <1>2, <2>2
    <3> QED BY <3>1
  <2> QED BY <2>1, <2>2
<1>5. TypeOK'
  BY <1>1, <1>3 DEF TypeOK
<1>6. \A q \in Pid :
        /\ proc'[q].job = "orphan" => proc'[q].parent = Sysmgr
        /\ proc'[q].parent = Sysmgr =>
             \/ proc'[q].job \in {"terminal", "wait"}
             \/ q = kid' /\ at' \in {"look", "waitpid"} /\ proc'[q].job = cmd'
  <2> TAKE q \in Pid
  <2> QED BY <1>1, <1>4 DEF DemoInv
<1>7. at' = "recheck" => proc'[kid'].job \in {"none", "other"}
  <2>1. SUFFICES ASSUME at = "recheck"
                 PROVE  proc'[kid].job \in {"none", "other"}
    OBVIOUS
  <2>2. proc[kid].job \in {"none", "other"} /\ cmd = "zombie"
    BY <1>1, <2>1 DEF DemoInv
  <2>3. kid \in Pid
    BY <1>1, <2>2 DEF TypeOK
  <2>4. proc'[kid].job = proc[kid].job
    BY <1>4, <2>3
  <2> QED BY <2>2, <2>4
<1>8. DemoInv'
  BY <1>1, <1>6, <1>7 DEF DemoInv
<1> QED BY <1>5, <1>8 DEF IInv

LEMMA ChildStep ==
  ASSUME IInv, NEW p \in Pid, Child(p) \/ TerminalEnds(p) \/ OtherEnds(p)
  PROVE  IInv'
<1>1. TypeOK /\ DemoInv
  BY DEF IInv
<1>2. ASSUME Running(p), Exited(p), UNCHANGED <<cmd, at, kid, waited, again, adoption>>
      PROVE  IInv'
  <2>1. adoption' \in {"unknown", "detected", "not detected"}
    BY <1>1, <1>2 DEF TypeOK
  <2> QED BY <1>2, <2>1, ExitKeepsIInv
<1>3. CASE ChildExits(p) \/ TerminalEnds(p) \/ OtherEnds(p) \/ ParentExits(p)
  <2>1. Running(p) /\ Exited(p) /\ UNCHANGED <<cmd, at, kid, waited, again, adoption>>
    BY <1>3 DEF ChildExits, TerminalEnds, OtherEnds, ParentExits
  <2> QED BY <1>2, <2>1
<1>4. CASE GrandchildCompares(p)
  <2>1. /\ Running(p) /\ Exited(p) /\ UNCHANGED <<cmd, at, kid, waited, again>>
        /\ adoption' \in {"unknown", "detected", "not detected"}
    BY <1>4 DEF GrandchildCompares
  <2> QED BY <2>1, ExitKeepsIInv
<1>5. CASE GrandchildAsks(p)
  <2>1. proc[p] \in Process
    <3>1. Running(p)
      BY <1>5 DEF GrandchildAsks
    <3> QED BY <1>1, <3>1, RunningTyped
  <2>2. proc[p].parent # Sysmgr
    <3>1. proc[p].job = "grandchild" /\ "grandchild" \notin Demo \cup {"none"}
      BY <1>5 DEF GrandchildAsks, Demo
    <3>2. cmd \in Demo \cup {"none"}
      BY <1>1 DEF TypeOK
    <3> QED BY <1>1, <3>1, <3>2 DEF DemoInv
  <2>3. proc[p].parent \in Pid \cup {InitPid, NoPid}
    BY <2>1, <2>2 DEF Process
  <2> DEFINE new == [proc[p] EXCEPT !.orig = proc[p].parent, !.at = "sleep"]
  <2>4. /\ new \in Process /\ new.state = proc[p].state /\ new.job = proc[p].job
        /\ new.parent = proc[p].parent
    BY <2>1, <2>3 DEF Process
  <2>5. proc' = [proc EXCEPT ![p] = new]
    BY <1>5 DEF GrandchildAsks
  <2>6. Running(p) /\ UNCHANGED <<cmd, at, kid, waited, again, adoption>>
    BY <1>5 DEF GrandchildAsks
  <2> HIDE DEF new
  <2> QED BY <2>4, <2>5, <2>6, GoesOn
<1>6. CASE ChildExecs(p)
  <2>1. CASE Exited(p)
    <3>1. Running(p) /\ UNCHANGED <<cmd, at, kid, waited, again, adoption>>
      BY <1>6 DEF ChildExecs
    <3> QED BY <1>2, <2>1, <3>1
  <2>2. CASE proc' = [proc EXCEPT ![p] = [proc[p] EXCEPT !.at = "ls"]]
    <3> DEFINE new == [proc[p] EXCEPT !.at = "ls"]
    <3>1. proc[p] \in Process
      <4>1. Running(p)
        BY <1>6 DEF ChildExecs
      <4> QED BY <1>1, <4>1, RunningTyped
    <3>2. /\ new \in Process /\ new.state = proc[p].state
          /\ new.job = proc[p].job /\ new.parent = proc[p].parent
      BY <3>1 DEF Process
    <3>3. proc' = [proc EXCEPT ![p] = new]
      BY <2>2
    <3>4. Running(p) /\ UNCHANGED <<cmd, at, kid, waited, again, adoption>>
      BY <1>6 DEF ChildExecs
    <3> HIDE DEF new
    <3> QED BY <3>2, <3>3, <3>4, GoesOn
  <2> QED BY <1>6, <2>1, <2>2 DEF ChildExecs
<1>7. CASE ParentForks(p)
  <2>1. CASE Exited(p)
    <3>1. Running(p) /\ UNCHANGED <<cmd, at, kid, waited, again, adoption>>
      BY <1>7 DEF ParentForks
    <3> QED BY <1>2, <2>1, <3>1
  <2>2. ASSUME NEW q \in Pid, Free(q),
               proc' = [proc EXCEPT ![q] = NewProcess("grandchild", p),
                                    ![p] = [proc[p] EXCEPT !.at = "exit"]]
        PROVE  IInv'
    <3> DEFINE new == NewProcess("grandchild", p)
               old == [proc[p] EXCEPT !.at = "exit"]
    <3>1. new \in Process /\ new.job = "grandchild" /\ new.parent = p
      BY NewProcessTyped DEF Job, NewProcess
    <3>2. /\ Running(p) /\ proc[p].job = "orphan"
          /\ UNCHANGED <<cmd, at, kid, waited, again, adoption>>
      BY <1>7 DEF ParentForks
    <3>3. proc[p] \in Process /\ p # q
      <4>1. p # q
        <5>1. proc[q].state = "free" /\ proc[p].state = "run"
          BY <2>2, <3>2 DEF Free, Running
        <5> QED BY <5>1
      <4> QED BY <1>1, <3>2, <4>1, RunningTyped
    <3>4. /\ old \in Process /\ old.job = proc[p].job
          /\ old.parent = proc[p].parent
      BY <3>3 DEF Process
    <3>5. proc' = [proc EXCEPT ![q] = new, ![p] = old]
      BY <2>2
    <3>13. proc \in [Pid -> Process \cup {NoProcess}]
      BY <1>1 DEF TypeOK
    <3> HIDE DEF new, old
    <3>6. proc' \in [Pid -> Process \cup {NoProcess}]
      BY <3>1, <3>4, <3>5, <3>13
    <3>7. proc'[q].job = "grandchild" /\ proc'[q].parent = p
      <4>1. proc'[q] = new
        BY <3>3, <3>5, <3>13
      <4> QED BY <3>1, <4>1
    <3>8. ASSUME NEW r \in Pid, r # q
          PROVE  proc'[r].job = proc[r].job /\ proc'[r].parent = proc[r].parent
      <4>1. CASE r = p
        <5>1. proc'[r] = old
          BY <4>1, <3>3, <3>5, <3>13
        <5> QED BY <4>1, <5>1, <3>4
      <4>2. CASE r # p
        <5>1. proc'[r] = proc[r]
          BY <4>2, <3>5, <3>8, <3>13
        <5> QED BY <5>1
      <4> QED BY <4>1, <4>2
    <3>9. at # "recheck"
      <4> SUFFICES ASSUME at = "recheck" PROVE FALSE
        OBVIOUS
      <4> QED BY <1>1, <3>2 DEF DemoInv
    <3>10. TypeOK'
      BY <1>1, <3>2, <3>6 DEF TypeOK
    <3>11. \A r \in Pid :
             /\ proc'[r].job = "orphan" => proc'[r].parent = Sysmgr
             /\ proc'[r].parent = Sysmgr =>
                  \/ proc'[r].job \in {"terminal", "wait"}
                  \/ r = kid' /\ at' \in {"look", "waitpid"} /\ proc'[r].job = cmd'
      <4> TAKE r \in Pid
      <4>1. CASE r = q
        BY <4>1, <3>7, PidAssumption
      <4>2. CASE r # q
        BY <4>2, <1>1, <3>2, <3>8 DEF DemoInv
      <4> QED BY <4>1, <4>2
    <3>12. DemoInv'
      BY <1>1, <3>2, <3>9, <3>11 DEF DemoInv
    <3> QED BY <3>10, <3>12 DEF IInv
  <2> QED BY <1>7, <2>1, <2>2 DEF ParentForks
<1> QED BY <1>3, <1>4, <1>5, <1>6, <1>7 DEF Child

LEMMA InitReapsStep ==
  ASSUME IInv, NEW p \in Pid, InitReaps(p)
  PROVE  IInv'
<1>1. TypeOK /\ DemoInv
  BY DEF IInv
<1>2. /\ proc' = [proc EXCEPT ![p] = NoProcess]
      /\ UNCHANGED <<cmd, at, kid, waited, again, adoption>>
  BY DEF InitReaps
<1>3. /\ proc' \in [Pid -> Process \cup {NoProcess}]
      /\ \A q \in Pid : q # p => proc'[q] = proc[q]
      /\ proc'[p].state = "free" /\ proc'[p].job = "none" /\ proc'[p].parent = NoPid
  BY <1>1, <1>2, FreedTable
<1>4. TypeOK'
  BY <1>1, <1>2, <1>3 DEF TypeOK
<1>5. \A q \in Pid :
        /\ proc'[q].job = "orphan" => proc'[q].parent = Sysmgr
        /\ proc'[q].parent = Sysmgr =>
             \/ proc'[q].job \in {"terminal", "wait"}
             \/ q = kid' /\ at' \in {"look", "waitpid"} /\ proc'[q].job = cmd'
  <2> TAKE q \in Pid
  <2>1. CASE q = p
    BY <2>1, <1>3, PidAssumption
  <2>2. CASE q # p
    BY <2>2, <1>1, <1>2, <1>3 DEF DemoInv
  <2> QED BY <2>1, <2>2
<1>6. at' = "recheck" => proc'[kid'].job \in {"none", "other"}
  BY <1>1, <1>2, <1>3 DEF DemoInv, TypeOK
<1>7. DemoInv'
  BY <1>1, <1>2, <1>5, <1>6 DEF DemoInv
<1> QED BY <1>4, <1>7 DEF IInv

\* A process of another program is not sysmgr's, whatever number it takes.
LEMMA OtherForksStep ==
  ASSUME IInv, NEW p \in Pid, OtherForks(p)
  PROVE  IInv'
<1> DEFINE new == NewProcess("other", InitPid)
<1>1. TypeOK /\ DemoInv
  BY DEF IInv
<1>2. proc' = [proc EXCEPT ![p] = new] /\ UNCHANGED <<cmd, at, kid, waited, again, adoption>>
  BY DEF OtherForks
<1>3. new \in Process /\ new.job = "other" /\ new.parent = InitPid
  BY NewProcessTyped DEF Job, NewProcess
<1> HIDE DEF new
<1>4. TypeOK'
  BY <1>1, <1>2, <1>3 DEF TypeOK
<1>5. proc'[p] = new /\ \A q \in Pid : q # p => proc'[q] = proc[q]
  BY <1>1, <1>2 DEF TypeOK
<1>6. at' = "recheck" => proc'[kid'].job \in {"none", "other"}
  BY <1>1, <1>2, <1>3, <1>5 DEF DemoInv, TypeOK
<1>7. ASSUME NEW q \in Pid
      PROVE  /\ proc'[q].job = "orphan" => proc'[q].parent = Sysmgr
             /\ proc'[q].parent = Sysmgr =>
                  \/ proc'[q].job \in {"terminal", "wait"}
                  \/ q = kid' /\ at' \in {"look", "waitpid"} /\ proc'[q].job = cmd'
  <2>1. CASE q = p
    BY <1>3, <1>5, <2>1, PidAssumption
  <2>2. CASE q # p
    BY <1>1, <1>2, <1>5, <2>2 DEF DemoInv
  <2> QED BY <2>1, <2>2
<1>8. DemoInv'
  BY <1>1, <1>2, <1>6, <1>7 DEF DemoInv
<1> QED BY <1>4, <1>8 DEF IInv

-------------------------------------------------------------------------------
\* IInv is an inductive invariant of the commands.
LEMMA Inductive == Spec => []IInv
<1>1. IInv /\ [Next]_vars => IInv'
  <2> SUFFICES ASSUME IInv, [Next]_vars PROVE IInv'
    OBVIOUS
  <2>1. CASE Pick
    BY <2>1, OpenTerminalStep, StartDemoStep DEF Pick
  <2>2. CASE Step
    BY <2>2, OwnSteps, WaitpidStep, WaitStep DEF Step
  <2>3. CASE \E p \in Pid : Child(p) \/ TerminalEnds(p) \/ InitReaps(p) \/ OtherForks(p) \/ OtherEnds(p)
    BY <2>3, ChildStep, InitReapsStep, OtherForksStep
  <2>4. CASE UNCHANGED vars
    <3>1. TypeOK'
      BY <2>4 DEF IInv, TypeOK, vars
    <3>2. DemoInv'
      BY <2>4 DEF IInv, DemoInv, Free, vars
    <3> QED BY <3>1, <3>2 DEF IInv
  <2> QED BY <2>1, <2>2, <2>3, <2>4 DEF Next
<1> QED BY InitIInv, <1>1, PTL DEF Spec

\* The process table and sysmgr's locals keep their types.
THEOREM DemoTyping == Spec => []TypeOK
<1>1. IInv => TypeOK
  BY DEF IInv
<1> QED BY Inductive, <1>1, PTL

\* However many terminals are open and whatever order processes end in, the
\* fork, exec, zombie and orphan demos leave no child of sysmgr behind.
THEOREM NothingLeftBehind == Spec => []ChildrenReaped
<1>1. IInv => ChildrenReaped
  BY DEF IInv, DemoInv, ChildrenReaped
<1> QED BY Inductive, <1>1, PTL

\* For any process numbers and any other programs that take them: after waitpid
\* the zombie demo never finds its child; what it finds under that number, if
\* anything, is another program's.
THEOREM ZombieGone == Spec => []ZombieRemoved
<1>1. IInv => ZombieRemoved
  BY DEF IInv, DemoInv, ZombieRemoved
<1> QED BY Inductive, <1>1, PTL
===============================================================================
