----------------------------- MODULE ManagerProofs -----------------------------
(***************************************************************************)
(* Theorems about six managers of sysmgr, for any crontab, any number of   *)
(* servers, any names and values, any packages, any process numbers and a  *)
(* log of any length: Crontab, ClockSync, Environment, Packages,           *)
(* ProcessManager and KernelModule.                                        *)
(***************************************************************************)
EXTENDS Crontab, ClockSync, Environment, Packages, ProcessManager, KernelModule,
        SequenceTheorems, FiniteSetTheorems, TLAPS

-----------------------------------------------------------------------------
(* The crontab.                                                             *)

\* Without a clash, whoever has read the table and not yet written it has read
\* what is in it; a job in the pipeline is one that the user has given.
CronInv ==
  /\ CronTypeOK
  /\ pc \in {"cron.read", "cron.install"} => job \in Job
  /\ ~overlap => crontab = merged
  /\ ~overlap /\ pc = "cron.install" => copy = crontab
  /\ ~overlap /\ editing => edit = crontab

LEMMA CronInvInit == CronInit => CronInv
BY DEF CronInit, CronInv, CronTypeOK

LEMMA CronInvStep == CronInv /\ [CronNext]_cronVars => CronInv'
<1> SUFFICES ASSUME CronInv, [CronNext]_cronVars PROVE CronInv'
  OBVIOUS
<1> USE CrontabAssumption DEF CronInv, CronTypeOK, editVars
<1>1. CASE CronStart
  BY <1>1 DEF CronStart, CronBegin
<1>2. CASE CronList
  BY <1>2 DEF CronList, CronTell
<1>3. CASE CronDelete
  BY <1>3 DEF CronDelete, CronTell
<1>4. CASE CheckJob
  BY <1>4 DEF CheckJob, CronTell
<1>5. CASE ReadTable
  BY <1>5 DEF ReadTable
<1>6. CASE CronInstall
  BY <1>6 DEF CronInstall, CronTell, Installed
<1>7. CASE EditBegins
  BY <1>7 DEF EditBegins
<1>8. ASSUME NEW add \in SUBSET (Job \ Bad), NEW remove \in SUBSET (Job \ Bad), EditEnds(add, remove)
      PROVE  CronInv'
  BY <1>8 DEF EditEnds
<1>9. CASE CronEdit
  BY <1>7, <1>8, <1>9 DEF CronEdit
<1>10. CASE UNCHANGED cronVars
  BY <1>10 DEF cronVars
<1>11. QED
  BY <1>1, <1>2, <1>3, <1>4, <1>5, <1>6, <1>9, <1>10 DEF CronNext, CronCommands

LEMMA CronInvariant == CronSpec => []CronInv
<1>1. QED
  BY CronInvInit, CronInvStep, PTL DEF CronSpec

\* For any jobs: the crontab holds only lines that crontab takes.
THEOREM CronTyped == CronSpec => []CronTypeOK
<1>1. CronInv => CronTypeOK
  BY DEF CronInv
<1>2. QED
  BY <1>1, CronInvariant, PTL

\* For any jobs, and however many editors come one after the other: no task is
\* lost or comes back but by two changes that overlap, or by a crontab -l that
\* fails in the pipeline of shell_mgr_cron_execute.
THEOREM NoJobLostWithoutClash == CronSpec => []OnlyClashesLoseJobs
<1>1. CronInv => OnlyClashesLoseJobs
  BY DEF CronInv, OnlyClashesLoseJobs
<1>2. QED
  BY <1>1, CronInvariant, PTL

-----------------------------------------------------------------------------
(* The clock.                                                               *)

Trying == {"sync.chrony", "sync.ntpdate", "sync.timedatectl", "sync.ntp-on", "sync.fallback"}

\* Before the script sets the clock, nobody has.
NotYet ==
  /\ pc \in {"sync", "sync.set"} => setby = "nobody"
  /\ pc = "sync.set" => date \in Dates

\* Once the script has set the clock, it is exact, or what the server has said
\* and nobody else.
SinceThen ==
  pc \in Trying =>
    /\ setby # "nobody"
    /\ \/ clock = "exact"
       \/ clock = date /\ date \in Dates /\ setby = "http"

ClockInv == ClockTypeOK /\ NotYet /\ SinceThen /\ ExitCodeTellsClock

LEMMA ClockInvInit == ClockInit => ClockInv
BY ClockAssumption DEF ClockInit, ClockInv, ClockTypeOK, NotYet, SinceThen, ExitCodeTellsClock, Trying, Dates

\* One NTP program: what it leaves.
LEMMA ToolStep ==
  ASSUME ClockInv, pc \in Trying, NEW tool \in Tool, NEW next \in Trying,
         NEW works \in BOOLEAN, NEW succeeds \in BOOLEAN,
         TryTool(tool, next, works, succeeds),
         succeeds => works \/ tool = "chrony", ntp' \in {"on", "off"}
  PROVE  ClockInv'
<1> USE DEF ClockInv, ClockTypeOK, NotYet, SinceThen, ExitCodeTellsClock, Trying, Dates, Tool, TryTool, ClockEnds, ClockGoesTo
<1>1. CASE works
  <2>1. clock' = "exact" /\ setby' = tool /\ UNCHANGED <<asked, date, tools>>
    BY <1>1
  <2>2. \/ pc' = "prompt" /\ told' = "exit-0" /\ trusted' = tool
        \/ pc' = next /\ told' = told /\ trusted' = trusted
    OBVIOUS
  <2>3. ClockTypeOK'
    BY <2>1, <2>2
  <2>4. NotYet' /\ SinceThen' /\ ExitCodeTellsClock'
    BY <2>1, <2>2
  <2>5. QED
    BY <2>3, <2>4, Zenon
<1>2. CASE ~works /\ ~succeeds
  <2>1. UNCHANGED <<clock, setby, asked, date, told, tools, trusted>> /\ pc' = next
    BY <1>2
  <2>2. next \notin {"prompt", "sync", "sync.set"}
    OBVIOUS
  <2>3. ClockTypeOK'
    BY <2>1, <2>2
  <2>4. NotYet' /\ SinceThen'
    BY <2>1, <2>2
  <2>5. ExitCodeTellsClock'
    BY <2>1, <2>2
  <2>6. QED
    BY <2>3, <2>4, <2>5, Zenon
<1>3. CASE ~works /\ succeeds
  <2>1. tool = "chrony" /\ trusted' = "chrony"
    BY <1>3
  <2>2. clock' = clock /\ date' = date /\ setby' = setby /\ pc' = "prompt" /\ told' = "exit-0"
    BY <1>3
  <2>3. QED
    BY <2>1, <2>2, <1>3
<1>4. QED
  BY <1>1, <1>2, <1>3

LEMMA ClockInvStep == ClockInv /\ [ClockNext]_clockVars => ClockInv'
<1> SUFFICES ASSUME ClockInv, [ClockNext]_clockVars PROVE ClockInv'
  OBVIOUS
<1> USE ClockAssumption
<1>s. ASSUME NEW tool \in Tool, NEW next \in Trying, pc \in Trying, WithoutTool(tool, next), ntp' \in {"on", "off"}
      PROVE  ClockInv'
  BY <1>s DEF WithoutTool, ClockGoesTo, ClockInv, ClockTypeOK, NotYet, SinceThen, ExitCodeTellsClock, Trying, Dates
<1>1. CASE ClockStart
  BY <1>1 DEF ClockStart, ClockBegin, ClockInv, ClockTypeOK, NotYet, SinceThen, ExitCodeTellsClock, Trying, Dates
<1>2. CASE ShowTime
  BY <1>2 DEF ShowTime, ClockTell, ClockEnds, ClockInv, ClockTypeOK, NotYet, SinceThen, ExitCodeTellsClock, Trying, Dates
<1>3. CASE SetTime
  BY <1>3 DEF SetTime, ClockTell, ClockEnds, ClockInv, ClockTypeOK, NotYet, SinceThen, ExitCodeTellsClock, Trying, Dates
<1>4. CASE AskServer
  BY <1>4 DEF AskServer, ClockGoesTo, ClockInv, ClockTypeOK, NotYet, SinceThen, ExitCodeTellsClock, Trying, Dates
<1>5. CASE NoDate
  BY <1>5 DEF NoDate, ClockTell, ClockEnds, ClockInv, ClockTypeOK, NotYet, SinceThen, ExitCodeTellsClock, Trying, Dates
<1>6. CASE SetHttpDate
  BY <1>6 DEF SetHttpDate, ClockTell, ClockEnds, ClockGoesTo, ClockInv, ClockTypeOK, NotYet, SinceThen, ExitCodeTellsClock, Trying, Dates
<1>7. CASE Chrony
  <2>1. pc \in Trying /\ "sync.ntpdate" \in Trying /\ "chrony" \in Tool /\ ntp' \in {"on", "off"}
    BY <1>7 DEF Chrony, Trying, Tool, ClockInv, ClockTypeOK
  <2>2. CASE WithoutTool("chrony", "sync.ntpdate")
    BY <1>s, <2>1, <2>2
  <2>3. CASE \E works, found \in BOOLEAN : TryTool("chrony", "sync.ntpdate", works, ~found)
    BY <2>1, <2>3, ToolStep
  <2>4. QED
    BY <1>7, <2>2, <2>3 DEF Chrony
<1>8. CASE Ntpdate
  <2>1. pc \in Trying /\ "sync.timedatectl" \in Trying /\ "ntpdate" \in Tool /\ ntp' \in {"on", "off"}
    BY <1>8 DEF Ntpdate, Trying, Tool, ClockInv, ClockTypeOK
  <2>2. CASE WithoutTool("ntpdate", "sync.timedatectl")
    BY <1>s, <2>1, <2>2
  <2>3. CASE \E works \in BOOLEAN : TryTool("ntpdate", "sync.timedatectl", works, works)
    BY <2>1, <2>3, ToolStep
  <2>4. QED
    BY <1>8, <2>2, <2>3 DEF Ntpdate
<1>9. CASE NtpOff
  BY <1>9 DEF NtpOff, WithoutTool, ClockGoesTo, ClockInv, ClockTypeOK, NotYet, SinceThen, ExitCodeTellsClock, Trying, Dates
<1>10. CASE NtpOn
  <2>1. pc \in Trying /\ "sync.fallback" \in Trying /\ "timedatectl" \in Tool /\ ntp' \in {"on", "off"}
    BY <1>10 DEF NtpOn, Trying, Tool, ClockInv, ClockTypeOK
  <2>2. PICK works, found \in BOOLEAN : TryTool("timedatectl", "sync.fallback", works, works /\ found)
    BY <1>10 DEF NtpOn
  <2>3. (works /\ found) \in BOOLEAN
    OBVIOUS
  <2>4. QED
    BY <2>1, <2>2, <2>3, ToolStep
<1>11. CASE Fallback
  BY <1>11 DEF Fallback, ClockEnds, ClockInv, ClockTypeOK, NotYet, SinceThen, ExitCodeTellsClock, Trying, Dates
<1>12. CASE UNCHANGED clockVars
  BY <1>12 DEF clockVars, ClockInv, ClockTypeOK, NotYet, SinceThen, ExitCodeTellsClock, Trying, Dates
<1>13. QED
  BY <1>1, <1>2, <1>3, <1>4, <1>5, <1>6, <1>7, <1>8, <1>9, <1>10, <1>11, <1>12
     DEF ClockNext, ClockCommands

LEMMA ClockInvariant == ClockSpec => []ClockInv
<1>1. QED
  BY ClockInvInit, ClockInvStep, PTL DEF ClockSpec

\* For any number of servers: the variables of ClockSync have their types.
THEOREM ClockTyped == ClockSpec => []ClockTypeOK
<1>1. ClockInv => ClockTypeOK
  BY DEF ClockInv
<1>2. QED
  BY <1>1, ClockInvariant, PTL

\* For any number of servers and any of the NTP programs: the exit code of
\* shell/autosync.sh agrees with the clock, whatever step has failed.
THEOREM ExitCodeRight == ClockSpec => []ExitCodeTellsClock
<1>1. ClockInv => ExitCodeTellsClock
  BY DEF ClockInv
<1>2. QED
  BY <1>1, ClockInvariant, PTL
-----------------------------------------------------------------------------
(* The environment.                                                         *)

\* A value is asked for only after a name that the user has typed.
EnvInv ==
  /\ EnvTypeOK
  /\ typed \in [EnvNames -> Value \union {Empty, Unset}]
  /\ eof => pc \in {"prompt", "env"}
  /\ pc = "env.value" => nameBuf = named
  /\ EnvironmentAsTyped

LEMMA EnvInvInit == EnvInit => EnvInv
BY DEF EnvInit, EnvInv, EnvTypeOK, EnvironmentAsTyped, EnvNames, EnvValues

\* What a prompt for a name leaves.
LEMMA NamePrompt ==
  ASSUME EnvInv,
         (\E n \in EnvNames : Given(n, nameBuf')) \/ NotGiven(nameBuf, nameBuf')
  PROVE  nameBuf' \in EnvNames \union {Empty} /\ eof' \in BOOLEAN
BY DEF EnvInv, EnvTypeOK, Given, NotGiven, Answered, Escaped, Cancelled, Ended, EnvNames

\* A step that leaves the environment and what is wanted of it alone.
LEMMA EnvKept ==
  ASSUME EnvInv, UNCHANGED <<terminal, env, typed, dropped>>, eof' \in BOOLEAN,
         nameBuf' \in EnvNames \union {Empty}, valBuf' \in EnvValues, named' \in EnvNames,
         pc' \in {"prompt", "env", "env.query", "env.set", "env.value", "env.remove"},
         eof' => pc' \in {"prompt", "env"}, pc' = "env.value" => nameBuf' = named',
         eof => eof'
  PROVE  EnvInv'
BY DEF EnvInv, EnvTypeOK, EnvironmentAsTyped

\* A step that gives n the value v that the user wants, or another one that the
\* user has not answered.
LEMMA EnvPut ==
  ASSUME EnvInv, NEW n \in EnvNames, NEW v \in EnvValues \union {Unset}, NEW ok \in BOOLEAN,
         Put(n, v, ok), UNCHANGED <<terminal, named>>, eof' \in BOOLEAN,
         nameBuf' \in EnvNames \union {Empty}, valBuf' \in EnvValues, eof => eof',
         \/ Wants(n, v, ok) /\ v \in Value \union {Empty, Unset}
         \/ Drops(n, ok) /\ v \in {Empty, Esc}
         \/ ~terminal /\ eof' /\ UNCHANGED typed /\ dropped' \subseteq dropped \union {n}
  PROVE  EnvInv'
<1> USE DEF EnvInv, EnvTypeOK, EnvironmentAsTyped
<1>1. pc' = "env" /\ env' = (IF ok THEN [env EXCEPT ![n] = v] ELSE env)
  BY DEF Put, EnvSay
<1>2. env' \in [EnvNames -> EnvValues \union {Unset}]
  BY <1>1
<1>3. CASE Wants(n, v, ok) /\ v \in Value \union {Empty, Unset}
  BY <1>1, <1>2, <1>3 DEF Wants
<1>4. CASE Drops(n, ok) /\ v \in {Empty, Esc}
  BY <1>1, <1>2, <1>4 DEF Drops
<1>5. CASE ~terminal /\ eof' /\ UNCHANGED typed /\ dropped' \subseteq dropped \union {n}
  BY <1>1, <1>2, <1>5
<1>6. QED
  BY <1>3, <1>4, <1>5

LEMMA AskNameKeeps == EnvInv /\ AskName => EnvInv'
<1> SUFFICES ASSUME EnvInv, AskName PROVE EnvInv'
  OBVIOUS
<1>1. /\ UNCHANGED <<terminal, valBuf, typed, dropped>> /\ pc = "env.set" /\ ~eof
      /\ valBuf' \in EnvValues /\ named \in EnvNames
  BY DEF AskName, EnvInv, EnvTypeOK
<1>2. CASE \E n \in EnvNames : /\ Given(n, nameBuf') /\ named' = n
                              /\ pc' = "env.value" /\ UNCHANGED <<told, env>>
  <2>1. nameBuf' = named' /\ named' \in EnvNames /\ eof' = eof
    BY <1>2 DEF Given, Answered, Escaped
  <2>2. QED
    BY <1>1, <1>2, <2>1, EnvKept DEF EnvInv, EnvTypeOK
<1>3. CASE /\ NotGiven(nameBuf, nameBuf') /\ UNCHANGED named
           /\ IF nameBuf' = Empty THEN EnvSay("empty-name") /\ UNCHANGED env
              ELSE \E ok \in BOOLEAN : Put(nameBuf', valBuf, ok)
  <2>1. nameBuf' \in EnvNames \union {Empty} /\ eof' \in BOOLEAN
    BY <1>3, NamePrompt
  <2>2. CASE nameBuf' = Empty
    BY <1>1, <1>3, <2>1, <2>2, EnvKept DEF EnvSay
  <2>3. CASE nameBuf' # Empty
    <3>1. PICK ok \in BOOLEAN : Put(nameBuf', valBuf, ok)
      BY <1>3, <2>3
    <3>2. ~terminal /\ eof'
      BY <1>3, <2>3 DEF NotGiven, Answered, Cancelled, Ended
    <3>3. nameBuf' \in EnvNames /\ valBuf \in EnvValues \union {Unset}
          /\ dropped' \subseteq dropped \union {nameBuf'} /\ UNCHANGED typed
      BY <1>1, <2>1, <2>3
    <3>4. QED
      BY <1>1, <1>3, <2>1, <3>1, <3>2, <3>3, EnvPut
  <2>4. QED
    BY <2>2, <2>3
<1>4. QED
  BY <1>2, <1>3, Zenon DEF AskName

LEMMA AskValueKeeps == EnvInv /\ AskValue => EnvInv'
<1> SUFFICES ASSUME EnvInv, AskValue PROVE EnvInv'
  OBVIOUS
<1>1. /\ UNCHANGED <<terminal, nameBuf, named>> /\ pc = "env.value" /\ ~eof
      /\ named \in EnvNames /\ nameBuf = named /\ valBuf \in EnvValues
  BY DEF AskValue, EnvInv, EnvTypeOK
<1>2. PICK ok \in BOOLEAN :
        /\ \/ \E v \in Value \union {Empty} : Answered(v, valBuf') /\ Wants(named, v, ok)
           \/ Escaped(valBuf') /\ Drops(named, ok)
           \/ Cancelled(valBuf') /\ Drops(named, ok)
           \/ Ended(valBuf, valBuf') /\ Drops(named, ok)
        /\ Put(nameBuf, valBuf', ok)
  BY Zenon DEF AskValue
<1>3. Put(named, valBuf', ok) /\ nameBuf' \in EnvNames \union {Empty}
  BY <1>1, <1>2
<1>4. CASE \E v \in Value \union {Empty} : Answered(v, valBuf') /\ Wants(named, v, ok)
  <2>1. valBuf' \in Value \union {Empty} /\ Wants(named, valBuf', ok) /\ eof' = eof
    BY <1>4 DEF Answered
  <2>2. valBuf' \in EnvValues /\ eof' \in BOOLEAN
    BY <2>1 DEF EnvValues, EnvInv, EnvTypeOK
  <2>3. QED
    BY <1>1, <1>3, <2>1, <2>2, EnvPut
<1>5. CASE (Escaped(valBuf') \/ Cancelled(valBuf')) /\ Drops(named, ok)
  <2>1. valBuf' \in {Empty, Esc} /\ eof' \in BOOLEAN /\ valBuf' \in EnvValues
    BY <1>5 DEF Escaped, Cancelled, EnvValues, EnvInv, EnvTypeOK
  <2>2. QED
    BY <1>1, <1>3, <1>5, <2>1, EnvPut
<1>6. CASE Ended(valBuf, valBuf') /\ Drops(named, ok)
  <2>1. ~terminal /\ eof' /\ eof' \in BOOLEAN /\ valBuf' \in EnvValues
        /\ UNCHANGED typed /\ dropped' \subseteq dropped \union {named}
    BY <1>1, <1>6 DEF Ended, Drops
  <2>2. QED
    BY <1>1, <1>3, <2>1, EnvPut
<1>7. QED
  BY <1>2, <1>4, <1>5, <1>6

LEMMA EnvRemoveKeeps == EnvInv /\ EnvRemove => EnvInv'
<1> SUFFICES ASSUME EnvInv, EnvRemove PROVE EnvInv'
  OBVIOUS
<1>1. /\ UNCHANGED <<terminal, valBuf, named>> /\ pc = "env.remove" /\ ~eof
      /\ named' \in EnvNames /\ valBuf' \in EnvValues
  BY DEF EnvRemove, EnvInv, EnvTypeOK
<1>2. PICK ok \in BOOLEAN :
        /\ \/ \E n \in EnvNames : Given(n, nameBuf') /\ Wants(n, Unset, ok)
           \/ NotGiven(nameBuf, nameBuf') /\ UNCHANGED <<typed, dropped>>
        /\ IF nameBuf' = Empty THEN EnvSay("empty-name") /\ UNCHANGED env
           ELSE Put(nameBuf', Unset, ok)
  BY Zenon DEF EnvRemove
<1>3. nameBuf' \in EnvNames \union {Empty} /\ eof' \in BOOLEAN
  BY <1>2, NamePrompt
<1>4. CASE \E n \in EnvNames : Given(n, nameBuf') /\ Wants(n, Unset, ok)
  <2>1. nameBuf' \in EnvNames /\ Wants(nameBuf', Unset, ok) /\ eof' = eof
    BY <1>4 DEF Given, Answered, Escaped
  <2>2. nameBuf' # Empty
    BY <2>1, EnvironmentAssumption DEF EnvNames
  <2>3. QED
    BY <1>1, <1>2, <1>3, <2>1, <2>2, EnvPut
<1>5. CASE NotGiven(nameBuf, nameBuf') /\ UNCHANGED <<typed, dropped>>
  <2>1. CASE nameBuf' = Empty
    BY <1>1, <1>2, <1>3, <1>5, <2>1, EnvKept DEF EnvSay
  <2>2. CASE nameBuf' # Empty
    <3>1. ~terminal /\ eof'
      BY <1>5, <2>2 DEF NotGiven, Answered, Cancelled, Ended
    <3>2. QED
      BY <1>1, <1>2, <1>3, <1>5, <2>2, <3>1, EnvPut
  <2>3. QED
    BY <2>1, <2>2
<1>6. QED
  BY <1>2, <1>4, <1>5

LEMMA EnvInvStep == EnvInv /\ [EnvNext]_envVars => EnvInv'
<1> SUFFICES ASSUME EnvInv, [EnvNext]_envVars PROVE EnvInv'
  OBVIOUS
<1>1. CASE EnvEnter
  BY <1>1, EnvKept DEF EnvEnter, EnvInv, EnvTypeOK
<1>2. CASE EnvChoose
  BY <1>2, EnvKept DEF EnvChoose, EnvInv, EnvTypeOK
<1>3. CASE EnvMenuEnds
  BY <1>3, EnvKept DEF EnvMenuEnds, EnvInv, EnvTypeOK
<1>4. CASE EnvLeave
  BY <1>4, EnvKept DEF EnvLeave, EnvInv, EnvTypeOK
<1>5. CASE EnvQuery
  <2>1. nameBuf' \in EnvNames \union {Empty} /\ eof' \in BOOLEAN
    BY <1>5, NamePrompt DEF EnvQuery
  <2>2. QED
    BY <1>5, <2>1, EnvKept DEF EnvQuery, EnvSay, EnvInv, EnvTypeOK
<1>6. CASE UNCHANGED envVars
  BY <1>6 DEF envVars, EnvInv, EnvTypeOK, EnvironmentAsTyped
<1>7. QED
  BY <1>1, <1>2, <1>3, <1>4, <1>5, <1>6, AskNameKeeps, AskValueKeeps, EnvRemoveKeeps DEF EnvNext

LEMMA EnvInvariant == EnvSpec => []EnvInv
<1>1. QED
  BY EnvInvInit, EnvInvStep, PTL DEF EnvSpec

\* For any names and values: the variables of Environment have their types.
THEOREM EnvTyped == EnvSpec => []EnvTypeOK
<1>1. EnvInv => EnvTypeOK
  BY DEF EnvInv
<1>2. QED
  BY <1>1, EnvInvariant, PTL

\* For any names and values, and whatever the two buffers of shell_mgr_env_run
\* hold when it begins: until a pipe has ended, every variable is as the user has
\* last asked for, but for those left without an answer to the prompt for their
\* value, which are empty or an ESC.
THEOREM EnvironmentIsTyped == EnvSpec => []EnvironmentAsTyped
<1>1. EnvInv => EnvironmentAsTyped
  BY DEF EnvInv
<1>2. QED
  BY <1>1, EnvInvariant, PTL
-----------------------------------------------------------------------------
(* The packages.                                                            *)

\* All that comes with the packages of S.
With(S) == S \union UNION {Needs[p] : p \in S}

LEMMA NeedsClosed ==
  ASSUME NEW S \in SUBSET Package
  PROVE  With(S) \subseteq Package /\ Closed(With(S))
BY PackagesAssumption DEF With, Closed

\* An addition, of packages with all that they need, keeps the database in order.
LEMMA AddsTyped ==
  ASSUME PackageTypeOK, NEW new \in SUBSET Package, Closed(new), NEW byName, Adds(new, byName)
  PROVE  /\ installed' = installed \union new
         /\ installed' \subseteq Package /\ Closed(installed')
         /\ conf' \subseteq HasConf \ installed'
         /\ auto' \subseteq auto \union (new \ installed)
<1>1. installed' = installed \union new /\ conf' = conf \ new
  BY DEF Adds
<1>2. auto' \subseteq auto \union (new \ installed)
  BY DEF Adds
<1>3. Closed(installed')
  BY <1>1 DEF Closed, PackageTypeOK
<1>4. QED
  BY <1>1, <1>2, <1>3 DEF PackageTypeOK

\* An installation, whole or not, is such an addition.
LEMMA InstallingAdds ==
  ASSUME NEW S \in SUBSET Package, NEW ACTION Succeed, NEW ACTION Fail,
         Installing(S, Succeed, Fail)
  PROVE  /\ Succeed \/ Fail
         /\ \E more \in SUBSET With(S) : more \subseteq Package /\ Closed(more) /\ Adds(more, S)
<1>1. CASE Succeed /\ Adds(With(S), S)
  BY <1>1, NeedsClosed
<1>2. CASE Fail /\ \E some \in SUBSET With(S) \ {With(S)} : Closed(some) /\ Adds(some, S)
  BY <1>2, NeedsClosed
<1>3. QED
  BY <1>1, <1>2 DEF Installing, With

\* Whatever a removal of p takes is p, depends on it, or was noted as installed
\* for one that is or does; and it leaves nothing without its needs.
LEMMA RemovalsAre ==
  ASSUME PackageTypeOK, NEW p \in Package, NEW taken \in Removals(p)
  PROVE  /\ taken \subseteq installed
         /\ Closed(installed \ taken)
<1> DEFINE gone == {q \in installed : q = p \/ p \in Needs[q]}
           loose == auto \cap UNION {Needs[q] : q \in gone}
           idle == {q \in loose : \A r \in installed \ (gone \union loose) : q \notin Needs[r]}
<1>1. taken = gone \/ taken = gone \union idle
  BY DEF Removals
<1>2. installed \subseteq Package /\ auto \subseteq installed
  BY DEF PackageTypeOK
<1>3. gone \subseteq taken /\ taken \subseteq installed
  BY <1>1, <1>2
<1>4. ASSUME NEW r \in installed \ taken, NEW q \in Needs[r]
      PROVE  q \in installed \ taken
  <2>1. r \in Package /\ r \notin gone /\ q \in installed /\ q \in Package
    BY <1>2, <1>3 DEF PackageTypeOK, Closed
  <2>2. Needs[q] \subseteq Needs[r]
    BY <2>1, PackagesAssumption
  <2>3. q \notin gone
    BY <2>1, <2>2
  <2>4. ASSUME q \in taken PROVE FALSE
    <3>1. taken = gone \union idle /\ q \in idle
      BY <1>1, <2>3, <2>4
    <3>2. r \in loose /\ r \notin idle
      BY <2>1, <3>1
    <3>3. PICK t \in installed \ (gone \union loose) : r \in Needs[t]
      BY <3>2
    <3>4. t \in Package
      BY <1>2, <3>3
    <3>5. Needs[r] \subseteq Needs[t]
      BY <3>3, <3>4, PackagesAssumption
    <3>6. q \in Needs[t]
      BY <3>5
    <3>7. QED
      BY <3>1, <3>3, <3>6
  <2>5. QED
    BY <2>1, <2>4
<1>5. Closed(installed \ taken)
  BY <1>4 DEF Closed
<1>6. QED
  BY <1>3, <1>5

\* A package goes with p because it is p, because it needs p, or because dnf finds
\* that only such packages needed it.
LEMMA RemovedBecause ==
  ASSUME PackageTypeOK, NEW p \in Package, NEW taken \in Removals(p), NEW t \in taken
  PROVE  \/ t = p \/ p \in Needs[t]
         \/ t \in auto /\ \E d \in installed : (d = p \/ p \in Needs[d]) /\ t \in Needs[d]
<1> DEFINE gone == {q \in installed : q = p \/ p \in Needs[q]}
           loose == auto \cap UNION {Needs[q] : q \in gone}
           idle == {q \in loose : \A r \in installed \ (gone \union loose) : q \notin Needs[r]}
<1>1. t \in gone \/ t \in idle
  BY DEF Removals
<1>2. t \in idle => t \in auto /\ \E d \in gone : t \in Needs[d]
  OBVIOUS
<1>3. QED
  BY <1>1, <1>2

LEMMA TakesTyped ==
  ASSUME PackageTypeOK, NEW p \in Package, NEW taken \in Removals(p), Takes(taken)
  PROVE  /\ installed' = installed \ taken
         /\ installed' \subseteq Package /\ Closed(installed')
         /\ conf' \subseteq HasConf \ installed'
         /\ auto' \subseteq auto /\ auto' \subseteq installed'
<1>1. taken \subseteq installed /\ Closed(installed \ taken)
  BY RemovalsAre
<1>2. installed' = installed \ taken /\ auto' = auto \ taken
      /\ conf' = conf \union (taken \cap HasConf)
  BY DEF Takes
<1>3. Closed(installed')
  BY <1>1, <1>2
<1>4. conf' \subseteq HasConf \ installed'
  BY <1>2 DEF PackageTypeOK
<1>5. installed' \subseteq Package /\ auto' \subseteq auto /\ auto' \subseteq installed'
  BY <1>2 DEF PackageTypeOK
<1>6. QED
  BY <1>2, <1>3, <1>4, <1>5

\* Nothing that was there, or came from others, is or needs the demo's package;
\* whatever else there is came with it, and what has gone it needed.
Apart ==
  /\ wanted \subseteq installed
  /\ present \ installed \subseteq Needs[pkg]
  /\ installed \ present \subseteq {pkg} \union Needs[pkg]
  /\ \A q \in present : q # pkg /\ pkg \notin Needs[q]

Position ==
  {"prompt", "package.look", "package.install", "package.remove", "package.demo",
   "package.setup", "demo.install", "demo.verify", "demo.remove", "demo.verify-removal"}

PackInv ==
  /\ PackageTypeOK /\ pc \in Position
  /\ pc \notin {"prompt", "demo.verify-removal"} => present \subseteq installed
  /\ pc = "package.demo" => present = installed
  /\ pc # "prompt" => told = "nothing"
  /\ InDemo => pkg \in Package /\ (clash \/ Apart)
  /\ DemoKeepsOthers

LEMMA PackInvInit == PackageInit => PackInv
BY DEF PackageInit, PackInv, PackageTypeOK, Position, InDemo, Demonstrated, DemoKeepsOthers

\* What sysmgr's own steps keep: the types, when the database stays as it was.
LEMMA PackTypeKept ==
  ASSUME PackageTypeOK, UNCHANGED <<dbVars, pkg, present, wanted, clash>>
  PROVE  PackageTypeOK'
BY DEF PackageTypeOK, dbVars, Closed

LEMMA PackTypeInstalling ==
  ASSUME PackageTypeOK, present \subseteq installed,
         NEW S \in SUBSET Package, NEW ACTION Succeed, NEW ACTION Fail,
         Installing(S, Succeed, Fail), UNCHANGED <<pkg, present, wanted, clash>>
  PROVE  PackageTypeOK' /\ present' \subseteq installed'
<1>1. PICK more \in SUBSET With(S) : more \subseteq Package /\ Closed(more) /\ Adds(more, S)
  BY InstallingAdds
<1>2. /\ installed' = installed \union more
      /\ installed' \subseteq Package /\ Closed(installed')
      /\ conf' \subseteq HasConf \ installed'
      /\ auto' \subseteq auto \union (more \ installed)
  BY <1>1, AddsTyped
<1>3. auto' \subseteq installed' \ wanted'
  BY <1>2 DEF PackageTypeOK
<1>4. QED
  BY <1>2, <1>3 DEF PackageTypeOK

LEMMA PackTypeRemoving ==
  ASSUME PackageTypeOK, NEW p \in Package, NEW ACTION Succeed, NEW ACTION Fail,
         Removing(p, Succeed, Fail), UNCHANGED <<pkg, present, wanted, clash>>
  PROVE  PackageTypeOK'
<1>1. CASE UNCHANGED dbVars
  BY <1>1, PackTypeKept
<1>2. CASE \E taken \in Removals(p) : Takes(taken)
  <2>1. PICK taken \in Removals(p) : Takes(taken)
    BY <1>2
  <2>2. /\ installed' \subseteq Package /\ Closed(installed')
        /\ conf' \subseteq HasConf \ installed'
        /\ auto' \subseteq auto /\ auto' \subseteq installed'
    BY <2>1, TakesTyped
  <2>3. QED
    BY <2>2 DEF PackageTypeOK
<1>3. QED
  BY <1>1, <1>2 DEF Removing

\* The operations but for the demo end with an answer that is not the demo's.
LEMMA PackOperation ==
  ASSUME PackInv, PackageTypeOK', NEW what, what \notin {"demo-failed", "system-is-clean"},
         PackageTell(what)
  PROVE  PackInv'
BY DEF PackInv, PackageTell, Position, InDemo, Demonstrated, DemoKeepsOthers

\* The demo ends: of what others have, only what its package needed has gone.
Spared ==
  /\ wanted \subseteq installed
  /\ \A q \in present \ installed : pkg # NoPackage /\ q \in Needs[pkg]

LEMMA PackDemoEnds ==
  ASSUME PackInv, PackageTypeOK', NEW what \in {"demo-failed", "system-is-clean"},
         PackageTell(what),
         clash \/ Spared',
         what = "system-is-clean" => clash \/ installed' \ present \subseteq Needs[pkg]
  PROVE  PackInv'
BY DEF PackInv, PackageTell, Position, InDemo, Demonstrated, DemoKeepsOthers, Spared

LEMMA ApartSpares == pkg \in Package /\ Apart => Spared
BY PackagesAssumption DEF Apart, Spared

LEMMA ApartSparesNext == pkg' \in Package /\ Apart' => Spared'
BY PackagesAssumption DEF Apart, Spared

\* The demo goes on.
LEMMA PackDemoGoesOn ==
  ASSUME PackInv, PackageTypeOK', InDemo,
         NEW next \in {"demo.verify", "demo.remove", "demo.verify-removal"},
         PackageGoesTo(next), clash \/ Apart',
         next # "demo.verify-removal" => present' \subseteq installed'
  PROVE  PackInv'
<1>1. pkg' \in Package /\ InDemo' /\ clash' = clash
  BY DEF PackInv, PackageGoesTo, InDemo
<1>2. clash' \/ Spared'
  BY <1>1, ApartSparesNext
<1>3. told' = "nothing"
  BY DEF PackageGoesTo, PackInv, InDemo
<1>4. DemoKeepsOthers'
  BY <1>2, <1>3 DEF DemoKeepsOthers, Spared
<1>5. pc' \in Position /\ pc' \notin {"prompt", "package.demo"}
  BY DEF PackageGoesTo, Position
<1>6. pc' \notin {"prompt", "demo.verify-removal"} => present' \subseteq installed'
  BY DEF PackageGoesTo
<1>7. QED
  BY <1>1, <1>3, <1>4, <1>5, <1>6 DEF PackInv

LEMMA PackDemoStep ==
  PackInv /\ (DemoSelects \/ DemoInstalls \/ DemoVerifies \/ DemoRemoves \/ DemoVerifiesRemoval)
    => PackInv'
<1> SUFFICES ASSUME PackInv,
                    DemoSelects \/ DemoInstalls \/ DemoVerifies \/ DemoRemoves \/ DemoVerifiesRemoval
             PROVE  PackInv'
  OBVIOUS
<1>1. CASE DemoSelects
  <2> DEFINE free == {i \in DOMAIN candidates : ~Known(candidates[i])}
  <2>1. pc = "package.demo" /\ present = installed /\ told = "nothing" /\ UNCHANGED dbVars
    BY <1>1 DEF DemoSelects, At, PackInv
  <2>0. wanted \subseteq present
    BY DEF PackInv, PackageTypeOK
  <2>2. CASE free = {} /\ PackageTell("demo-failed")
    <3>1. PackageTypeOK'
      BY <2>1, <2>2, PackTypeKept DEF PackageTell, PackInv
    <3>2. Spared'
      BY <2>0, <2>1, <2>2 DEF dbVars, Spared, PackageTell
    <3>3. QED
      BY <2>2, <3>1, <3>2, PackDemoEnds
  <2>3. CASE /\ \E i \in free : pkg' = candidates[i]
             /\ pc' = "demo.install" /\ UNCHANGED <<told, pm, present, wanted, clash>>
    <3>1. PICK i \in free : pkg' = candidates[i]
      BY <2>3
    <3>2. pkg' \in Package /\ pkg' \notin installed
      BY <3>1, PackagesAssumption DEF Known
    <3>3. installed' = installed /\ conf' = conf /\ auto' = auto /\ wanted' = wanted /\ present' = present
      BY <2>1, <2>3 DEF dbVars
    <3>4. PackageTypeOK'
      BY <2>3, <3>2, <3>3 DEF PackInv, PackageTypeOK, Closed
    <3>5. \A q \in installed : q # pkg' /\ pkg' \notin Needs[q]
      BY <3>2 DEF PackInv, PackageTypeOK, Closed
    <3>6. Apart'
      BY <2>0, <2>1, <3>3, <3>5 DEF Apart
    <3>7. Spared'
      BY <3>2, <3>6, ApartSparesNext
    <3>8. DemoKeepsOthers'
      BY <2>1, <2>3, <3>7 DEF DemoKeepsOthers, Spared
    <3>9. QED
      BY <2>1, <2>3, <3>2, <3>3, <3>4, <3>6, <3>8 DEF PackInv, Position, InDemo
  <2>4. QED
    BY <1>1, <2>2, <2>3 DEF DemoSelects
<1>2. CASE DemoInstalls
  <2>1. InDemo /\ pkg \in Package /\ (clash \/ Apart) /\ PackageTypeOK /\ present \subseteq installed
    BY <1>2 DEF DemoInstalls, InDemo, PackInv
  <2>2. Installing({pkg}, PackageGoesTo("demo.verify"), PackageTell("demo-failed"))
    BY <1>2 DEF DemoInstalls
  <2>3. PackageGoesTo("demo.verify") \/ PackageTell("demo-failed")
    BY <2>2 DEF Installing
  <2>4. UNCHANGED <<pkg, present, wanted, clash>>
    BY <2>3 DEF PackageGoesTo, PackageTell
  <2>5. PackageTypeOK' /\ present' \subseteq installed'
    BY <2>1, <2>2, <2>4, PackTypeInstalling
  <2>6. PICK more \in SUBSET With({pkg}) : installed' = installed \union more
    <3>1. PICK more \in SUBSET With({pkg}) : Adds(more, {pkg})
      BY <2>1, <2>2, InstallingAdds
    <3>2. installed' = installed \union more
      BY <3>1 DEF Adds
    <3>3. QED
      BY <3>2
  <2>7. clash \/ Apart'
    BY <2>1, <2>4, <2>6 DEF Apart, With
  <2>8. clash \/ Spared'
    BY <2>1, <2>4, <2>7, ApartSparesNext
  <2>9. QED
    BY <2>1, <2>3, <2>5, <2>7, <2>8, PackDemoEnds, PackDemoGoesOn
<1>3. CASE DemoVerifies
  <2>1. InDemo /\ pkg \in Package /\ (clash \/ Apart) /\ PackageTypeOK /\ UNCHANGED dbVars
        /\ present \subseteq installed
    BY <1>3 DEF DemoVerifies, InDemo, PackInv
  <2>2. PackageGoesTo("demo.remove") \/ PackageTell("demo-failed")
    BY <1>3 DEF DemoVerifies
  <2>3. UNCHANGED <<pkg, present, wanted, clash>>
    BY <2>2 DEF PackageGoesTo, PackageTell
  <2>4. PackageTypeOK' /\ (clash \/ Apart') /\ present' \subseteq installed'
    BY <2>1, <2>3, PackTypeKept DEF Apart, dbVars
  <2>5. clash \/ Spared'
    BY <2>1, <2>3, <2>4, ApartSparesNext
  <2>6. QED
    BY <2>1, <2>2, <2>4, <2>5, PackDemoEnds, PackDemoGoesOn
<1>4. CASE DemoRemoves
  <2>1. InDemo /\ pkg \in Package /\ (clash \/ Apart) /\ PackageTypeOK /\ present \subseteq installed
    BY <1>4 DEF DemoRemoves, InDemo, PackInv
  <2>2. Removing(pkg, PackageGoesTo("demo.verify-removal"), PackageTell("demo-failed"))
    BY <1>4 DEF DemoRemoves
  <2>3. PackageGoesTo("demo.verify-removal") \/ PackageTell("demo-failed")
    BY <2>2 DEF Removing
  <2>4. UNCHANGED <<pkg, present, wanted, clash>>
    BY <2>3 DEF PackageGoesTo, PackageTell
  <2>5. PackageTypeOK'
    BY <2>1, <2>2, <2>4, PackTypeRemoving
  <2>6. CASE UNCHANGED dbVars
    <3>1. clash \/ Apart'
      BY <2>1, <2>4, <2>6 DEF Apart, dbVars
    <3>2. clash \/ Spared'
      BY <2>1, <2>4, <3>1, ApartSparesNext
    <3>3. QED
      BY <2>1, <2>3, <2>5, <3>1, <3>2, PackDemoEnds, PackDemoGoesOn
  <2>7. CASE \E taken \in Removals(pkg) : Takes(taken)
    <3>1. PICK taken \in Removals(pkg) : Takes(taken)
      BY <2>7
    <3>2. installed' = installed \ taken
      BY <3>1 DEF Takes
    <3>3. ASSUME Apart, NEW c \in taken
          PROVE  c \notin wanted /\ (c \in present => c \in Needs[pkg])
      <4>1. CASE c = pkg \/ pkg \in Needs[c]
        BY <2>1, <3>3, <4>1 DEF Apart, PackageTypeOK
      <4>2. CASE c \in auto /\ \E d \in installed : (d = pkg \/ pkg \in Needs[d]) /\ c \in Needs[d]
        <5>1. PICK d \in installed : (d = pkg \/ pkg \in Needs[d]) /\ c \in Needs[d]
          BY <4>2
        <5>2. d \notin present
          BY <3>3, <5>1 DEF Apart
        <5>3. d \in {pkg} \union Needs[pkg]
          BY <3>3, <5>2 DEF Apart
        <5>4. c \in Needs[pkg]
          BY <2>1, <5>1, <5>3, PackagesAssumption
        <5>5. c \notin wanted
          BY <2>1, <4>2 DEF PackageTypeOK
        <5>6. QED
          BY <5>4, <5>5
      <4>3. \A t \in taken :
              \/ t = pkg \/ pkg \in Needs[t]
              \/ t \in auto /\ \E d \in installed : (d = pkg \/ pkg \in Needs[d]) /\ t \in Needs[d]
        BY <2>1, <3>1, RemovedBecause
      <4>4. QED
        BY <3>3, <4>1, <4>2, <4>3
    <3>4. Apart => Apart'
      BY <2>4, <3>2, <3>3 DEF Apart
    <3>5. clash \/ Apart'
      BY <2>1, <3>4
    <3>6. clash \/ Spared'
      BY <2>1, <2>4, <3>5, ApartSparesNext
    <3>7. QED
      BY <2>1, <2>3, <2>5, <3>5, <3>6, PackDemoEnds, PackDemoGoesOn
  <2>8. QED
    BY <2>2, <2>6, <2>7 DEF Removing
<1>5. CASE DemoVerifiesRemoval
  <2>1. pkg \in Package /\ (clash \/ Apart) /\ PackageTypeOK /\ UNCHANGED dbVars
    BY <1>5 DEF DemoVerifiesRemoval, InDemo, PackInv
  <2>2. PICK what \in {"demo-failed", "system-is-clean"} :
             PackageTell(what) /\ (what = "system-is-clean" => pkg \notin installed)
    BY <1>5 DEF DemoVerifiesRemoval
  <2>3. UNCHANGED <<pkg, present, wanted, clash>>
    BY <2>2 DEF PackageTell
  <2>4. PackageTypeOK' /\ installed' = installed
    BY <2>1, <2>3, PackTypeKept DEF dbVars
  <2>5. clash \/ Spared'
    <3>1. clash \/ Apart'
      BY <2>1, <2>3, <2>4 DEF Apart
    <3>2. QED
      BY <2>1, <2>3, <3>1, ApartSparesNext
  <2>6. what = "system-is-clean" => clash \/ installed' \ present \subseteq Needs[pkg]
    BY <2>1, <2>2, <2>4 DEF Apart
  <2>7. QED
    BY <2>2, <2>4, <2>5, <2>6, PackDemoEnds
<1>6. QED
  BY <1>1, <1>2, <1>3, <1>4, <1>5

\* The other administrator, who leaves the demo's package apart.
LEMMA PackOthersStep == PackInv /\ OtherPackages => PackInv'
<1> SUFFICES ASSUME PackInv, OtherPackages PROVE PackInv'
  OBVIOUS
<1>1. pc # "prompt" /\ told = "nothing" /\ UNCHANGED <<pc, told, pkg>> /\ PackageTypeOK
  BY DEF OtherPackages, OtherInstalls, OtherRemoves, PackInv
<1>2. ASSUME NEW p \in Package, OtherInstalls(p)
      PROVE  /\ PackageTypeOK'
             /\ present = installed => present' = installed'
             /\ present \subseteq installed => present' \subseteq installed'
             /\ pkg \in Package /\ (clash \/ Apart) => clash' \/ Apart'
  <2> DEFINE new == {p} \union Needs[p]
  <2>1. present' = present \union new /\ wanted' = (wanted \union new) \ auto'
        /\ clash' = (clash \/ pkg \in new)
    BY <1>2 DEF OtherInstalls
  <2>2. new \subseteq Package /\ \A r \in new : Needs[r] \subseteq new
    BY PackagesAssumption
  <2>3. /\ installed' = installed \union new
        /\ installed' \subseteq Package /\ Closed(installed')
        /\ conf' \subseteq HasConf \ installed'
        /\ auto' \subseteq auto \union (new \ installed)
    <3>1. Closed(new) /\ Adds(new, {p})
      BY <1>2, <2>2 DEF Closed, OtherInstalls
    <3>2. QED
      BY <1>1, <2>2, <3>1, AddsTyped
  <2>4. PackageTypeOK'
    <3>1. auto' \subseteq installed' \ wanted'
      BY <1>1, <2>1, <2>3 DEF PackageTypeOK
    <3>2. wanted' \subseteq present' /\ present' \subseteq Package /\ clash' \in BOOLEAN
      BY <1>1, <2>1, <2>2 DEF PackageTypeOK
    <3>3. QED
      BY <1>1, <2>3, <3>1, <3>2 DEF PackageTypeOK
  <2>5. ASSUME pkg \in Package, clash \/ Apart, ~clash'
        PROVE  Apart'
    <3>1. ~clash /\ pkg \notin new /\ Apart
      BY <2>1, <2>5
    <3>2. \A q \in new : q # pkg /\ pkg \notin Needs[q]
      BY <2>2, <3>1
    <3>3. QED
      BY <1>1, <2>1, <2>3, <3>1, <3>2 DEF Apart
  <2>6. QED
    BY <2>1, <2>3, <2>4, <2>5
<1>3. ASSUME NEW p \in Package, OtherRemoves(p)
      PROVE  /\ PackageTypeOK'
             /\ present = installed => present' = installed'
             /\ present \subseteq installed => present' \subseteq installed'
             /\ pkg \in Package /\ (clash \/ Apart) => clash' \/ Apart'
  <2>1. PICK taken \in Removals(p) :
             Takes(taken) /\ present' = present \ taken /\ wanted' = wanted \ taken
    BY <1>3 DEF OtherRemoves
  <2>2. /\ installed' = installed \ taken
        /\ installed' \subseteq Package /\ Closed(installed')
        /\ conf' \subseteq HasConf \ installed'
        /\ auto' \subseteq auto /\ auto' \subseteq installed'
    BY <1>1, <2>1, TakesTyped
  <2>3. clash' = clash
    BY <1>3 DEF OtherRemoves
  <2>4. PackageTypeOK'
    BY <1>1, <2>1, <2>2, <2>3 DEF PackageTypeOK
  <2>5. Apart => Apart'
    BY <1>1, <2>1, <2>2 DEF Apart
  <2>6. QED
    BY <2>1, <2>2, <2>3, <2>4, <2>5
<1>4. PICK p \in Package : OtherInstalls(p) \/ OtherRemoves(p)
  BY DEF OtherPackages
<1>5. PackageTypeOK' /\ (present = installed => present' = installed')
      /\ (present \subseteq installed => present' \subseteq installed')
      /\ (pkg \in Package /\ (clash \/ Apart) => clash' \/ Apart')
  BY <1>2, <1>3, <1>4
<1>6. (InDemo' => InDemo) /\ (InDemo => pkg' \in Package /\ (clash' \/ Apart'))
  BY <1>1, <1>5 DEF InDemo, PackInv
<1>7. DemoKeepsOthers'
  <2>1. InDemo' => clash' \/ Spared'
    BY <1>6, ApartSparesNext
  <2>2. QED
    BY <1>1, <2>1 DEF DemoKeepsOthers, Spared, Demonstrated
<1>8. QED
  BY <1>1, <1>5, <1>6, <1>7 DEF PackInv

LEMMA PackInvStep == PackInv /\ [PackageNext]_packageVars => PackInv'
<1> SUFFICES ASSUME PackInv, [PackageNext]_packageVars PROVE PackInv'
  OBVIOUS
<1>0. PackageTypeOK
  BY DEF PackInv
<1>k. ASSUME NEW what, what \notin {"demo-failed", "system-is-clean"},
             PackageTell(what), UNCHANGED dbVars
      PROVE  PackInv'
  <2>1. PackageTypeOK'
    BY <1>0, <1>k, PackTypeKept DEF PackageTell
  <2>2. QED
    BY <1>k, <2>1, PackOperation
<1>r. ASSUME NEW operation, Refuse(operation) PROVE PackInv'
  BY <1>r, <1>k DEF Refuse
<1>1. CASE PackageStart
  <2>1. PICK operation \in {"package.look", "package.install", "package.remove",
                             "package.demo", "package.setup"},
             p \in Package \union {NoPackage} : PackageBegin(operation, p)
    BY <1>1 DEF PackageStart, Position
  <2>2. PackageTypeOK'
    BY <2>1 DEF PackageBegin, PackInv, PackageTypeOK, dbVars, Closed
  <2>3. QED
    BY <2>1, <2>2 DEF PackageBegin, PackInv, Position, InDemo, Demonstrated, DemoKeepsOthers, dbVars
<1>2. CASE NoManager
  BY <1>2, <1>k DEF NoManager
<1>3. CASE PackageLook
  BY <1>3, <1>k DEF PackageLook
<1>4. CASE PackageInstall
  <2>1. CASE Refuse("package.install")
    BY <2>1, <1>r
  <2>2. CASE /\ pkg \notin Critical \union {NoPackage}
             /\ Installing({pkg}, PackageTell("installed"), PackageTell("failed"))
    <3>1. pkg \in Package
      BY <2>2, <1>0 DEF PackageTypeOK
    <3>2. PackageTell("installed") \/ PackageTell("failed")
      BY <2>2 DEF Installing
    <3>3. PackageTypeOK'
      BY <1>0, <1>4, <2>2, <3>1, <3>2, PackTypeInstalling DEF PackageTell, PackInv, PackageInstall, Refuse, At
    <3>4. QED
      BY <3>2, <3>3, PackOperation
  <2>3. QED
    BY <1>4, <2>1, <2>2 DEF PackageInstall
<1>5. CASE PackageSetup
  <2>1. /\ Essential \in SUBSET Package
        /\ Installing(Essential, PackageTell("set-up"), PackageTell("failed"))
    BY <1>5, PackagesAssumption DEF PackageSetup
  <2>2. PackageTell("set-up") \/ PackageTell("failed")
    BY <2>1, InstallingAdds
  <2>3. PackageTypeOK'
    BY <1>0, <1>5, <2>1, <2>2, PackTypeInstalling DEF PackageTell, PackInv, PackageSetup, At
  <2>4. QED
    BY <2>2, <2>3, PackOperation
<1>6. CASE PackageRemove
  <2>1. CASE Refuse("package.remove")
    BY <2>1, <1>r
  <2>2. CASE /\ pkg \notin Critical \union {NoPackage}
             /\ Removing(pkg, PackageTell("removed"), PackageTell("failed"))
    <3>1. pkg \in Package
      BY <2>2, <1>0 DEF PackageTypeOK
    <3>2. PackageTell("removed") \/ PackageTell("failed")
      BY <2>2 DEF Removing
    <3>3. PackageTypeOK'
      BY <1>0, <2>2, <3>1, <3>2, PackTypeRemoving DEF PackageTell
    <3>4. QED
      BY <3>2, <3>3, PackOperation
  <2>3. QED
    BY <1>6, <2>1, <2>2 DEF PackageRemove
<1>7. CASE UNCHANGED packageVars
  BY <1>7 DEF packageVars, dbVars, PackInv, PackageTypeOK, Closed, Position, InDemo, Demonstrated,
              DemoKeepsOthers, Apart
<1>8. QED
  BY <1>1, <1>2, <1>3, <1>4, <1>5, <1>6, <1>7, PackDemoStep, PackOthersStep
     DEF PackageNext, PackageCommands

LEMMA PackInvariant == PackageSpec => []PackInv
<1>1. QED
  BY PackInvInit, PackInvStep, PTL DEF PackageSpec

\* Whatever is removed by name, by the user or by the demo, is not critical.
CritInv ==
  /\ CriticalKept
  /\ InDemo => pkg \notin Critical

LEMMA CritInvInit == PackageInit => CritInv
BY DEF PackageInit, CritInv, CriticalKept, InDemo

LEMMA CritInvRemoving ==
  ASSUME CritInv, PackageTypeOK, pkg \in Package, pkg \notin Critical,
         NEW ACTION Succeed, NEW ACTION Fail,
         Removing(pkg, Succeed, Fail), UNCHANGED <<pkg, present, wanted>>
  PROVE  CriticalKept'
<1>1. CASE UNCHANGED dbVars
  BY <1>1 DEF CritInv, CriticalKept, dbVars
<1>2. CASE \E taken \in Removals(pkg) : Takes(taken)
  <2>1. PICK taken \in Removals(pkg) : Takes(taken)
    BY <1>2
  <2>2. \A t \in taken :
          \/ t = pkg \/ pkg \in Needs[t]
          \/ t \in auto /\ \E d \in installed : (d = pkg \/ pkg \in Needs[d]) /\ t \in Needs[d]
    BY RemovedBecause
  <2>3. installed' = installed \ taken
    BY <2>1 DEF Takes
  <2>4. ASSUME NEW c \in (present' \ installed') \cap Critical
        PROVE  /\ c # pkg'
               /\ \/ pkg' \in Needs[c]
                  \/ c \notin wanted' /\ \E d \in Package : c \in Needs[d] /\ pkg' \in {d} \union Needs[d]
    <3>1. CASE c \notin installed
      BY <3>1, <2>4 DEF CritInv, CriticalKept
    <3>2. CASE c \in installed
      <4>1. c \in taken /\ c # pkg
        BY <2>3, <2>4, <3>2
      <4>2. \/ pkg \in Needs[c]
            \/ c \in auto /\ \E d \in installed : (d = pkg \/ pkg \in Needs[d]) /\ c \in Needs[d]
        BY <2>2, <4>1
      <4>3. (c \in auto => c \notin wanted) /\ installed \subseteq Package
        BY DEF PackageTypeOK
      <4>4. QED
        BY <4>1, <4>2, <4>3
    <3>3. QED
      BY <3>1, <3>2
  <2>5. QED
    BY <2>4 DEF CriticalKept
<1>3. QED
  BY <1>1, <1>2 DEF Removing

\* What has not gone from the database now, nor been asked for by name.
LEMMA CritInvKept ==
  ASSUME CritInv, pkg' = pkg,
         \A c \in present' \ installed' : c \in present \ installed /\ (c \in wanted' => c \in wanted)
  PROVE  CriticalKept'
BY DEF CritInv, CriticalKept

LEMMA CritInvStep == PackInv /\ CritInv /\ [PackageNext]_packageVars => CritInv'
<1> SUFFICES ASSUME PackInv, CritInv, [PackageNext]_packageVars PROVE CritInv'
  OBVIOUS
<1>0. PackageTypeOK /\ (InDemo => pkg \in Package)
  BY DEF PackInv
<1>t. ASSUME NEW what, PackageTell(what) PROVE ~InDemo'
  BY <1>t DEF PackageTell, InDemo
<1>g. ASSUME NEW next, PackageGoesTo(next), InDemo PROVE pkg' \notin Critical
  BY <1>g DEF PackageGoesTo, CritInv
<1>k. ASSUME NEW what, PackageTell(what), UNCHANGED dbVars PROVE CritInv'
  <2>1. pkg' = pkg /\ wanted' = wanted /\ present' = present /\ installed' = installed
    BY <1>k DEF PackageTell, dbVars
  <2>2. CriticalKept'
    BY <2>1, CritInvKept
  <2>3. QED
    BY <1>k, <1>t, <2>2 DEF CritInv
<1>i. ASSUME NEW S, NEW ACTION Succeed, NEW ACTION Fail, Installing(S, Succeed, Fail),
             UNCHANGED <<pkg, present, wanted>>
      PROVE  CriticalKept'
  <2>1. installed \subseteq installed'
    BY <1>i DEF Installing, Adds
  <2>2. QED
    BY <1>i, <2>1, CritInvKept
<1>1. CASE PackageStart
  <2>1. PICK operation \in {"package.look", "package.install", "package.remove",
                             "package.demo", "package.setup"},
             p \in Package \union {NoPackage} : PackageBegin(operation, p)
    BY <1>1 DEF PackageStart
  <2>2. present' = installed /\ installed' = installed /\ ~InDemo'
    BY <2>1 DEF PackageBegin, dbVars, InDemo
  <2>3. QED
    BY <2>2 DEF CritInv, CriticalKept
<1>2. CASE NoManager
  BY <1>2, <1>k DEF NoManager
<1>3. CASE PackageLook
  BY <1>3, <1>k DEF PackageLook
<1>4. CASE PackageInstall
  <2>1. CASE Refuse("package.install")
    BY <2>1, <1>k DEF Refuse
  <2>2. CASE Installing({pkg}, PackageTell("installed"), PackageTell("failed"))
    <3>1. PackageTell("installed") \/ PackageTell("failed")
      BY <2>2 DEF Installing
    <3>2. CriticalKept' /\ ~InDemo'
      BY <1>i, <1>t, <2>2, <3>1 DEF PackageTell
    <3>3. QED
      BY <3>2 DEF CritInv
  <2>3. QED
    BY <1>4, <2>1, <2>2 DEF PackageInstall
<1>5. CASE PackageSetup
  <2>1. Installing(Essential, PackageTell("set-up"), PackageTell("failed"))
    BY <1>5 DEF PackageSetup
  <2>2. PackageTell("set-up") \/ PackageTell("failed")
    BY <2>1 DEF Installing
  <2>3. CriticalKept' /\ ~InDemo'
    BY <1>i, <1>t, <2>1, <2>2 DEF PackageTell
  <2>4. QED
    BY <2>3 DEF CritInv
<1>6. CASE PackageRemove
  <2>1. CASE Refuse("package.remove")
    BY <2>1, <1>k DEF Refuse
  <2>2. CASE /\ pkg \notin Critical \union {NoPackage}
             /\ Removing(pkg, PackageTell("removed"), PackageTell("failed"))
    <3>1. PackageTell("removed") \/ PackageTell("failed")
      BY <2>2 DEF Removing
    <3>2. pkg \in Package /\ UNCHANGED <<pkg, present, wanted>> /\ ~InDemo'
      BY <1>0, <1>t, <2>2, <3>1 DEF PackageTypeOK, PackageTell
    <3>3. CriticalKept'
      BY <1>0, <2>2, <3>2, CritInvRemoving
    <3>4. QED
      BY <3>2, <3>3 DEF CritInv
  <2>3. QED
    BY <1>6, <2>1, <2>2 DEF PackageRemove
<1>7. CASE DemoSelects
  <2>1. CASE PackageTell("demo-failed") /\ UNCHANGED dbVars
    BY <2>1, <1>k
  <2>2. CASE /\ pc = "package.demo" /\ UNCHANGED <<dbVars, present, wanted>>
             /\ \E i \in DOMAIN candidates : pkg' = candidates[i]
    <3>1. present' = present /\ installed' = installed /\ present = installed
      BY <2>2 DEF dbVars, PackInv
    <3>2. pkg' \notin Critical
      BY <2>2, PackagesAssumption
    <3>3. QED
      BY <3>1, <3>2 DEF CritInv, CriticalKept
  <2>3. QED
    BY <1>7, <2>1, <2>2 DEF DemoSelects, At
<1>8. CASE DemoInstalls
  <2>1. Installing({pkg}, PackageGoesTo("demo.verify"), PackageTell("demo-failed")) /\ InDemo
    BY <1>8 DEF DemoInstalls, InDemo
  <2>2. PackageGoesTo("demo.verify") \/ PackageTell("demo-failed")
    BY <2>1 DEF Installing
  <2>3. CriticalKept' /\ (InDemo' => pkg' \notin Critical)
    BY <1>i, <1>t, <1>g, <2>1, <2>2 DEF PackageTell, PackageGoesTo
  <2>4. QED
    BY <2>3 DEF CritInv
<1>9. CASE DemoVerifies
  <2>1. InDemo /\ UNCHANGED <<dbVars, pkg, present, wanted>>
        /\ (PackageGoesTo("demo.remove") \/ PackageTell("demo-failed"))
    BY <1>9 DEF DemoVerifies, InDemo, PackageGoesTo, PackageTell
  <2>2. CriticalKept' /\ (InDemo' => pkg' \notin Critical)
    BY <1>t, <1>g, <2>1, CritInvKept DEF dbVars
  <2>3. QED
    BY <2>2 DEF CritInv
<1>10. CASE DemoRemoves
  <2>1. Removing(pkg, PackageGoesTo("demo.verify-removal"), PackageTell("demo-failed")) /\ InDemo
    BY <1>10 DEF DemoRemoves, InDemo
  <2>2. PackageGoesTo("demo.verify-removal") \/ PackageTell("demo-failed")
    BY <2>1 DEF Removing
  <2>3. UNCHANGED <<pkg, present, wanted>> /\ pkg \in Package /\ pkg \notin Critical
    BY <1>0, <2>1, <2>2 DEF PackageTell, PackageGoesTo, CritInv
  <2>4. CriticalKept'
    BY <1>0, <2>1, <2>3, CritInvRemoving
  <2>5. QED
    BY <2>3, <2>4 DEF CritInv
<1>11. CASE DemoVerifiesRemoval
  <2>1. UNCHANGED dbVars /\ (PackageTell("system-is-clean") \/ PackageTell("demo-failed"))
    BY <1>11 DEF DemoVerifiesRemoval
  <2>2. QED
    BY <1>k, <2>1
<1>12. CASE OtherPackages
  <2>1. PICK p \in Package : OtherInstalls(p) \/ OtherRemoves(p)
    BY <1>12 DEF OtherPackages
  <2>2. /\ pkg' = pkg /\ pc' = pc
        /\ \A c \in present' \ installed' : c \in present \ installed /\ (c \in wanted' => c \in wanted)
    <3>1. CASE OtherInstalls(p)
      BY <3>1 DEF OtherInstalls, Adds
    <3>2. CASE OtherRemoves(p)
      BY <3>2 DEF OtherRemoves, Takes
    <3>3. QED
      BY <2>1, <3>1, <3>2
  <2>3. CriticalKept' /\ (InDemo' => InDemo)
    BY <2>2, CritInvKept DEF InDemo
  <2>4. QED
    BY <2>2, <2>3 DEF CritInv
<1>13. CASE UNCHANGED packageVars
  BY <1>13 DEF packageVars, dbVars, CritInv, CriticalKept, InDemo
<1>14. QED
  BY <1>1, <1>2, <1>3, <1>4, <1>5, <1>6, <1>7, <1>8, <1>9, <1>10, <1>11, <1>12, <1>13
     DEF PackageNext, PackageCommands

\* For any packages, any critical names and any candidates that are not among
\* them: what is critical and asked for by name is gone only after the removal of
\* something that it needs; what dnf noted as installed for others may also go
\* with the last that needed it (the case patterns of shell/program.sh).
THEOREM CriticalStaysInPlace == PackageSpec => []CriticalKept
<1>1. CritInv => CriticalKept
  BY DEF CritInv
<1>2. QED
  BY <1>1, PackInvariant, CritInvInit, CritInvStep, PTL DEF PackageSpec

\* For any packages and any dependencies that are closed: whatever fails and
\* whatever others do, the database of Packages is well-formed and nothing is
\* installed without its needs.
THEOREM PackagesTyped == PackageSpec => []PackageTypeOK
<1>1. PackInv => PackageTypeOK
  BY DEF PackInv
<1>2. QED
  BY <1>1, PackInvariant, PTL

\* For any packages, any candidates of the demo of shell/program.sh and any
\* administrators at work meanwhile: the demo takes away nothing that was asked
\* for by name, and nothing else but what its own package needs and dnf finds
\* idle, unless others have come to want that package.
THEOREM DemoLeavesOthers == PackageSpec => []DemoKeepsOthers
<1>1. PackInv => DemoKeepsOthers
  BY DEF PackInv
<1>2. QED
  BY <1>1, PackInvariant, PTL
-----------------------------------------------------------------------------
(* The processes.                                                           *)

Who == {None} \union Process
Row == [pid : Number, process : Process]

\* While an operation is under way, everybody who has a number is known to have
\* lived since it began; a signal is only sent to a number that was given.
LivedInv ==
  /\ table \in [Number -> Who]
  /\ lived \in [Number -> SUBSET Who]
  /\ pc # "prompt" => told = "nothing" /\ \A n \in Number : table[n] \in lived[n]
  /\ arg \in [pid : Number \union {0}, value : Int]
  /\ pc \in {"signal.kill", "nice.get", "nice.set"} => arg.pid \in Number
  /\ pc \in {"prompt", "list", "list.cmdline", "search", "signal", "signal.kill",
             "nice", "nice.get", "nice.set"}

\* The numbers in readdir's buffer are in order, and beyond those on the lines.
BatchInOrder ==
  /\ batch \in Seq(Number) /\ cursor \in Nat
  /\ \A i, j \in 1..Len(batch) : i < j => batch[i] < batch[j]
  /\ \A i \in 1..Len(batch) : batch[i] <= cursor

RowsInOrder ==
  /\ rows \in Seq(Row)
  /\ \A i, j \in 1..Len(rows) : i < j => rows[i].pid < rows[j].pid
  /\ \A i \in 1..Len(rows) : rows[i].process \in lived[rows[i].pid]

RowsBehind ==
  /\ \A i \in 1..Len(rows) : rows[i].pid <= cursor
  /\ \A i \in 1..Len(rows), j \in 1..Len(batch) : rows[i].pid < batch[j]

\* Up to the cursor, whoever has lived all along is on a line or about to be.
Complete ==
  \A n \in Number, p \in query :
    lived[n] = {p} /\ n <= cursor =>
      \/ \E i \in 1..Len(batch) : batch[i] = n
      \/ \E i \in 1..Len(rows) : rows[i] = [pid |-> n, process |-> p]

ListInv ==
  /\ query \subseteq Process
  /\ pc \in {"list", "list.cmdline"} => BatchInOrder /\ RowsInOrder /\ RowsBehind /\ Complete
  /\ pc = "list.cmdline" => batch # <<>> /\ stat \in lived[Head(batch)] \ {None}

ProcessAnswers == ListingComplete /\ SignalReachesNamed /\ NotFoundMeansGone

ProcInv == LivedInv /\ ListInv /\ ProcessAnswers

LEMMA ProcInvInit == ProcessInit => ProcInv
<1> SUFFICES ASSUME ProcessInit PROVE ProcInv
  OBVIOUS
<1>1. LivedInv
  BY DEF ProcessInit, LivedInv, Who
<1>2. ListInv /\ ProcessAnswers
  BY DEF ProcessInit, ListInv, ProcessAnswers, ListingComplete, SignalReachesNamed, NotFoundMeansGone
<1>3. QED
  BY <1>1, <1>2 DEF ProcInv

\* Others: who has lived only grows while an operation is under way.
LEMMA LivedStep ==
  ASSUME LivedInv, NEW t \in [Number -> Who], TableBecomes(t), UNCHANGED <<pc, told, arg>>
  PROVE  /\ LivedInv'
         /\ pc = "prompt" => lived' = lived
         /\ pc # "prompt" => \A n \in Number : /\ lived[n] \subseteq lived'[n]
                                             /\ \A p : lived'[n] = {p} => lived[n] = {p}
<1>1. CASE pc = "prompt"
  BY <1>1 DEF LivedInv, TableBecomes
<1>2. CASE pc # "prompt"
  <2>1. lived' = [n \in Number |-> lived[n] \union {t[n]}] /\ table' = t
    BY <1>2 DEF TableBecomes
  <2>2. \A n \in Number : table[n] \in lived[n]
    BY <1>2 DEF LivedInv
  <2>3. LivedInv'
    BY <1>2, <2>1 DEF LivedInv
  <2>4. \A n \in Number : lived[n] \subseteq lived'[n]
    BY <2>1
  <2>5. ASSUME NEW n \in Number, NEW p, lived'[n] = {p} PROVE lived[n] = {p}
    <3>1. lived[n] \union {t[n]} = {p}
      BY <2>1, <2>5
    <3>2. QED
      BY <2>2, <3>1
  <2>6. QED
    BY <1>2, <2>3, <2>4, <2>5
<1>3. QED
  BY <1>1, <1>2

LEMMA OtherProcessesStep == ProcInv /\ OtherProcesses => ProcInv'
<1> SUFFICES ASSUME ProcInv, OtherProcesses PROVE ProcInv'
  OBVIOUS
<1>1. PICK t \in [Number -> Who] : TableBecomes(t)
  <2>1. ASSUME NEW n \in Number, NEW p \in Who
        PROVE  [table EXCEPT ![n] = p] \in [Number -> Who]
    BY DEF ProcInv, LivedInv
  <2>2. PICK n \in Number : Ends(n) \/ \E p \in Process : Starts(n, p)
    BY DEF OtherProcesses
  <2>3. CASE Ends(n)
    BY <2>1, <2>3 DEF Ends, Who
  <2>4. CASE \E p \in Process : Starts(n, p)
    BY <2>1, <2>4 DEF Starts, Who
  <2>5. QED
    BY <2>2, <2>3, <2>4
<1>2. UNCHANGED <<pc, told, arg, query, listVars, stat, current, hit>>
  BY DEF OtherProcesses, Ends, Starts
<1>3. LivedInv
  BY DEF ProcInv
<1>4. /\ LivedInv'
      /\ pc = "prompt" => lived' = lived
      /\ pc # "prompt" => \A n \in Number : /\ lived[n] \subseteq lived'[n]
                                          /\ \A p : lived'[n] = {p} => lived[n] = {p}
  BY <1>1, <1>2, <1>3, LivedStep
<1>5. CASE pc = "prompt"
  BY <1>2, <1>4, <1>5 DEF ProcInv, ListInv, listVars, ProcessAnswers, ListingComplete,
                          SignalReachesNamed, NotFoundMeansGone
<1>6. CASE pc # "prompt"
  <2>1. ProcessAnswers'
    BY <1>2, <1>3, <1>6 DEF LivedInv, ProcessAnswers, ListingComplete, SignalReachesNamed, NotFoundMeansGone
  <2>2. CASE pc \in {"list", "list.cmdline"}
    <3>1. query' = query /\ batch' = batch /\ rows' = rows /\ cursor' = cursor /\ stat' = stat /\ pc' = pc
      BY <1>2 DEF listVars
    <3>2. BatchInOrder /\ RowsInOrder /\ RowsBehind /\ Complete
      BY <2>2 DEF ProcInv, ListInv
    <3>3. BatchInOrder' /\ RowsBehind'
      BY <3>1, <3>2 DEF BatchInOrder, RowsBehind
    <3>4. RowsInOrder'
      <4>1. \A i \in 1..Len(rows) : rows[i] \in Row
        BY <3>2, ElementOfSeq DEF RowsInOrder
      <4>2. \A i \in 1..Len(rows) : rows[i].pid \in Number
        BY <4>1 DEF Row
      <4>3. QED
        BY <1>4, <1>6, <3>1, <3>2, <4>2 DEF RowsInOrder
    <3>5. Complete'
      BY <1>4, <1>6, <3>1, <3>2 DEF Complete
    <3>6. pc = "list.cmdline" => Head(batch) \in Number
      BY <3>2, HeadTailProperties DEF ProcInv, ListInv, BatchInOrder
    <3>7. (pc = "list.cmdline" => batch # <<>> /\ stat \in lived[Head(batch)] \ {None})'
      BY <1>4, <1>6, <3>1, <3>6 DEF ProcInv, ListInv
    <3>8. ListInv'
      BY <3>1, <3>3, <3>4, <3>5, <3>7 DEF ProcInv, ListInv
    <3>9. QED
      BY <1>4, <2>1, <3>8 DEF ProcInv
  <2>3. CASE pc \notin {"list", "list.cmdline"}
    BY <1>2, <1>4, <2>1, <2>3 DEF ProcInv, ListInv
  <2>4. QED
    BY <2>2, <2>3
<1>7. QED
  BY <1>5, <1>6

\* An operation begins.
LEMMA ProcessBeginStep ==
  ASSUME ProcInv, NEW operation \in {"list", "search", "signal", "nice"},
         NEW pid \in Number \union {0}, NEW value \in Int, NEW who \in SUBSET Process,
         ProcessBegin(operation, pid, value, who)
  PROVE  ProcInv'
<1>1. /\ pc' = operation /\ told' = "nothing" /\ arg' = [pid |-> pid, value |-> value] /\ query' = who
      /\ batch' = <<>> /\ cursor' = 0 /\ rows' = <<>> /\ lived' = [n \in Number |-> {table[n]}]
      /\ table' = table
  BY DEF ProcessBegin, tableVars
<1>2. LivedInv'
  BY <1>1 DEF ProcInv, LivedInv, Who
<1>3. BatchInOrder' /\ RowsInOrder' /\ RowsBehind'
  <2>1. Len(batch') = 0 /\ Len(rows') = 0 /\ batch' \in Seq(Number) /\ rows' \in Seq(Row)
    BY <1>1, EmptySeq
  <2>2. QED
    BY <1>1, <2>1 DEF BatchInOrder, RowsInOrder, RowsBehind
<1>4. Complete'
  BY <1>1, ProcessAssumption DEF Complete
<1>5. ListInv' /\ ProcessAnswers'
  BY <1>1, <1>3, <1>4 DEF ListInv, ProcessAnswers, ListingComplete, SignalReachesNamed, NotFoundMeansGone
<1>6. QED
  BY <1>2, <1>5 DEF ProcInv

\* An answer, and a step to a position outside the listing.
LEMMA ProcessAnswered ==
  ASSUME ProcInv, NEW what, pc' = "prompt", told' = what,
         UNCHANGED <<table, arg, query, lived>>, ProcessAnswers'
  PROVE  ProcInv'
BY DEF ProcInv, LivedInv, ListInv

LEMMA ProcessMoves ==
  ASSUME ProcInv, pc # "prompt", pc' \in {"signal.kill", "nice.get", "nice.set"},
         arg.pid \in Number, UNCHANGED <<told, table, arg, query, lived>>
  PROVE  ProcInv'
<1>1. told' = "nothing"
  BY DEF ProcInv, LivedInv
<1>2. LivedInv' /\ ListInv'
  BY DEF ProcInv, LivedInv, ListInv
<1>3. ProcessAnswers'
  BY <1>1 DEF ProcessAnswers, ListingComplete, SignalReachesNamed, NotFoundMeansGone
<1>4. QED
  BY <1>2, <1>3 DEF ProcInv

\* The answers that say nothing of the three properties, and "not found".
LEMMA PlainAnswer ==
  ASSUME ProcInv, NEW what, pc' = "prompt", told' = what,
         what \notin {"rows", "no-match", "signalled", "not-found"},
         UNCHANGED <<table, arg, query, lived>>
  PROVE  ProcInv'
BY ProcessAnswered DEF ProcessAnswers, ListingComplete, SignalReachesNamed, NotFoundMeansGone

LEMMA NotFoundAnswer ==
  ASSUME ProcInv, pc # "prompt", pc' = "prompt", told' = "not-found", Holder = None,
         UNCHANGED <<table, arg, query, lived>>
  PROVE  ProcInv'
<1>1. arg.pid \in Number => None \in lived[arg.pid]
  BY DEF ProcInv, LivedInv, Holder
<1>2. QED
  BY <1>1, ProcessAnswered DEF ProcessAnswers, ListingComplete, SignalReachesNamed, NotFoundMeansGone

LEMMA PositivePid == ProcInv /\ arg.pid > 0 => arg.pid \in Number
BY DEF ProcInv, LivedInv

LEMMA SignalStep == ProcInv /\ (ProcessSearch \/ SignalNames \/ Kill) => ProcInv'
<1> SUFFICES ASSUME ProcInv, ProcessSearch \/ SignalNames \/ Kill PROVE ProcInv'
  OBVIOUS
<1>1. CASE ProcessSearch
  <2>1. UNCHANGED <<table, arg, query, lived>> /\ pc # "prompt" /\ pc' = "prompt"
    BY <1>1 DEF ProcessSearch, tableVars
  <2>2. CASE Holder = None
    BY <1>1, <2>1, <2>2, NotFoundAnswer DEF ProcessSearch
  <2>3. CASE Holder # None
    BY <1>1, <2>1, <2>3, PlainAnswer DEF ProcessSearch
  <2>4. QED
    BY <2>2, <2>3
<1>2. CASE SignalNames
  <2>1. CASE arg.pid <= 0 /\ ProcessTell("invalid-PID")
    BY <2>1, PlainAnswer DEF ProcessTell, tableVars
  <2>2. CASE arg.pid > 0 /\ ReadStat(Holder, "signal.kill")
    BY <1>2, <2>2, ProcessMoves, PositivePid DEF SignalNames, ReadStat, tableVars
  <2>3. QED
    BY <1>2, <2>1, <2>2 DEF SignalNames
<1>3. CASE Kill
  <2> DEFINE reached == Reached(arg.pid)
  <2>1. pc = "signal.kill" /\ arg.pid \in Number /\ reached = {table[arg.pid]} \ {None}
    BY <1>3 DEF Kill, ProcInv, LivedInv, Reached
  <2>2. Holder = table[arg.pid] /\ table[arg.pid] \in lived[arg.pid]
    BY <2>1 DEF Holder, ProcInv, LivedInv
  <2>3. CASE reached = {} /\ ProcessTell("not-found")
    BY <2>1, <2>2, <2>3, NotFoundAnswer DEF ProcessTell, tableVars
  <2>4. CASE ProcessTell("denied") \/ ProcessTell("invalid-signal")
    BY <2>4, PlainAnswer DEF ProcessTell, tableVars
  <2>5. CASE reached \cap Mine # {} /\ ProcessTell("signalled") /\ hit' = reached \cap Mine
    <3>1. hit' = {table[arg.pid]}
      BY <2>1, <2>5
    <3>2. /\ pc' = "prompt" /\ told' = "signalled" /\ stat' = stat
          /\ arg' = arg /\ lived' = lived /\ query' = query /\ table' = table
      BY <2>5 DEF ProcessTell, tableVars
    <3>3. SignalReachesNamed'
      BY <2>1, <2>2, <3>1, <3>2 DEF SignalReachesNamed
    <3>4. QED
      BY <3>2, <3>3, ProcessAnswered DEF ProcessAnswers, ListingComplete, NotFoundMeansGone
  <2>6. QED
    BY <1>3, <2>3, <2>4, <2>5 DEF Kill
<1>4. QED
  BY <1>1, <1>2, <1>3

LEMMA NiceStep == ProcInv /\ (NiceNames \/ NiceGets \/ NiceSets) => ProcInv'
<1> SUFFICES ASSUME ProcInv, NiceNames \/ NiceGets \/ NiceSets PROVE ProcInv'
  OBVIOUS
<1>1. CASE NiceNames
  <2>1. CASE arg.pid <= 0 /\ ProcessTell("invalid-PID")
    BY <2>1, PlainAnswer DEF ProcessTell, tableVars
  <2>2. CASE arg.pid > 0 /\ pc' = "nice.get" /\ UNCHANGED <<told, tableVars, arg, query, lived>>
    BY <1>1, <2>2, ProcessMoves, PositivePid DEF NiceNames, tableVars
  <2>3. QED
    BY <1>1, <2>1, <2>2 DEF NiceNames
<1>2. CASE NiceGets
  <2>1. /\ pc = "nice.get" /\ arg.pid \in Number /\ current' = GetPriority
        /\ UNCHANGED <<table, arg, query, lived>>
    BY <1>2 DEF NiceGets, ProcInv, LivedInv, tableVars
  <2>2. CASE current'.value = -1 /\ current'.errno /\ pc' = "prompt" /\ told' = "not-found"
    <3>1. Holder = None
      BY <2>1, <2>2 DEF GetPriority
    <3>2. QED
      BY <2>1, <2>2, <3>1, NotFoundAnswer
  <2>3. CASE pc' = "nice.set" /\ UNCHANGED told
    BY <2>1, <2>3, ProcessMoves
  <2>4. QED
    BY <1>2, <2>2, <2>3 DEF NiceGets
<1>3. CASE NiceSets
  <2>1. CASE Holder = None /\ ProcessTell("not-found")
    BY <1>3, <2>1, NotFoundAnswer DEF NiceSets, ProcessTell, tableVars
  <2>2. CASE ProcessTell("denied")
    BY <2>2, PlainAnswer DEF ProcessTell, tableVars
  <2>3. CASE pc' = "prompt" /\ told' = "reniced" /\ UNCHANGED <<table, arg, query, lived>>
    BY <2>3, PlainAnswer
  <2>4. QED
    BY <1>3, <2>1, <2>2, <2>3 DEF NiceSets
<1>4. QED
  BY <1>1, <1>2, <1>3

\* The facts about a listing under way, with the rows' fields typed.
LEMMA Listing ==
  ASSUME ProcInv, pc \in {"list", "list.cmdline"}
  PROVE  /\ LivedInv /\ BatchInOrder /\ RowsInOrder /\ RowsBehind /\ Complete
         /\ query \subseteq Process /\ told = "nothing"
         /\ \A n \in Number : table[n] \in lived[n]
         /\ Number \subseteq Nat \ {0} /\ None \notin Process
         /\ Len(batch) \in Nat /\ Len(rows) \in Nat /\ DOMAIN rows = 1..Len(rows)
         /\ \A i \in 1..Len(rows) : rows[i].pid \in Number /\ rows[i].process \in Process
         /\ \A i \in 1..Len(batch) : batch[i] \in Number
<1>1. /\ LivedInv /\ BatchInOrder /\ RowsInOrder /\ RowsBehind /\ Complete
      /\ query \subseteq Process
  BY DEF ProcInv, ListInv
<1>2. told = "nothing" /\ \A n \in Number : table[n] \in lived[n]
  BY <1>1 DEF LivedInv
<1>3. Len(batch) \in Nat /\ Len(rows) \in Nat /\ DOMAIN rows = 1..Len(rows)
  BY <1>1, LenProperties DEF BatchInOrder, RowsInOrder
<1>4. \A i \in 1..Len(rows) : rows[i] \in Row
  BY <1>1, ElementOfSeq DEF RowsInOrder
<1>5. \A i \in 1..Len(batch) : batch[i] \in Number
  BY <1>1, ElementOfSeq DEF BatchInOrder
<1>6. QED
  BY <1>1, <1>2, <1>3, <1>4, <1>5, ProcessAssumption DEF Row

LEMMA EndOfDirectoryStep == ProcInv /\ pc = "list" /\ batch = <<>> /\ EndOfDirectory => ProcInv'
<1> SUFFICES ASSUME ProcInv, pc = "list", batch = <<>>, EndOfDirectory PROVE ProcInv'
  OBVIOUS
<1>1. /\ pc' = "prompt" /\ told' \in {"rows", "no-match"}
      /\ rows' = rows /\ lived' = lived /\ query' = query /\ arg' = arg /\ table' = table
  BY DEF EndOfDirectory, ProcessTell, tableVars, listVars
<1>2. \A n \in Number : n > cursor => table[n] = None
  BY DEF EndOfDirectory
<1>3. ASSUME NEW n \in Number, NEW p \in query, lived[n] = {p}
      PROVE  \E i \in DOMAIN rows : rows[i] = [pid |-> n, process |-> p]
  <2>1. n <= cursor
    <3>1. table[n] = p /\ p # None
      BY <1>3, Listing
    <3>2. n \in Nat /\ cursor \in Nat
      BY Listing DEF BatchInOrder
    <3>3. QED
      BY <1>2, <3>1, <3>2
  <2>2. Len(batch) = 0
    OBVIOUS
  <2>3. \E i \in 1..Len(rows) : rows[i] = [pid |-> n, process |-> p]
    BY <1>3, <2>1, <2>2, Listing DEF Complete
  <2>4. QED
    BY <2>3, Listing
<1>4. /\ \A i, j \in DOMAIN rows : i < j => rows[i].pid < rows[j].pid
      /\ \A i \in DOMAIN rows : rows[i].process \in lived[rows[i].pid] \ {None}
  BY Listing DEF RowsInOrder
<1>5. ListingComplete'
  BY <1>1, <1>3, <1>4 DEF ListingComplete
<1>6. ProcessAnswers'
  BY <1>1, <1>5 DEF ProcessAnswers, SignalReachesNamed, NotFoundMeansGone
<1>7. QED
  BY <1>1, <1>6, ProcessAnswered

\* A step of the listing that leaves the others and what is known of them.
LEMMA ListGoesOn ==
  ASSUME ProcInv, pc \in {"list", "list.cmdline"}, pc' \in {"list", "list.cmdline"},
         UNCHANGED <<told, table, arg, query, lived>>,
         BatchInOrder', RowsInOrder', RowsBehind', Complete',
         pc' = "list.cmdline" => batch' # <<>> /\ stat' \in lived[Head(batch')] \ {None}
  PROVE  ProcInv'
<1>1. told' = "nothing" /\ LivedInv' /\ query' \subseteq Process
  BY Listing DEF LivedInv
<1>2. ListInv'
  BY <1>1 DEF ListInv
<1>3. ProcessAnswers'
  BY <1>1 DEF ProcessAnswers, ListingComplete, SignalReachesNamed, NotFoundMeansGone
<1>4. QED
  BY <1>1, <1>2, <1>3 DEF ProcInv

LEMMA ReadDirectoryStep ==
  ASSUME ProcInv, pc = "list", batch = <<>>, NEW k \in Nat \ {0}, ReadDirectory(k)
  PROVE  ProcInv'
<1> DEFINE there == {n \in Number : n > cursor /\ table[n] # None}
<1>1. /\ batch' \in [1..k -> there]
      /\ \A i, j \in 1..k : i < j => batch'[i] < batch'[j]
      /\ \A n \in there : n <= batch'[k] => \E i \in 1..k : batch'[i] = n
      /\ cursor' = batch'[k]
      /\ pc' = pc /\ rows' = rows /\ lived' = lived /\ query' = query
      /\ UNCHANGED <<told, table, arg, query, lived>>
  BY DEF ReadDirectory, tableVars
<1>2. batch' \in Seq(there) /\ batch' \in Seq(Number) /\ Len(batch') = k
  BY <1>1
<1>3. \A i \in 1..k : batch'[i] \in Number /\ batch'[i] > cursor /\ batch'[i] \in Nat
  BY <1>1, Listing
<1>4. cursor \in Nat /\ cursor' \in Nat /\ cursor < cursor'
  BY <1>1, <1>3, Listing DEF BatchInOrder
<1>5. BatchInOrder'
  <2>1. \A i \in 1..k : batch'[i] <= batch'[k]
    BY <1>1, <1>3
  <2>2. QED
    BY <1>1, <1>2, <1>4, <2>1 DEF BatchInOrder
<1>6. RowsInOrder'
  BY <1>1, Listing DEF RowsInOrder
<1>7. RowsBehind'
  <2>1. \A i \in 1..Len(rows) : rows[i].pid <= cursor /\ rows[i].pid \in Nat
    BY Listing DEF RowsBehind
  <2>2. QED
    BY <1>1, <1>2, <1>3, <1>4, <2>1 DEF RowsBehind
<1>8. Complete'
  <2>1. ASSUME NEW n \in Number, NEW p \in query, lived[n] = {p}, n <= cursor'
        PROVE  \/ \E i \in 1..k : batch'[i] = n
               \/ \E i \in 1..Len(rows) : rows[i] = [pid |-> n, process |-> p]
    <3>1. n \in Nat /\ table[n] = p /\ p # None
      BY <2>1, Listing
    <3>2. CASE n <= cursor
      <4>1. Len(batch) = 0
        OBVIOUS
      <4>2. QED
        BY <2>1, <3>2, <4>1, Listing DEF Complete
    <3>3. CASE n > cursor
      BY <1>1, <2>1, <3>1, <3>3
    <3>4. QED
      BY <1>4, <3>1, <3>2, <3>3
  <2>2. QED
    BY <1>1, <1>2, <2>1 DEF Complete
<1>9. QED
  BY <1>1, <1>5, <1>6, <1>7, <1>8, ListGoesOn

\* The first number of the buffer, and the others.
LEMMA FirstOfBatch ==
  ASSUME ProcInv, pc \in {"list", "list.cmdline"}, batch # <<>>
  PROVE  /\ Head(batch) = batch[1] /\ Head(batch) \in Number /\ Len(batch) >= 1
         /\ Tail(batch) \in Seq(Number) /\ Len(Tail(batch)) = Len(batch) - 1
         /\ \A i \in 1..Len(Tail(batch)) : Tail(batch)[i] = batch[i + 1]
         /\ \A n : (\E i \in 1..Len(batch) : batch[i] = n) =>
                 n = Head(batch) \/ \E i \in 1..Len(Tail(batch)) : Tail(batch)[i] = n
<1>1. batch \in Seq(Number) /\ Len(batch) \in Nat
  BY Listing DEF BatchInOrder
<1>2. Head(batch) = batch[1] /\ Len(batch) >= 1
  BY <1>1, EmptySeq
<1>3. /\ Head(batch) \in Number
      /\ Tail(batch) \in Seq(Number) /\ Len(Tail(batch)) = Len(batch) - 1
      /\ \A i \in 1..Len(Tail(batch)) : Tail(batch)[i] = batch[i + 1]
  BY <1>1, HeadTailProperties
<1>4. ASSUME NEW n, NEW i \in 1..Len(batch), batch[i] = n, n # Head(batch)
      PROVE  \E j \in 1..Len(Tail(batch)) : Tail(batch)[j] = n
  <2>1. i # 1 /\ i - 1 \in 1..Len(Tail(batch))
    BY <1>1, <1>2, <1>3, <1>4
  <2>2. Tail(batch)[i - 1] = n
    BY <1>1, <1>3, <1>4, <2>1
  <2>3. QED
    BY <2>1, <2>2
<1>5. QED
  BY <1>2, <1>3, <1>4

LEMMA TailInOrder ==
  ASSUME ProcInv, pc \in {"list", "list.cmdline"}, batch # <<>>, batch' = Tail(batch), cursor' = cursor
  PROVE  /\ BatchInOrder'
         /\ \A i \in 1..Len(batch') : Head(batch) < batch'[i]
<1>1. \A i \in 1..Len(batch') : batch'[i] = batch[i + 1] /\ i + 1 \in 1..Len(batch) /\ 1 < i + 1
  BY FirstOfBatch, Listing
<1>2. QED
  BY <1>1, FirstOfBatch, Listing DEF BatchInOrder

\* A first number that nobody has had all along may be left out.
LEMMA TailComplete ==
  ASSUME ProcInv, pc \in {"list", "list.cmdline"}, batch # <<>>, batch' = Tail(batch),
         rows' = rows, cursor' = cursor, lived' = lived, query' = query,
         \A n \in Number, p \in query : lived[n] = {p} => n # Head(batch)
  PROVE  Complete'
<1>1. ASSUME NEW n \in Number, NEW p \in query, lived[n] = {p}, n <= cursor
      PROVE  \/ \E i \in 1..Len(batch') : batch'[i] = n
             \/ \E i \in 1..Len(rows) : rows[i] = [pid |-> n, process |-> p]
  <2>1. n # Head(batch)
    BY <1>1
  <2>2. CASE \E i \in 1..Len(batch) : batch[i] = n
    BY <2>1, <2>2, FirstOfBatch
  <2>3. QED
    BY <1>1, <2>2, Listing DEF Complete
<1>2. QED
  BY <1>1 DEF Complete

LEMMA ListStatStep == ProcInv /\ pc = "list" /\ batch # <<>> /\ ListStat => ProcInv'
<1> SUFFICES ASSUME ProcInv, pc = "list", batch # <<>>, ListStat PROVE ProcInv'
  OBVIOUS
<1>1. CASE table[Head(batch)] = None
  <2>1. /\ batch' = Tail(batch) /\ pc' = pc /\ cursor' = cursor /\ rows' = rows
        /\ UNCHANGED <<told, table, arg, query, lived>>
    BY <1>1 DEF ListStat, tableVars
  <2>2. BatchInOrder'
    BY <2>1, TailInOrder
  <2>3. RowsInOrder'
    BY <2>1, Listing DEF RowsInOrder
  <2>4. RowsBehind'
    BY <2>1, FirstOfBatch, Listing DEF RowsBehind
  <2>5. Complete'
    <3>1. ASSUME NEW n \in Number, NEW p \in query, lived[n] = {p}
          PROVE  n # Head(batch)
      BY <1>1, <3>1, Listing
    <3>2. QED
      BY <2>1, <3>1, TailComplete
  <2>6. QED
    BY <2>1, <2>2, <2>3, <2>4, <2>5, ListGoesOn
<1>2. CASE table[Head(batch)] # None
  <2>1. /\ stat' = table[Head(batch)] /\ pc' = "list.cmdline"
        /\ batch' = batch /\ cursor' = cursor /\ rows' = rows
        /\ UNCHANGED <<told, table, arg, query, lived>>
    BY <1>2 DEF ListStat, ReadStat, tableVars, listVars
  <2>2. BatchInOrder' /\ RowsInOrder' /\ RowsBehind' /\ Complete'
    BY <2>1, Listing DEF BatchInOrder, RowsInOrder, RowsBehind, Complete
  <2>3. stat' \in lived[Head(batch')] \ {None}
    BY <1>2, <2>1, FirstOfBatch, Listing
  <2>4. QED
    BY <2>1, <2>2, <2>3, ListGoesOn
<1>3. QED
  BY <1>1, <1>2

LEMMA ListCmdlineStep == ProcInv /\ pc = "list.cmdline" /\ ListCmdline => ProcInv'
<1> SUFFICES ASSUME ProcInv, pc = "list.cmdline", ListCmdline PROVE ProcInv'
  OBVIOUS
<1> DEFINE h == Head(batch)
           row == [pid |-> h, process |-> stat]
<1>1. /\ batch' = Tail(batch) /\ pc' = "list" /\ cursor' = cursor
      /\ UNCHANGED <<told, table, arg, query, lived>>
      /\ rows' = IF {stat, table[h]} \cap query # {} THEN Append(rows, row) ELSE rows
  BY DEF ListCmdline, tableVars
<1>2. batch # <<>> /\ stat \in lived[h] \ {None}
  BY DEF ProcInv, ListInv
<1>3. h \in Number /\ stat \in Process /\ row \in Row
  BY <1>2, FirstOfBatch, Listing DEF LivedInv, Who, Row
<1>4. BatchInOrder' /\ \A i \in 1..Len(batch') : h < batch'[i]
  BY <1>1, <1>2, TailInOrder
<1>5. h <= cursor /\ \A i \in 1..Len(rows) : rows[i].pid < h
  <2>1. h = batch[1] /\ 1 \in 1..Len(batch)
    BY <1>2, FirstOfBatch, Listing
  <2>2. QED
    BY <2>1, Listing DEF BatchInOrder, RowsBehind
<1>6. \A i \in 1..Len(rows) : /\ rows[i].pid <= cursor
                             /\ \A j \in 1..Len(batch') : rows[i].pid < batch'[j]
  <2>1. \A j \in 1..Len(batch') : batch'[j] \in Nat
    BY <1>1, <1>2, FirstOfBatch, Listing
  <2>2. QED
    BY <1>3, <1>4, <1>5, <2>1, Listing DEF RowsBehind
<1>7. CASE {stat, table[h]} \cap query = {}
  <2>1. rows' = rows
    BY <1>1, <1>7
  <2>2. RowsInOrder' /\ RowsBehind'
    BY <1>1, <1>6, <2>1, Listing DEF RowsInOrder, RowsBehind
  <2>3. Complete'
    <3>1. ASSUME NEW n \in Number, NEW p \in query, lived[n] = {p}
          PROVE  n # h
      BY <1>2, <1>7, <3>1
    <3>2. QED
      BY <1>1, <1>2, <2>1, <3>1, TailComplete
  <2>4. QED
    BY <1>1, <1>4, <2>2, <2>3, ListGoesOn
<1>8. CASE {stat, table[h]} \cap query # {}
  <2>1. rows' = Append(rows, row)
    BY <1>1, <1>8
  <2>2. rows \in Seq(Row)
    BY Listing DEF RowsInOrder
  <2>3. /\ rows' \in Seq(Row) /\ Len(rows') = Len(rows) + 1
        /\ \A i \in 1..Len(rows) : rows'[i] = rows[i]
        /\ rows'[Len(rows) + 1] = row
    BY <1>3, <2>1, <2>2, AppendProperties
  <2>4. row.pid = h /\ row.process = stat
    OBVIOUS
  <2>5. RowsInOrder'
    <3>1. ASSUME NEW i \in 1..Len(rows'), NEW j \in 1..Len(rows'), i < j
          PROVE  rows'[i].pid < rows'[j].pid
      <4>1. i \in 1..Len(rows) /\ (j \in 1..Len(rows) \/ j = Len(rows) + 1)
        BY <2>3, <3>1, Listing
      <4>2. QED
        BY <1>5, <2>3, <2>4, <3>1, <4>1, Listing DEF RowsInOrder
    <3>2. ASSUME NEW i \in 1..Len(rows')
          PROVE  rows'[i].process \in lived'[rows'[i].pid]
      <4>1. i \in 1..Len(rows) \/ i = Len(rows) + 1
        BY <2>3, Listing
      <4>2. QED
        BY <1>1, <1>2, <2>3, <2>4, <4>1, Listing DEF RowsInOrder
    <3>3. QED
      BY <2>3, <3>1, <3>2 DEF RowsInOrder
  <2>6. RowsBehind'
    <3>1. ASSUME NEW i \in 1..Len(rows')
          PROVE  rows'[i].pid <= cursor /\ \A j \in 1..Len(batch') : rows'[i].pid < batch'[j]
      <4>1. i \in 1..Len(rows) \/ i = Len(rows) + 1
        BY <2>3, Listing
      <4>2. QED
        BY <1>4, <1>5, <1>6, <2>3, <2>4, <4>1
    <3>2. QED
      BY <1>1, <3>1 DEF RowsBehind
  <2>7. Complete'
    <3>1. ASSUME NEW n \in Number, NEW p \in query, lived[n] = {p}, n <= cursor
          PROVE  \/ \E i \in 1..Len(batch') : batch'[i] = n
                 \/ \E i \in 1..Len(rows') : rows'[i] = [pid |-> n, process |-> p]
      <4>1. CASE n = h
        <5>1. row = [pid |-> n, process |-> p]
          BY <1>2, <3>1, <4>1
        <5>2. Len(rows) + 1 \in 1..Len(rows')
          BY <2>3, Listing
        <5>3. QED
          BY <2>3, <5>1, <5>2
      <4>2. CASE \E i \in 1..Len(rows) : rows[i] = [pid |-> n, process |-> p]
        <5>1. \A i \in 1..Len(rows) : i \in 1..Len(rows') /\ rows'[i] = rows[i]
          BY <2>3, Listing
        <5>2. QED
          BY <4>2, <5>1
      <4>3. CASE n # h /\ \E i \in 1..Len(batch) : batch[i] = n
        BY <1>1, <1>2, <4>3, FirstOfBatch
      <4>4. QED
        BY <3>1, <4>1, <4>2, <4>3, Listing DEF Complete
    <3>2. QED
      BY <1>1, <3>1 DEF Complete
  <2>8. QED
    BY <1>1, <1>4, <2>5, <2>6, <2>7, ListGoesOn
<1>9. QED
  BY <1>7, <1>8

LEMMA ProcInvStep == ProcInv /\ [ProcessNext]_processVars => ProcInv'
<1> SUFFICES ASSUME ProcInv, [ProcessNext]_processVars PROVE ProcInv'
  OBVIOUS
<1>1. CASE ProcessStart
  <2>1. /\ Number \union {0} # {} /\ 0 \in Number \union {0} /\ 0 \in Int
        /\ Process \in SUBSET Process /\ Named \in SUBSET Process /\ NiceAsked \subseteq Int
    BY ProcessAssumption
  <2>2. CASE \E who \in {Process, Named} : ProcessBegin("list", 0, 0, who)
    BY <2>1, <2>2, ProcessBeginStep
  <2>3. ASSUME NEW pid \in Number \union {0},
               \/ ProcessBegin("search", pid, 0, Process)
               \/ ProcessBegin("signal", pid, 0, Process)
               \/ \E v \in NiceAsked : ProcessBegin("nice", pid, v, Process)
        PROVE  ProcInv'
    BY <2>1, <2>3, ProcessBeginStep
  <2>4. QED
    BY <1>1, <2>2, <2>3 DEF ProcessStart
<1>2. CASE ProcessList
  <2>1. CASE pc = "list" /\ batch = <<>> /\ EndOfDirectory
    BY <2>1, EndOfDirectoryStep
  <2>2. ASSUME pc = "list", batch = <<>>, NEW k \in 1..Cardinality(Number), ReadDirectory(k)
        PROVE  ProcInv'
    <3>1. Cardinality(Number) \in Nat
      BY ProcessAssumption, FS_CardinalityType
    <3>2. k \in Nat \ {0}
      BY <3>1
    <3>3. QED
      BY <2>2, <3>2, ReadDirectoryStep
  <2>3. QED
    BY <1>2, <2>1, <2>2, ListStatStep, ListCmdlineStep DEF ProcessList
<1>3. CASE UNCHANGED processVars
  <2>1. /\ pc' = pc /\ told' = told /\ table' = table /\ arg' = arg /\ query' = query /\ batch' = batch
        /\ cursor' = cursor /\ rows' = rows /\ stat' = stat /\ lived' = lived /\ hit' = hit
    BY <1>3 DEF processVars, tableVars, listVars
  <2>2. LivedInv'
    BY <2>1 DEF ProcInv, LivedInv
  <2>3. ListInv'
    BY <2>1 DEF ProcInv, ListInv, BatchInOrder, RowsInOrder, RowsBehind, Complete
  <2>4. ProcessAnswers'
    BY <2>1 DEF ProcInv, ProcessAnswers, ListingComplete, SignalReachesNamed, NotFoundMeansGone
  <2>5. QED
    BY <2>2, <2>3, <2>4 DEF ProcInv
<1>4. QED
  BY <1>1, <1>2, <1>3, SignalStep, NiceStep, OtherProcessesStep DEF ProcessNext, ProcessCommands

LEMMA ProcInvariant == ProcessSpec => []ProcInv
<1>1. QED
  BY ProcInvInit, ProcInvStep, PTL DEF ProcessSpec

\* For any finite set of process numbers and any processes, coming and going
\* between any two system calls, and whatever pieces of the directory readdir
\* gives at a time: a listing has one line for everybody who is looked for and
\* lives all through it, and nobody who does not (process_mgr_list).
THEOREM EveryListingComplete == ProcessSpec => []ListingComplete
<1>1. ProcInv => ListingComplete
  BY DEF ProcInv, ProcessAnswers
<1>2. QED
  BY <1>1, ProcInvariant, PTL

\* For any process numbers: a signal reaches only who has had the number since
\* the operation began, and the process that was named if it is still there
\* (process_mgr_send_signal).
THEOREM EverySignalReachesNamed == ProcessSpec => []SignalReachesNamed
<1>1. ProcInv => SignalReachesNamed
  BY DEF ProcInv, ProcessAnswers
<1>2. QED
  BY <1>1, ProcInvariant, PTL

\* For any process numbers and nice values: "not found" is said only of a
\* number that was free at some moment of the operation, although getpriority
\* returns -1 for a nice value of -1 as well (process_mgr_set_priority).
THEOREM EveryNotFoundIsGone == ProcessSpec => []NotFoundMeansGone
<1>1. ProcInv => NotFoundMeansGone
  BY DEF ProcInv, ProcessAnswers
<1>2. QED
  BY <1>1, ProcInvariant, PTL

-----------------------------------------------------------------------------
(* The kernel module manager.                                              *)

AllFacts == {"absent", "listed", "proc", "no-proc", "others-at-work", "twin", "refused",
             "modules-missed", "lsmod-missed", "info-unopened"}

\* What is the case now has been noted.
Recorded ==
  /\ module = "absent" => "absent" \in seen
  /\ module # "absent" => "listed" \in seen
  /\ proc => "proc" \in seen
  /\ ~proc => "no-proc" \in seen
  /\ owner = "other" /\ module \in {"coming", "going"} => "others-at-work" \in seen
  /\ twin => "twin" \in seen

\* sysmgr waits for its own insmod and rmmod, and a module that is loaded has
\* its file.
Loading ==
  /\ pc = "load.inserting" <=> owner = "sysmgr" /\ module = "coming"
  /\ pc = "unload.removing" <=> owner = "sysmgr" /\ module = "going"
  /\ module = "live" => proc
  /\ module = "absent" => ~proc

\* What sysmgr has learned on the way to each position.
Learned ==
  /\ pc = "load.verify" => /\ "listed" \in seen /\ "proc" \in seen
                           /\ proc \/ "others-at-work" \in seen
  /\ pc = "unload.verify" => /\ "absent" \in seen
                             /\ ~proc \/ "others-at-work" \in seen
  /\ pc = "unload.lsmod" => "absent" \in seen \/ "modules-missed" \in seen
  /\ pc = "info.offer" => "no-proc" \in seen \/ "info-unopened" \in seen
  /\ pc = "info.read" => "proc" \in seen /\ (proc \/ "others-at-work" \in seen)
  /\ pc = "status.lsmod" =>
       \/ "modules-missed" \in seen
       \/ "absent" \in seen /\ (module = "absent" \/ "others-at-work" \in seen)
  /\ pc = "status.not-loaded" =>
       \/ BothMissed(seen)
       \/ "absent" \in seen /\ (module = "absent" \/ "others-at-work" \in seen)
  /\ pc = "status.loaded" => /\ module = "live" \/ "others-at-work" \in seen \/ "twin" \in seen
                             /\ "listed" \in seen \/ "twin" \in seen

KernelInv ==
  /\ KernelTypeOK
  /\ Loading
  /\ pc # "prompt" => told = "nothing" /\ Recorded /\ Learned
  /\ OutcomeExplained

LEMMA KernelInvInit == KernelInit => KernelInv
<1> SUFFICES ASSUME KernelInit PROVE KernelInv
  OBVIOUS
<1>1. KernelTypeOK
  BY DEF KernelInit, KernelTypeOK, KernelPosition
<1>2. Loading
  BY DEF KernelInit, Loading
<1>3. OutcomeExplained
  BY DEF KernelInit, OutcomeExplained, Explains
<1>4. QED
  BY <1>1, <1>2, <1>3 DEF KernelInit, KernelInv

\* A moment that is noted is added to what was noted before.
LEMMA ObserveRecords ==
  ASSUME KernelTypeOK, module' \in {"absent", "coming", "live", "going"}, proc' \in BOOLEAN,
         twin' = twin, NEW new \in SUBSET AllFacts, Observe(new)
  PROVE  Recorded' /\ seen \subseteq seen' /\ new \subseteq seen' /\ seen' \subseteq AllFacts
<1> DEFINE facts == Facts(module', owner', proc')
<1>1. seen' = seen \union facts \union new
  BY DEF Observe
<1>2. /\ module' = "absent" => "absent" \in facts
      /\ module' # "absent" => "listed" \in facts
      /\ owner' = "other" /\ module' \in {"coming", "going"} => "others-at-work" \in facts
      /\ twin' => "twin" \in facts
  BY DEF Facts
<1>3. (proc' => "proc" \in facts) /\ (~proc' => "no-proc" \in facts)
  BY DEF Facts
<1>4. facts \subseteq AllFacts
  BY DEF Facts, AllFacts
<1>5. seen \subseteq AllFacts
  BY DEF KernelTypeOK, AllFacts
<1> HIDE DEF facts
<1>6. QED
  BY <1>1, <1>2, <1>3, <1>4, <1>5 DEF Recorded

Waits == {"load.inserting", "unload.removing"}

\* An operation ends with an answer that is explained.
LEMMA TellStep ==
  ASSUME KernelInv, pc \notin Waits \union {"prompt"}, NEW what, NEW new \in SUBSET AllFacts,
         KernelTell(what, new), Recorded' /\ seen \subseteq seen' /\ new \subseteq seen' => Explains(what, seen')
  PROVE  KernelInv'
<1>1. /\ pc' = "prompt" /\ told' = what /\ module' = module /\ owner' = owner /\ proc' = proc
      /\ twin' = twin /\ ko' = ko /\ Observe(new)
  BY DEF KernelTell, loaderVars
<1>2. KernelTypeOK /\ Loading
  BY DEF KernelInv
<1>3. module' \in {"absent", "coming", "live", "going"} /\ proc' \in BOOLEAN
  BY <1>1, <1>2 DEF KernelTypeOK
<1>4. Recorded' /\ seen \subseteq seen' /\ new \subseteq seen' /\ seen' \subseteq AllFacts
  BY <1>1, <1>2, <1>3, ObserveRecords
<1>5. KernelTypeOK'
  BY <1>1, <1>2, <1>4 DEF KernelTypeOK, KernelPosition, AllFacts
<1>6. Loading'
  BY <1>1, <1>2 DEF Loading, Waits
<1>7. OutcomeExplained'
  BY <1>1, <1>4 DEF OutcomeExplained
<1>8. QED
  BY <1>1, <1>5, <1>6, <1>7 DEF KernelInv

\* An operation goes on without a step of the loader.
LEMMA GoesStep ==
  ASSUME KernelInv, pc \notin Waits \union {"prompt"},
         NEW next \in KernelPosition \ (Waits \union {"prompt"}),
         NEW new \in SUBSET AllFacts, pc' = next, UNCHANGED <<told, loaderVars, twin>>,
         seen' = seen \union new, ko' \in BOOLEAN, Learned'
  PROVE  KernelInv'
<1>1. /\ module' = module /\ owner' = owner /\ proc' = proc /\ twin' = twin
      /\ told' = told /\ seen' = seen \union new
  BY DEF loaderVars
<1>2. KernelTypeOK /\ Loading /\ told = "nothing" /\ Recorded
  BY DEF KernelInv, Waits
<1>3. KernelTypeOK'
  BY <1>1, <1>2 DEF KernelTypeOK, AllFacts
<1>4. Loading' /\ Recorded'
  BY <1>1, <1>2 DEF Loading, Recorded, Waits
<1>5. OutcomeExplained'
  BY DEF OutcomeExplained, Waits
<1>6. QED
  BY <1>1, <1>2, <1>3, <1>4, <1>5 DEF KernelInv

\* The loader makes a step.
LEMMA LoaderStep ==
  ASSUME KernelInv, NEW m \in {"absent", "coming", "live", "going"},
         NEW who \in {"sysmgr", "other"}, NEW p \in BOOLEAN, Loader(m, who, p),
         pc' \in KernelPosition, pc = "prompt" <=> pc' = "prompt", Loading',
         pc # "prompt" /\ Recorded' /\ seen \subseteq seen' => Learned'
  PROVE  KernelInv'
<1>1. /\ module' = m /\ owner' = who /\ proc' = p /\ twin' = twin /\ ko' = ko /\ told' = told
  BY DEF Loader
<1>2. KernelTypeOK
  BY DEF KernelInv
<1>3. CASE pc = "prompt"
  <2>1. seen' = seen
    BY <1>3 DEF Loader
  <2>2. KernelTypeOK'
    BY <1>1, <1>2, <2>1 DEF KernelTypeOK
  <2>3. OutcomeExplained'
    BY <1>1, <1>3, <2>1 DEF KernelInv, OutcomeExplained
  <2>4. QED
    BY <1>3, <2>2, <2>3 DEF KernelInv
<1>4. CASE pc # "prompt"
  <2>1. Observe({})
    BY <1>4 DEF Loader
  <2>2. module' \in {"absent", "coming", "live", "going"} /\ proc' \in BOOLEAN /\ {} \in SUBSET AllFacts
    BY <1>1
  <2>3. Recorded' /\ seen \subseteq seen' /\ seen' \subseteq AllFacts
    BY <1>1, <1>2, <2>1, <2>2, ObserveRecords
  <2>4. KernelTypeOK'
    BY <1>1, <1>2, <2>3 DEF KernelTypeOK, AllFacts
  <2>5. OutcomeExplained' /\ told' = "nothing"
    BY <1>1, <1>4 DEF KernelInv, OutcomeExplained
  <2>6. QED
    BY <1>4, <2>3, <2>4, <2>5 DEF KernelInv
<1>5. QED
  BY <1>3, <1>4

\* The module's own steps, and those of others.
LEMMA WorkStep == KernelInv /\ (KernelWork \/ OtherLoads \/ OtherUnloads) => KernelInv'
<1> SUFFICES ASSUME KernelInv, KernelWork \/ OtherLoads \/ OtherUnloads PROVE KernelInv'
  OBVIOUS
<1>0. /\ KernelTypeOK /\ Loading /\ owner \in {"sysmgr", "other"} /\ pc \in KernelPosition
      /\ pc # "prompt" => Recorded /\ Learned
  BY DEF KernelInv, KernelTypeOK
<1>1. CASE InitCreatesProc
  <2>1. Loader("coming", owner, TRUE) /\ pc' = pc /\ module = "coming" /\ ~proc
    BY <1>1 DEF InitCreatesProc
  <2>2. module' = "coming" /\ owner' = owner /\ proc' = TRUE
    BY <2>1 DEF Loader
  <2>3. Loading'
    BY <1>0, <2>1, <2>2 DEF Loading
  <2>4. pc # "prompt" /\ Recorded' /\ seen \subseteq seen' => Learned'
    BY <1>0, <2>1, <2>2 DEF Loading, Learned, Recorded, NotFound, BothMissed
  <2>5. QED
    BY <1>0, <2>1, <2>3, <2>4, LoaderStep
<1>2. CASE InitDone
  <2>1. /\ Loader("live", owner, TRUE) /\ module = "coming" /\ proc
        /\ pc' = IF owner = "sysmgr" THEN "load.verify" ELSE pc
    BY <1>2 DEF InitDone, CommandEnds
  <2>2. module' = "live" /\ owner' = owner /\ proc' = TRUE
    BY <2>1 DEF Loader
  <2>3. owner = "sysmgr" <=> pc = "load.inserting"
    BY <1>0, <2>1 DEF Loading
  <2>4. Loading' /\ pc' \in KernelPosition /\ (pc = "prompt" <=> pc' = "prompt")
    BY <1>0, <2>1, <2>2, <2>3 DEF Loading, KernelPosition
  <2>5. pc # "prompt" /\ Recorded' /\ seen \subseteq seen' => Learned'
    BY <1>0, <2>1, <2>2, <2>3 DEF Learned, Recorded, NotFound, BothMissed
  <2>6. QED
    BY <1>0, <2>1, <2>4, <2>5, LoaderStep
<1>3. CASE InitFails
  <2>1. /\ Loader("absent", owner, FALSE) /\ module = "coming" /\ ~proc
        /\ pc' = IF owner = "sysmgr" THEN "load.failed" ELSE pc
    BY <1>3 DEF InitFails, CommandEnds
  <2>2. module' = "absent" /\ owner' = owner /\ proc' = FALSE
    BY <2>1 DEF Loader
  <2>3. owner = "sysmgr" <=> pc = "load.inserting"
    BY <1>0, <2>1 DEF Loading
  <2>4. Loading' /\ pc' \in KernelPosition /\ (pc = "prompt" <=> pc' = "prompt")
    BY <1>0, <2>1, <2>2, <2>3 DEF Loading, KernelPosition
  <2>5. pc # "prompt" /\ Recorded' /\ seen \subseteq seen' => Learned'
    BY <1>0, <2>1, <2>2, <2>3 DEF Learned, Recorded, NotFound, BothMissed
  <2>6. QED
    BY <1>0, <2>1, <2>4, <2>5, LoaderStep
<1>4. CASE ExitRemovesProc
  <2>1. Loader("going", owner, FALSE) /\ pc' = pc /\ module = "going" /\ proc
    BY <1>4 DEF ExitRemovesProc
  <2>2. module' = "going" /\ owner' = owner /\ proc' = FALSE
    BY <2>1 DEF Loader
  <2>3. Loading'
    BY <1>0, <2>1, <2>2 DEF Loading
  <2>4. pc # "prompt" /\ Recorded' /\ seen \subseteq seen' => Learned'
    BY <1>0, <2>1, <2>2 DEF Loading, Learned, Recorded, NotFound, BothMissed
  <2>5. QED
    BY <1>0, <2>1, <2>3, <2>4, LoaderStep
<1>5. CASE ExitDone
  <2>1. /\ Loader("absent", owner, FALSE) /\ module = "going" /\ ~proc
        /\ pc' = IF owner = "sysmgr" THEN "unload.verify" ELSE pc
    BY <1>5 DEF ExitDone, CommandEnds
  <2>2. module' = "absent" /\ owner' = owner /\ proc' = FALSE
    BY <2>1 DEF Loader
  <2>3. owner = "sysmgr" <=> pc = "unload.removing"
    BY <1>0, <2>1 DEF Loading
  <2>4. Loading' /\ pc' \in KernelPosition /\ (pc = "prompt" <=> pc' = "prompt")
    BY <1>0, <2>1, <2>2, <2>3 DEF Loading, KernelPosition
  <2>5. pc # "prompt" /\ Recorded' /\ seen \subseteq seen' => Learned'
    BY <1>0, <2>1, <2>2, <2>3 DEF Learned, Recorded, NotFound, BothMissed
  <2>6. QED
    BY <1>0, <2>1, <2>4, <2>5, LoaderStep
<1>6. CASE OtherLoads
  <2>1. Loader("coming", "other", proc) /\ pc' = pc /\ module = "absent"
    BY <1>6 DEF OtherLoads
  <2>2. module' = "coming" /\ owner' = "other" /\ proc' = proc /\ proc \in BOOLEAN
    BY <1>0, <2>1 DEF Loader, KernelTypeOK
  <2>3. Loading'
    BY <1>0, <2>1, <2>2 DEF Loading
  <2>4. pc # "prompt" /\ Recorded' /\ seen \subseteq seen' => Learned'
    BY <1>0, <2>1, <2>2 DEF Learned, Recorded, NotFound, BothMissed
  <2>5. QED
    BY <1>0, <2>1, <2>2, <2>3, <2>4, LoaderStep
<1>7. CASE OtherUnloads
  <2>1. Loader("going", "other", proc) /\ pc' = pc /\ module = "live"
    BY <1>7 DEF OtherUnloads
  <2>2. module' = "going" /\ owner' = "other" /\ proc' = proc /\ proc \in BOOLEAN
    BY <1>0, <2>1 DEF Loader, KernelTypeOK
  <2>3. Loading'
    BY <1>0, <2>1, <2>2 DEF Loading
  <2>4. pc # "prompt" /\ Recorded' /\ seen \subseteq seen' => Learned'
    BY <1>0, <2>1, <2>2 DEF Learned, Recorded, NotFound, BothMissed
  <2>5. QED
    BY <1>0, <2>1, <2>2, <2>3, <2>4, LoaderStep
<1>8. QED
  BY <1>1, <1>2, <1>3, <1>4, <1>5, <1>6, <1>7 DEF KernelWork

\* An operation begins by noting what is the case.
LEMMA BeginStep == ASSUME KernelInv, KernelStart PROVE KernelInv'
<1>1. PICK operation \in {"load", "unload", "info", "status", "log"} : KernelBegin(operation)
  BY DEF KernelStart
<1>2. /\ pc = "prompt" /\ pc' = operation /\ told' = "nothing" /\ module' = module
      /\ owner' = owner /\ proc' = proc /\ twin' = twin /\ ko' = ko /\ seen' = Facts(module, owner, proc)
  BY <1>1 DEF KernelBegin, loaderVars
<1>3. KernelTypeOK /\ Loading
  BY DEF KernelInv
<1>4. seen' \subseteq AllFacts
  BY <1>2 DEF Facts, AllFacts
<1>5. KernelTypeOK'
  BY <1>2, <1>3, <1>4 DEF KernelTypeOK, KernelPosition, AllFacts
<1>6. Loading'
  BY <1>2, <1>3 DEF Loading
<1>7. /\ module = "absent" => "absent" \in seen'
      /\ module # "absent" => "listed" \in seen'
      /\ owner = "other" /\ module \in {"coming", "going"} => "others-at-work" \in seen'
      /\ twin => "twin" \in seen'
  BY <1>2 DEF Facts
<1>8. (proc => "proc" \in seen') /\ (~proc => "no-proc" \in seen')
  BY <1>2 DEF Facts
<1>9. Recorded' /\ Learned' /\ OutcomeExplained'
  BY <1>2, <1>7, <1>8 DEF Recorded, Learned, OutcomeExplained
<1>10. QED
  BY <1>2, <1>5, <1>6, <1>9 DEF KernelInv

\* Each step of an operation of sysmgr.
LEMMA CommandStep == ASSUME KernelInv, KernelCommands PROVE KernelInv'
<1>0. /\ KernelTypeOK /\ Loading /\ owner \in {"sysmgr", "other"} /\ proc \in BOOLEAN
      /\ module \in {"absent", "coming", "live", "going"} /\ ko \in BOOLEAN
      /\ {} \in SUBSET AllFacts /\ {"refused"} \in SUBSET AllFacts
      /\ Missed("modules-missed") \in SUBSET AllFacts /\ Missed("lsmod-missed") \in SUBSET AllFacts
      /\ {f \in {"info-unopened"} : proc} \in SUBSET AllFacts
  BY DEF KernelInv, KernelTypeOK, AllFacts, Missed
<1>0a. pc # "prompt" => Recorded /\ Learned
  BY DEF KernelInv
<1>0b. pc \notin Waits /\ module \in {"coming", "going"} => owner = "other"
  BY <1>0 DEF Loading, Waits
<1>1. CASE LoadLooks
  <2>0. pc = "load" /\ pc \notin Waits \union {"prompt"}
    BY <1>1 DEF LoadLooks, Waits
  <2>1. CASE Listed /\ KernelTell("already-loaded", {})
    <3>1. Recorded' /\ seen \subseteq seen' /\ {} \subseteq seen' => Explains("already-loaded", seen')
      BY <1>0, <1>0a, <1>0b, <2>0, <2>1 DEF Recorded, KernelTell, loaderVars, Listed, Explains
    <3>2. QED
      BY <1>0, <2>0, <2>1, <3>1, TellStep
  <2>2. CASE KernelGoesTo("load.lsmod", Missed("modules-missed"))
    <3>1. Learned'
      BY <1>0, <1>0a, <1>0b, <2>0, <2>2 DEF Recorded, Learned, KernelGoesTo, loaderVars, Listed, Missed, NotFound, BothMissed
    <3>2. "load.lsmod" \in KernelPosition \ (Waits \union {"prompt"})
      BY DEF KernelPosition, Waits
    <3>3. QED
      BY <1>0, <2>0, <2>2, <3>1, <3>2, GoesStep DEF KernelGoesTo
  <2>3. QED
    BY <1>1, <2>1, <2>2 DEF LoadLooks
<1>2. CASE LoadAsksLsmod
  <2>0. pc = "load.lsmod" /\ pc \notin Waits \union {"prompt"}
    BY <1>2 DEF LoadAsksLsmod, Waits
  <2>1. CASE (Listed \/ twin) /\ KernelTell("already-loaded", {})
    <3>1. Recorded' /\ seen \subseteq seen' /\ {} \subseteq seen' => Explains("already-loaded", seen')
      BY <1>0, <1>0a, <1>0b, <2>0, <2>1 DEF Recorded, KernelTell, loaderVars, Listed, Explains
    <3>2. QED
      BY <1>0, <2>0, <2>1, <3>1, TellStep
  <2>2. CASE KernelGoesTo("load.insmod", Missed("lsmod-missed"))
    <3>1. Learned'
      BY <1>0, <1>0a, <1>0b, <2>0, <2>2 DEF Recorded, Learned, KernelGoesTo, loaderVars, Listed, Missed, NotFound, BothMissed
    <3>2. "load.insmod" \in KernelPosition \ (Waits \union {"prompt"})
      BY DEF KernelPosition, Waits
    <3>3. QED
      BY <1>0, <2>0, <2>2, <3>1, <3>2, GoesStep DEF KernelGoesTo
  <2>3. CASE KernelGoesTo("load.make", Missed("lsmod-missed"))
    <3>1. Learned'
      BY <1>0, <1>0a, <1>0b, <2>0, <2>3 DEF Recorded, Learned, KernelGoesTo, loaderVars, Listed, Missed, NotFound, BothMissed
    <3>2. "load.make" \in KernelPosition \ (Waits \union {"prompt"})
      BY DEF KernelPosition, Waits
    <3>3. QED
      BY <1>0, <2>0, <2>3, <3>1, <3>2, GoesStep DEF KernelGoesTo
  <2>4. QED
    BY <1>2, <2>1, <2>2, <2>3 DEF LoadAsksLsmod
<1>3. CASE Make
  <2>0. pc = "load.make" /\ pc \notin Waits \union {"prompt"}
    BY <1>3 DEF Make, Waits
  <2>1. CASE KernelTell("build-failure", {})
    <3>1. Explains("build-failure", seen')
      BY DEF Explains
    <3>2. QED
      BY <1>0, <2>0, <2>1, <3>1, TellStep
  <2>2. CASE ko' = TRUE /\ pc' = "load.insmod" /\ UNCHANGED <<told, loaderVars, twin, seen, logVars>>
    <3>1. Learned'
      BY <2>2 DEF Learned
    <3>2. "load.insmod" \in KernelPosition \ (Waits \union {"prompt"}) /\ ko' \in BOOLEAN
      BY <2>2 DEF KernelPosition, Waits
    <3>3. seen' = seen \union {}
      BY <2>2
    <3>4. QED
      BY <1>0, <2>0, <2>2, <3>1, <3>2, <3>3, GoesStep
  <2>3. QED
    BY <1>3, <2>1, <2>2 DEF Make
<1>4. CASE Insmod
  <2>0. pc = "load.insmod" /\ pc \notin Waits \union {"prompt"}
    BY <1>4 DEF Insmod, Waits
  <2>1. CASE KernelTell("insmod-failed", {"refused"})
    <3>1. Recorded' /\ seen \subseteq seen' /\ {"refused"} \subseteq seen' => Explains("insmod-failed", seen')
      BY <1>0, <1>0a, <1>0b, <2>0, <2>1 DEF Recorded, KernelTell, loaderVars, Explains
    <3>2. QED
      BY <1>0, <2>0, <2>1, <3>1, TellStep
  <2>2. CASE module \in {"live", "going"} /\ KernelTell("insmod-failed", {})
    <3>1. Recorded' /\ seen \subseteq seen' /\ {} \subseteq seen' => Explains("insmod-failed", seen')
      BY <1>0, <1>0a, <1>0b, <2>0, <2>2 DEF Recorded, KernelTell, loaderVars, Explains
    <3>2. QED
      BY <1>0, <2>0, <2>2, <3>1, TellStep
  <2>3. CASE module = "absent" /\ Loader("coming", "sysmgr", proc) /\ pc' = "load.inserting"
    <3>1. module' = "coming" /\ owner' = "sysmgr" /\ proc' = proc
      BY <2>3 DEF Loader
    <3>2. Loading' /\ Learned'
      BY <2>3, <3>1 DEF Loading, Learned
    <3>3. QED
      BY <1>0, <2>0, <2>3, <3>2, LoaderStep DEF KernelPosition
  <2>4. QED
    BY <1>4, <2>1, <2>2, <2>3 DEF Insmod
<1>5. CASE LoadFails
  <2>0. pc = "load.failed" /\ pc \notin Waits \union {"prompt"}
    BY <1>5 DEF LoadFails, Waits
  <2>1. CASE KernelTell("insmod-failed", {"refused"})
    <3>1. Recorded' /\ seen \subseteq seen' /\ {"refused"} \subseteq seen' => Explains("insmod-failed", seen')
      BY <1>0, <1>0a, <1>0b, <2>0, <2>1 DEF Recorded, Explains
    <3>2. QED
      BY <1>0, <2>0, <2>1, <3>1, TellStep
  <2>2. QED
    BY <1>5, <2>1 DEF LoadFails
<1>6. CASE LoadVerifies
  <2>0. pc = "load.verify" /\ pc \notin Waits \union {"prompt"}
    BY <1>6 DEF LoadVerifies, Waits
  <2>1. CASE proc /\ KernelTell("loaded", {})
    <3>1. Recorded' /\ seen \subseteq seen' /\ {} \subseteq seen' => Explains("loaded", seen')
      BY <1>0, <1>0a, <1>0b, <2>0, <2>1 DEF Learned, Recorded, KernelTell, loaderVars, Explains
    <3>2. QED
      BY <1>0, <2>0, <2>1, <3>1, TellStep
  <2>2. CASE ~proc /\ KernelTell("missing-after-loading", {})
    <3>1. Recorded' /\ seen \subseteq seen' /\ {} \subseteq seen' => Explains("missing-after-loading", seen')
      BY <1>0, <1>0a, <1>0b, <2>0, <2>2 DEF Learned, Recorded, KernelTell, loaderVars, Explains
    <3>2. QED
      BY <1>0, <2>0, <2>2, <3>1, TellStep
  <2>3. QED
    BY <1>6, <2>1, <2>2 DEF LoadVerifies
<1>7. CASE UnloadLooks
  <2>0. pc = "unload" /\ pc \notin Waits \union {"prompt"}
    BY <1>7 DEF UnloadLooks, Waits
  <2>1. CASE KernelGoesTo("unload.rmmod", {})
    <3>1. Learned'
      BY <1>0, <1>0a, <1>0b, <2>0, <2>1 DEF Recorded, Learned, KernelGoesTo, loaderVars, Listed, Missed, NotFound, BothMissed
    <3>2. "unload.rmmod" \in KernelPosition \ (Waits \union {"prompt"})
      BY DEF KernelPosition, Waits
    <3>3. QED
      BY <1>0, <2>0, <2>1, <3>1, <3>2, GoesStep DEF KernelGoesTo
  <2>2. CASE KernelGoesTo("unload.lsmod", Missed("modules-missed"))
    <3>1. Learned'
      BY <1>0, <1>0a, <1>0b, <2>0, <2>2 DEF Recorded, Learned, KernelGoesTo, loaderVars, Listed, Missed, NotFound, BothMissed
    <3>2. "unload.lsmod" \in KernelPosition \ (Waits \union {"prompt"})
      BY DEF KernelPosition, Waits
    <3>3. QED
      BY <1>0, <2>0, <2>2, <3>1, <3>2, GoesStep DEF KernelGoesTo
  <2>3. QED
    BY <1>7, <2>1, <2>2 DEF UnloadLooks, Listed
<1>8. CASE UnloadAsksLsmod
  <2>0. pc = "unload.lsmod" /\ pc \notin Waits \union {"prompt"}
    BY <1>8 DEF UnloadAsksLsmod, Waits
  <2>1. CASE KernelGoesTo("unload.rmmod", {})
    <3>1. Learned'
      BY <1>0, <1>0a, <1>0b, <2>0, <2>1 DEF Recorded, Learned, KernelGoesTo, loaderVars, Listed, Missed, NotFound, BothMissed
    <3>2. "unload.rmmod" \in KernelPosition \ (Waits \union {"prompt"})
      BY DEF KernelPosition, Waits
    <3>3. QED
      BY <1>0, <2>0, <2>1, <3>1, <3>2, GoesStep DEF KernelGoesTo
  <2>2. CASE KernelTell("not-loaded", Missed("lsmod-missed"))
    <3>1. Recorded' /\ seen \subseteq seen' /\ Missed("lsmod-missed") \subseteq seen'
            => Explains("not-loaded", seen')
      BY <1>0, <1>0a, <1>0b, <2>0, <2>2
      DEF Learned, Recorded, KernelTell, loaderVars, Listed, Missed, NotFound, BothMissed, Explains
    <3>2. QED
      BY <1>0, <2>0, <2>2, <3>1, TellStep
  <2>3. QED
    BY <1>8, <2>1, <2>2 DEF UnloadAsksLsmod
<1>9. CASE Rmmod
  <2>0. pc = "unload.rmmod" /\ pc \notin Waits \union {"prompt"}
    BY <1>9 DEF Rmmod, Waits
  <2>1. CASE KernelTell("rmmod-failed", {"refused"})
    <3>1. Recorded' /\ seen \subseteq seen' /\ {"refused"} \subseteq seen' => Explains("rmmod-failed", seen')
      BY <1>0, <1>0a, <1>0b, <2>0, <2>1 DEF Recorded, KernelTell, loaderVars, Explains
    <3>2. QED
      BY <1>0, <2>0, <2>1, <3>1, TellStep
  <2>2. CASE module # "live" /\ KernelTell("rmmod-failed", {})
    <3>1. Recorded' /\ seen \subseteq seen' /\ {} \subseteq seen' => Explains("rmmod-failed", seen')
      BY <1>0, <1>0a, <1>0b, <2>0, <2>2 DEF Recorded, KernelTell, loaderVars, Explains
    <3>2. QED
      BY <1>0, <2>0, <2>2, <3>1, TellStep
  <2>3. CASE module = "live" /\ Loader("going", "sysmgr", proc) /\ pc' = "unload.removing"
    <3>1. module' = "going" /\ owner' = "sysmgr" /\ proc' = proc
      BY <2>3 DEF Loader
    <3>2. Loading' /\ Learned'
      BY <2>3, <3>1 DEF Loading, Learned
    <3>3. QED
      BY <1>0, <2>0, <2>3, <3>2, LoaderStep DEF KernelPosition
  <2>4. QED
    BY <1>9, <2>1, <2>2, <2>3 DEF Rmmod
<1>10. CASE UnloadVerifies
  <2>0. pc = "unload.verify" /\ pc \notin Waits \union {"prompt"}
    BY <1>10 DEF UnloadVerifies, Waits
  <2>1. CASE proc /\ KernelTell("still-there-after-unloading", {})
    <3>1. Recorded' /\ seen \subseteq seen' /\ {} \subseteq seen' => Explains("still-there-after-unloading", seen')
      BY <1>0, <1>0a, <1>0b, <2>0, <2>1 DEF Learned, Recorded, KernelTell, loaderVars, Explains
    <3>2. QED
      BY <1>0, <2>0, <2>1, <3>1, TellStep
  <2>2. CASE ~proc /\ KernelTell("unloaded", {})
    <3>1. Recorded' /\ seen \subseteq seen' /\ {} \subseteq seen' => Explains("unloaded", seen')
      BY <1>0, <1>0a, <1>0b, <2>0, <2>2 DEF Learned, Recorded, KernelTell, loaderVars, Explains
    <3>2. QED
      BY <1>0, <2>0, <2>2, <3>1, TellStep
  <2>3. QED
    BY <1>10, <2>1, <2>2 DEF UnloadVerifies
<1>11. CASE InfoOpens
  <2>0. pc = "info" /\ pc \notin Waits \union {"prompt"}
    BY <1>11 DEF InfoOpens, Waits
  <2>1. CASE proc /\ KernelGoesTo("info.read", {})
    <3>1. Learned'
      BY <1>0, <1>0a, <1>0b, <2>0, <2>1 DEF Recorded, Learned, KernelGoesTo, loaderVars, Listed, Missed, NotFound, BothMissed
    <3>2. "info.read" \in KernelPosition \ (Waits \union {"prompt"})
      BY DEF KernelPosition, Waits
    <3>3. QED
      BY <1>0, <2>0, <2>1, <3>1, <3>2, GoesStep DEF KernelGoesTo
  <2>2. CASE KernelGoesTo("info.offer", {f \in {"info-unopened"} : proc})
    <3>1. Learned'
      BY <1>0, <1>0a, <1>0b, <2>0, <2>2 DEF Recorded, Learned, KernelGoesTo, loaderVars, Listed, Missed, NotFound, BothMissed
    <3>2. "info.offer" \in KernelPosition \ (Waits \union {"prompt"})
      BY DEF KernelPosition, Waits
    <3>3. QED
      BY <1>0, <2>0, <2>2, <3>1, <3>2, GoesStep DEF KernelGoesTo
  <2>3. QED
    BY <1>11, <2>1, <2>2 DEF InfoOpens
<1>12. CASE InfoOffers
  <2>0. pc = "info.offer" /\ pc \notin Waits \union {"prompt"}
    BY <1>12 DEF InfoOffers, Waits
  <2>1. CASE KernelGoesTo("load", {})
    <3>1. Learned'
      BY <1>0, <1>0a, <1>0b, <2>0, <2>1 DEF Recorded, Learned, KernelGoesTo, loaderVars, Listed, Missed, NotFound, BothMissed
    <3>2. "load" \in KernelPosition \ (Waits \union {"prompt"})
      BY DEF KernelPosition, Waits
    <3>3. QED
      BY <1>0, <2>0, <2>1, <3>1, <3>2, GoesStep DEF KernelGoesTo
  <2>2. CASE KernelTell("no-info", {})
    <3>1. Recorded' /\ seen \subseteq seen' /\ {} \subseteq seen' => Explains("no-info", seen')
      BY <1>0, <1>0a, <1>0b, <2>0, <2>2 DEF Learned, Explains
    <3>2. QED
      BY <1>0, <2>0, <2>2, <3>1, TellStep
  <2>3. QED
    BY <1>12, <2>1, <2>2 DEF InfoOffers
<1>13. CASE InfoReads
  <2>0. pc = "info.read" /\ pc \notin Waits \union {"prompt"}
    BY <1>13 DEF InfoReads, Waits
  <2>1. CASE proc /\ KernelTell("info", {})
    <3>1. Recorded' /\ seen \subseteq seen' /\ {} \subseteq seen' => Explains("info", seen')
      BY <1>0, <1>0a, <1>0b, <2>0, <2>1 DEF Learned, Recorded, KernelTell, loaderVars, Explains
    <3>2. QED
      BY <1>0, <2>0, <2>1, <3>1, TellStep
  <2>2. CASE ~proc /\ KernelTell("read-failure", {})
    <3>1. Recorded' /\ seen \subseteq seen' /\ {} \subseteq seen' => Explains("read-failure", seen')
      BY <1>0, <1>0a, <1>0b, <2>0, <2>2 DEF Learned, Recorded, KernelTell, loaderVars, Explains
    <3>2. QED
      BY <1>0, <2>0, <2>2, <3>1, TellStep
  <2>3. QED
    BY <1>13, <2>1, <2>2 DEF InfoReads
<1>14. CASE StatusLooks
  <2>0. pc = "status" /\ pc \notin Waits \union {"prompt"}
    BY <1>14 DEF StatusLooks, Waits
  <2>1. CASE Listed /\ KernelGoesTo("status.loaded", {})
    <3>1. Learned'
      BY <1>0, <1>0a, <1>0b, <2>0, <2>1 DEF Recorded, Learned, KernelGoesTo, loaderVars, Listed, Missed, NotFound, BothMissed
    <3>2. "status.loaded" \in KernelPosition \ (Waits \union {"prompt"})
      BY DEF KernelPosition, Waits
    <3>3. QED
      BY <1>0, <2>0, <2>1, <3>1, <3>2, GoesStep DEF KernelGoesTo
  <2>2. CASE KernelGoesTo("status.lsmod", Missed("modules-missed"))
    <3>1. Learned'
      BY <1>0, <1>0a, <1>0b, <2>0, <2>2 DEF Recorded, Learned, KernelGoesTo, loaderVars, Listed, Missed, NotFound, BothMissed
    <3>2. "status.lsmod" \in KernelPosition \ (Waits \union {"prompt"})
      BY DEF KernelPosition, Waits
    <3>3. QED
      BY <1>0, <2>0, <2>2, <3>1, <3>2, GoesStep DEF KernelGoesTo
  <2>3. QED
    BY <1>14, <2>1, <2>2 DEF StatusLooks
<1>15. CASE StatusAsksLsmod
  <2>0. pc = "status.lsmod" /\ pc \notin Waits \union {"prompt"}
    BY <1>15 DEF StatusAsksLsmod, Waits
  <2>1. CASE (Listed \/ twin) /\ KernelGoesTo("status.loaded", {})
    <3>1. Learned'
      BY <1>0, <1>0a, <1>0b, <2>0, <2>1 DEF Recorded, Learned, KernelGoesTo, loaderVars, Listed, Missed, NotFound, BothMissed
    <3>2. "status.loaded" \in KernelPosition \ (Waits \union {"prompt"})
      BY DEF KernelPosition, Waits
    <3>3. QED
      BY <1>0, <2>0, <2>1, <3>1, <3>2, GoesStep DEF KernelGoesTo
  <2>2. CASE KernelGoesTo("status.not-loaded", Missed("lsmod-missed"))
    <3>1. Learned'
      BY <1>0, <1>0a, <1>0b, <2>0, <2>2 DEF Recorded, Learned, KernelGoesTo, loaderVars, Listed, Missed, NotFound, BothMissed
    <3>2. "status.not-loaded" \in KernelPosition \ (Waits \union {"prompt"})
      BY DEF KernelPosition, Waits
    <3>3. QED
      BY <1>0, <2>0, <2>2, <3>1, <3>2, GoesStep DEF KernelGoesTo
  <2>3. QED
    BY <1>15, <2>1, <2>2 DEF StatusAsksLsmod
<1>16. CASE StatusLooksForProc
  <2>1. CASE pc = "status.loaded" /\ proc /\ KernelTell("loaded-available", {})
    <3>1. Recorded' /\ seen \subseteq seen' => Explains("loaded-available", seen')
      BY <1>0, <1>0a, <1>0b, <2>1 DEF Recorded, Learned, Loading, Explains, NotFound, BothMissed
    <3>2. QED
      BY <1>0, <2>1, <3>1, TellStep DEF Waits
  <2>2. CASE pc = "status.loaded" /\ ~proc /\ KernelTell("loaded-missing", {})
    <3>1. Recorded' /\ seen \subseteq seen' => Explains("loaded-missing", seen')
      BY <1>0, <1>0a, <1>0b, <2>2 DEF Recorded, Learned, Loading, Explains, NotFound, BothMissed
    <3>2. QED
      BY <1>0, <2>2, <3>1, TellStep DEF Waits
  <2>3. CASE pc = "status.not-loaded" /\ proc /\ KernelTell("not-loaded-available", {})
    <3>1. Recorded' /\ seen \subseteq seen' => Explains("not-loaded-available", seen')
      BY <1>0, <1>0a, <1>0b, <2>3 DEF Recorded, Learned, Loading, Explains, NotFound, BothMissed
    <3>2. QED
      BY <1>0, <2>3, <3>1, TellStep DEF Waits
  <2>4. CASE pc = "status.not-loaded" /\ ~proc /\ KernelTell("not-loaded-missing", {})
    <3>1. Recorded' /\ seen \subseteq seen' => Explains("not-loaded-missing", seen')
      BY <1>0, <1>0a, <1>0b, <2>4 DEF Recorded, Learned, Loading, Explains, NotFound, BothMissed
    <3>2. QED
      BY <1>0, <2>4, <3>1, TellStep DEF Waits
  <2>5. QED
    BY <1>16, <1>0, <2>1, <2>2, <2>3, <2>4 DEF StatusLooksForProc
<1>17. CASE ShowLog
  <2>0. pc \in {"log", "log.sudo"} /\ pc \notin Waits \union {"prompt"}
    BY <1>17 DEF ShowLog, Waits
  <2>1. ASSUME NEW log, NEW failed, Dmesg(log, failed) PROVE KernelInv'
    <3>1. UNCHANGED <<loaderVars, twin, ko, seen>>
      BY <2>1 DEF Dmesg
    <3>2. CASE pc' = "log.sudo" /\ told' = told
      <4>1. "log.sudo" \in KernelPosition \ (Waits \union {"prompt"}) /\ Learned'
        BY <3>2 DEF KernelPosition, Waits, Learned
      <4>2. seen' = seen \union {}
        BY <3>1
      <4>3. QED
        BY <1>0, <2>0, <3>1, <3>2, <4>1, <4>2, GoesStep
    <3>3. CASE pc' = "prompt" /\ told' \in {"log", "log-denied"}
      <4>1. module' = module /\ owner' = owner /\ proc' = proc /\ twin' = twin /\ ko' = ko /\ seen' = seen
        BY <3>1 DEF loaderVars
      <4>2. KernelTypeOK'
        BY <1>0, <3>3, <4>1 DEF KernelTypeOK, KernelPosition
      <4>3. Loading'
        BY <1>0, <2>0, <3>3, <4>1 DEF Loading, Waits
      <4>4. OutcomeExplained'
        BY <3>3 DEF OutcomeExplained, Explains
      <4>5. QED
        BY <3>3, <4>2, <4>3, <4>4 DEF KernelInv
    <3>4. QED
      BY <2>0, <2>1, <3>2, <3>3 DEF Dmesg
  <2>2. CASE KernelTell("log-denied", {})
    <3>1. Explains("log-denied", seen')
      BY DEF Explains
    <3>2. QED
      BY <1>0, <2>0, <2>2, <3>1, TellStep
  <2>3. QED
    BY <1>17, <2>1, <2>2 DEF ShowLog
<1>18. QED
  BY <1>1, <1>2, <1>3, <1>4, <1>5, <1>6, <1>7, <1>8, <1>9, <1>10, <1>11, <1>12, <1>13, <1>14, <1>15, <1>16, <1>17 DEF KernelCommands

LEMMA KernelInvStep == ASSUME KernelInv, [KernelNext]_kernelVars PROVE KernelInv'
<1>1. CASE UNCHANGED kernelVars
  <2>1. /\ pc' = pc /\ told' = told /\ module' = module /\ owner' = owner /\ proc' = proc
        /\ twin' = twin /\ ko' = ko /\ seen' = seen
    BY <1>1 DEF kernelVars
  <2>2. KernelTypeOK' /\ Loading' /\ OutcomeExplained'
    BY <2>1 DEF KernelInv, KernelTypeOK, Loading, OutcomeExplained
  <2>3. (pc # "prompt")' => (told = "nothing")' /\ Recorded' /\ Learned'
    BY <2>1 DEF KernelInv, Recorded, Learned
  <2>4. QED
    BY <2>2, <2>3 DEF KernelInv
<1>2. CASE KernelNext
  BY <1>2, BeginStep, CommandStep, WorkStep DEF KernelNext
<1>3. QED
  BY <1>1, <1>2

LEMMA KernelInvariant == KernelSpec => []KernelInv
<1>1. KernelInv /\ [KernelNext]_kernelVars => KernelInv'
  BY KernelInvStep
<1>2. QED
  BY KernelInvInit, <1>1, PTL DEF KernelSpec

\* The variables of the kernel module manager have their types.
THEOREM KernelTyped == KernelSpec => []KernelTypeOK
<1>1. KernelInv => KernelTypeOK
  BY DEF KernelInv
<1>2. QED
  BY KernelInvariant, <1>1, PTL

\* Whatever others load and unload meanwhile, each answer of the kernel module
\* manager was so at some moment of its operation (kernel_mgr.c).
THEOREM EveryOutcomeExplained == KernelSpec => []OutcomeExplained
<1>1. KernelInv => OutcomeExplained
  BY DEF KernelInv
<1>2. QED
  BY KernelInvariant, <1>1, PTL

-----------------------------------------------------------------------------
\* With what readdir has in its buffer as a sequence, the types are inductive.
ProcTypes == ProcessTypeOK /\ batch \in Seq(Number)

OneNumberEach == \A m, n \in Number : table[m] = table[n] /\ m # n => table[m] = None
AllBorn == {table[n] : n \in Number} \ {None} \subseteq born

LEMMA ProcTypesKept ==
  ASSUME LivedInv', OneNumberEach', AllBorn', (nice \in [Process -> Int])',
         (batch \in Seq(Number))', (stat \in Who)', (hit \subseteq Mine)'
  PROVE  ProcTypes'
<1>1. (\A i \in DOMAIN batch : batch[i] \in Number)'
  <2> DEFINE b == batch'
  <2>1. b \in Seq(Number)
    OBVIOUS
  <2> HIDE DEF b
  <2>2. \A i \in DOMAIN b : b[i] \in Number
    BY <2>1, LenProperties
  <2>3. QED
    BY <2>2 DEF b
<1>2. QED
  BY <1>1 DEF ProcTypes, ProcessTypeOK, LivedInv, Who, OneNumberEach, AllBorn

LEMMA ProcTypesInit == ProcessInit => ProcTypes
<1> SUFFICES ASSUME ProcessInit PROVE ProcTypes
  OBVIOUS
<1>1. batch \in Seq(Number) /\ DOMAIN batch = {}
  <2>1. <<>> \in Seq(Number) /\ Len(<<>>) = 0
    BY EmptySeq
  <2>2. DOMAIN <<>> = {}
    BY <2>1
  <2>3. QED
    BY <2>1, <2>2 DEF ProcessInit
<1>2. /\ table \in [Number -> {None} \union Process]
      /\ \A m, n \in Number : table[m] = table[n] /\ m # n => table[m] = None
      /\ {table[n] : n \in Number} \ {None} \subseteq born
  BY DEF ProcessInit
<1>3. /\ nice \in [Process -> Int] /\ stat \in {None} \union Process
      /\ lived \in [Number -> SUBSET ({None} \union Process)] /\ hit \subseteq Mine
  BY DEF ProcessInit
<1>4. QED
  BY <1>1, <1>2, <1>3 DEF ProcTypes, ProcessTypeOK

LEMMA ProcTypesStep == ProcInv /\ ProcInv' /\ ProcTypes /\ [ProcessNext]_processVars => ProcTypes'
<1> SUFFICES ASSUME ProcInv, ProcInv', ProcTypes, [ProcessNext]_processVars PROVE ProcTypes'
  OBVIOUS
<1>0. /\ LivedInv /\ LivedInv' /\ OneNumberEach /\ AllBorn /\ nice \in [Process -> Int]
      /\ batch \in Seq(Number) /\ stat \in Who /\ hit \subseteq Mine /\ table \in [Number -> Who]
  BY DEF ProcInv, ProcTypes, ProcessTypeOK, OneNumberEach, AllBorn, Who, LivedInv
<1>1. UNCHANGED tableVars => OneNumberEach' /\ AllBorn' /\ (nice \in [Process -> Int])'
  BY <1>0 DEF tableVars, OneNumberEach, AllBorn
<1>2. Holder \in Who
  BY <1>0 DEF Holder, Who
<1>3. ASSUME UNCHANGED <<tableVars, batch, hit>>, stat' \in Who PROVE ProcTypes'
  BY <1>0, <1>1, <1>3, ProcTypesKept
<1>4. ASSUME NEW what, ProcessTell(what), hit' \subseteq Mine PROVE ProcTypes'
  BY <1>0, <1>1, <1>4, ProcTypesKept DEF ProcessTell, listVars
<1>5. ASSUME NEW p \in Who, NEW next, ReadStat(p, next) PROVE ProcTypes'
  BY <1>0, <1>3, <1>5 DEF ReadStat, listVars
<1>6. CASE OtherProcesses
  <2>1. /\ UNCHANGED <<nice, batch, stat, hit>>
    BY <1>6 DEF OtherProcesses, Starts, Ends, listVars
  <2>2. OneNumberEach' /\ AllBorn'
    <3>1. PICK n \in Number : Ends(n) \/ \E p \in Process : Starts(n, p)
      BY <1>6 DEF OtherProcesses
    <3>2. CASE Ends(n)
      <4>1. table' = [table EXCEPT ![n] = None] /\ born' = born
        BY <3>2 DEF Ends, TableBecomes
      <4>2. \A m \in Number : table'[m] = IF m = n THEN None ELSE table[m]
        BY <1>0, <4>1
      <4>3. QED
        BY <1>0, <4>1, <4>2 DEF OneNumberEach, AllBorn
    <3>3. CASE \E p \in Process : Starts(n, p)
      <4>1. PICK p \in Process : Starts(n, p)
        BY <3>3
      <4>2. table' = [table EXCEPT ![n] = p] /\ born' = born \union {p} /\ p \notin born /\ p # None
        BY <4>1, ProcessAssumption DEF Starts, TableBecomes
      <4>3. \A m \in Number : table'[m] = IF m = n THEN p ELSE table[m]
        BY <1>0, <4>2
      <4>4. \A m \in Number : table[m] # p
        BY <1>0, <4>2 DEF AllBorn
      <4>5. OneNumberEach'
        BY <1>0, <4>3, <4>4 DEF OneNumberEach
      <4>6. AllBorn'
        BY <1>0, <4>2, <4>3 DEF AllBorn
      <4>7. QED
        BY <4>5, <4>6
    <3>4. QED
      BY <3>1, <3>2, <3>3
  <2>3. QED
    BY <1>0, <2>1, <2>2, ProcTypesKept
<1>7. CASE ProcessStart
  <2>1. UNCHANGED tableVars /\ batch' = <<>> /\ stat' = None /\ hit' = {}
    BY <1>7 DEF ProcessStart, ProcessBegin
  <2>2. (batch \in Seq(Number))' /\ (stat \in Who)' /\ (hit \subseteq Mine)'
    BY <2>1, EmptySeq DEF Who
  <2>3. QED
    BY <1>0, <1>1, <2>1, <2>2, ProcTypesKept
<1>8. CASE ProcessList
  <2>1. ASSUME EndOfDirectory PROVE ProcTypes'
    BY <1>0, <1>4, <2>1 DEF EndOfDirectory
  <2>2. ASSUME NEW k \in 1..Cardinality(Number), ReadDirectory(k) PROVE ProcTypes'
    <3>1. k \in Nat
      BY ProcessAssumption, FS_CardinalityType
    <3>2. batch' \in [1..k -> Number]
      BY <2>2 DEF ReadDirectory
    <3>3. (batch \in Seq(Number))' /\ UNCHANGED <<tableVars, stat, hit>>
      BY <2>2, <3>1, <3>2 DEF ReadDirectory
    <3>4. QED
      BY <1>0, <1>1, <3>3, ProcTypesKept
  <2>3. ASSUME batch # <<>> PROVE Head(batch) \in Number /\ Tail(batch) \in Seq(Number)
    BY <1>0, <2>3, HeadTailProperties
  <2>4. ASSUME batch # <<>>, ListStat PROVE ProcTypes'
    <3>1. CASE table[Head(batch)] = None
      <4>1. batch' = Tail(batch) /\ UNCHANGED <<tableVars, stat, hit>>
        BY <2>4, <3>1 DEF ListStat
      <4>2. (batch \in Seq(Number))'
        BY <2>3, <2>4, <4>1
      <4>3. QED
        BY <1>0, <1>1, <4>1, <4>2, ProcTypesKept
    <3>2. CASE table[Head(batch)] # None
      <4>1. ReadStat(table[Head(batch)], "list.cmdline") /\ table[Head(batch)] \in Who
        BY <1>0, <2>3, <2>4, <3>2 DEF ListStat
      <4>2. QED
        BY <1>5, <4>1
    <3>3. QED
      BY <3>1, <3>2
  <2>5. ASSUME pc = "list.cmdline", ListCmdline PROVE ProcTypes'
    <3>1. batch # <<>> /\ batch' = Tail(batch) /\ UNCHANGED <<tableVars, stat, hit>>
      BY <2>5 DEF ListCmdline, ProcInv, ListInv
    <3>2. (batch \in Seq(Number))'
      BY <2>3, <3>1
    <3>3. QED
      BY <1>0, <1>1, <3>1, <3>2, ProcTypesKept
  <2>6. QED
    BY <1>8, <2>1, <2>2, <2>4, <2>5 DEF ProcessList
<1>9. CASE ProcessSearch
  <2>1. UNCHANGED <<tableVars, batch, hit>> /\ stat' = Holder
    BY <1>9 DEF ProcessSearch, listVars
  <2>2. QED
    BY <1>2, <1>3, <2>1
<1>10. CASE SignalNames
  BY <1>0, <1>2, <1>4, <1>5, <1>10 DEF SignalNames
<1>11. CASE Kill
  <2>1. \E what : ProcessTell(what) /\ (hit' = hit \/ hit' = Reached(arg.pid) \cap Mine)
    BY <1>11 DEF Kill
  <2>2. QED
    BY <1>0, <1>4, <2>1
<1>12. CASE NiceNames
  <2>1. CASE ProcessTell("invalid-PID") /\ UNCHANGED hit
    BY <1>0, <1>4, <2>1
  <2>2. CASE stat' = Holder /\ UNCHANGED <<tableVars, listVars, hit>>
    BY <1>2, <1>3, <2>2 DEF listVars
  <2>3. QED
    BY <1>12, <2>1, <2>2 DEF NiceNames
<1>13. CASE NiceGets
  <2>1. UNCHANGED <<tableVars, batch, stat, hit>>
    BY <1>13 DEF NiceGets, listVars
  <2>2. QED
    BY <1>0, <1>3, <2>1
<1>14. CASE NiceSets
  <2>1. CASE \E what : ProcessTell(what) /\ hit' = hit
    BY <1>0, <1>4, <2>1
  <2>2. CASE /\ Holder \in Mine /\ nice' = [nice EXCEPT ![Holder] = Clamp(arg.value)]
             /\ hit' = {Holder} /\ UNCHANGED <<table, born, listVars, stat>>
    <3>1. Clamp(arg.value) \in Int
      BY <1>0, ProcessAssumption DEF LivedInv, Clamp
    <3>2. (nice \in [Process -> Int])' /\ (hit \subseteq Mine)'
      BY <1>0, <2>2, <3>1
    <3>3. OneNumberEach' /\ AllBorn' /\ (batch \in Seq(Number))' /\ (stat \in Who)'
      BY <1>0, <2>2 DEF listVars, OneNumberEach, AllBorn
    <3>4. QED
      BY <1>0, <3>2, <3>3, ProcTypesKept
  <2>3. QED
    BY <1>14, <2>1, <2>2 DEF NiceSets
<1>15. CASE UNCHANGED processVars
  BY <1>0, <1>3, <1>15 DEF processVars, listVars
<1>16. QED
  BY <1>6, <1>7, <1>8, <1>9, <1>10, <1>11, <1>12, <1>13, <1>14, <1>15, Zenon
     DEF ProcessNext, ProcessCommands

\* The process manager's variables have their types: no process has two numbers,
\* and none is reached by a signal that the user may not signal (process_mgr.c).
THEOREM ProcessTyped == ProcessSpec => []ProcessTypeOK
<1>1. ProcTypes => ProcessTypeOK
  BY DEF ProcTypes
<1>2. QED
  BY <1>1, ProcTypesInit, ProcTypesStep, ProcInvariant, PTL DEF ProcessSpec
===============================================================================
