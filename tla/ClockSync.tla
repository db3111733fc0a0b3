------------------------------- MODULE ClockSync -------------------------------
(***************************************************************************)
(* The time commands of modules/shell/shell_mgr.c, with the script behind  *)
(* "time sync" (shell/autosync.sh).  The script sets the clock from the    *)
(* first server that answers with a date, and then tries one NTP program   *)
(* after the other until one of them says that it has succeeded.           *)
(*                                                                         *)
(* External: the servers, date, sudo, chronyc, ntpdate, timedatectl.       *)
(***************************************************************************)
EXTENDS Naturals, Prompt

CONSTANT Servers \* how many servers are asked

ASSUME ClockAssumption == Servers \in Nat \ {0}

Tool == {"chrony", "ntpdate", "timedatectl"}

VARIABLES
  tools,  \* the NTP programs that are installed
  clock,  \* untouched, set by hand, exact, near the time, or wrong: in 2026 or
          \* later, or older
  ntp,    \* the system's NTP service
  asked,  \* how many servers have been asked
  date,   \* HTTP_DATE: none, near the time, or wrong in the same two ways
  setby,  \* history: who has set the clock in this command
  trusted \* history: whose word the script has ended with

clockVars == <<pc, told, tools, clock, ntp, asked, date, setby, trusted>>

Dates == {"near", "late", "old"}

ClockInit ==
  /\ pc = "prompt" /\ told = "nothing"
  /\ tools \in SUBSET Tool
  /\ clock = "untouched"
  /\ ntp \in {"on", "off"}
  /\ asked = 0 /\ date = "none"
  /\ setby = "nobody" /\ trusted = "nobody"

ClockBegin(operation) ==
  /\ pc = "prompt" /\ pc' = operation /\ told' = "nothing"
  /\ clock' = "untouched"
  /\ asked' = 0 /\ date' = "none" /\ setby' = "nobody" /\ trusted' = "nobody"
  /\ UNCHANGED <<tools, ntp>>

\* The command, or the script with an exit code, ends with somebody's word.
ClockEnds(what, word) ==
  /\ pc' = "prompt" /\ told' = what /\ trusted' = word
  /\ UNCHANGED <<tools, asked, date>>

ClockTell(what) == ClockEnds(what, "nobody")

ClockGoesTo(next) == pc' = next /\ UNCHANGED <<told, tools, trusted>>

-----------------------------------------------------------------------------
\* time show and time zone.
ShowTime == pc = "time.show" /\ ClockTell("time") /\ UNCHANGED <<clock, ntp, setby>>

\* time set: sudo date -s, when the user has given a date.
SetTime ==
  /\ pc = "time.set"
  /\ UNCHANGED ntp
  /\ \/ \E answer \in {"nothing", "not-set"} : ClockTell(answer) /\ UNCHANGED <<clock, setby>>
     \/ ClockTell("set") /\ clock' = "by-hand" /\ setby' = "user"

-----------------------------------------------------------------------------
\* curl -I, and date -d on what comes back.
AskServer ==
  /\ pc = "sync" /\ asked < Servers
  /\ asked' = asked + 1
  /\ \/ date' = date /\ ClockGoesTo("sync")
     \/ date' \in Dates /\ ClockGoesTo("sync.set")
  /\ UNCHANGED <<clock, ntp, setby>>

NoDate ==
  /\ pc = "sync" /\ asked = Servers
  /\ ClockTell("exit-1") /\ UNCHANGED <<clock, ntp, setby>>

SetHttpDate ==
  /\ pc = "sync.set"
  /\ UNCHANGED ntp
  /\ \/ ClockTell("exit-1") /\ UNCHANGED <<clock, setby>>
     \/ /\ clock' = date /\ setby' = "http"
        /\ ClockGoesTo("sync.chrony") /\ UNCHANGED <<asked, date>>

\* A program that is there has set the clock, or not; the script goes on with
\* the next one unless this one's success is taken for granted.
TryTool(tool, next, works, succeeds) ==
  /\ tool \in tools
  /\ clock' = IF works THEN "exact" ELSE clock
  /\ setby' = IF works THEN tool ELSE setby
  /\ IF succeeds THEN ClockEnds("exit-0", tool) ELSE ClockGoesTo(next) /\ UNCHANGED <<asked, date>>

WithoutTool(tool, next) == tool \notin tools /\ ClockGoesTo(next) /\ UNCHANGED <<clock, asked, date, setby>>

\* chronyc makestep, and a look for "Not synchronised" in chronyc tracking,
\* which prints nothing when no daemon answers.
Chrony ==
  /\ pc = "sync.chrony" /\ UNCHANGED ntp
  /\ \/ WithoutTool("chrony", "sync.ntpdate")
     \/ \E works, found \in BOOLEAN : TryTool("chrony", "sync.ntpdate", works, ~found)

Ntpdate ==
  /\ pc = "sync.ntpdate" /\ UNCHANGED ntp
  /\ \/ WithoutTool("ntpdate", "sync.timedatectl")
     \/ \E works \in BOOLEAN : TryTool("ntpdate", "sync.timedatectl", works, works)

\* timedatectl set-ntp false, which may fail ...
NtpOff ==
  /\ pc = "sync.timedatectl"
  /\ \/ WithoutTool("timedatectl", "sync.fallback") /\ UNCHANGED ntp
     \/ /\ "timedatectl" \in tools /\ ntp' \in {"off", ntp}
        /\ ClockGoesTo("sync.ntp-on") /\ UNCHANGED <<clock, asked, date, setby>>

\* ... set-ntp true, which may fail too, two seconds, and a look at the status,
\* which may be too early.
NtpOn ==
  /\ pc = "sync.ntp-on"
  /\ ntp' \in {"on", ntp}
  /\ \E works, found \in BOOLEAN :
       TryTool("timedatectl", "sync.fallback", works, works /\ found)

\* Mutant of Fallback: the exit code of the script is that of its last command.
FallbackSucceeds ==
  /\ pc = "sync.fallback"
  /\ ClockEnds("exit-0", "year")
  /\ UNCHANGED <<clock, ntp, setby>>

\* The year of the clock decides, which a wrong date may have as well.
Fallback ==
  /\ pc = "sync.fallback"
  /\ ClockEnds(IF clock = "old" THEN "exit-2" ELSE "exit-0", "year")
  /\ UNCHANGED <<clock, ntp, setby>>

ClockStart == \E operation \in {"time.show", "time.set", "sync"} : ClockBegin(operation)

ClockCommands ==
  \/ ShowTime \/ SetTime
  \/ AskServer \/ NoDate \/ SetHttpDate
  \/ Chrony \/ Ntpdate \/ NtpOff \/ NtpOn \/ Fallback

ClockNext == ClockStart \/ ClockCommands

ClockSpec == ClockInit /\ [][ClockNext]_clockVars

-----------------------------------------------------------------------------
\* The variables have their types.
ClockTypeOK ==
  /\ pc \in {"prompt", "time.show", "time.set", "sync", "sync.set", "sync.chrony",
             "sync.ntpdate", "sync.timedatectl", "sync.ntp-on", "sync.fallback"}
  /\ told \in {"nothing", "time", "set", "not-set", "exit-0", "exit-1", "exit-2"}
  /\ tools \subseteq Tool
  /\ clock \in {"untouched", "by-hand", "exact"} \union Dates
  /\ asked \in 0..Servers
  /\ date \in {"none"} \union Dates
  /\ setby \in {"nobody", "user", "http"} \union Tool
  /\ trusted \in {"nobody", "year"} \union Tool
  /\ ntp \in {"on", "off"}

\* The exit code agrees with the clock whatever step has failed: 1 only when
\* the script has left the clock alone, 2 only when a server's date is all it
\* has and that is too old, and 0 only when the clock is right - but for a wrong
\* date of a server that nobody has corrected, and that chronyc's silence or the
\* look at the year has let pass (shell/autosync.sh).
ExitCodeTellsClock ==
  pc = "prompt" =>
    /\ told = "exit-1" => setby = "nobody"
    /\ told = "exit-2" => setby = "http" /\ clock = "old"
    /\ told = "exit-0" =>
         \/ clock \in {"near", "exact"} /\ setby # "nobody"
         \/ /\ setby = "http" /\ clock = date
            /\ trusted # "chrony" => trusted = "year" /\ clock = "late"
===============================================================================
