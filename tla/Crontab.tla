-------------------------------- MODULE Crontab --------------------------------
(***************************************************************************)
(* The cron commands of modules/shell/shell_mgr.c.  The user's crontab is  *)
(* shared with whoever else edits it.  A task is added by a pipeline that  *)
(* reads the table, appends a line and installs the result; an edit by     *)
(* somebody else (crontab -e, another sysmgr) reads and installs as well.  *)
(*                                                                         *)
(* External: crontab(1), and the other editor.                             *)
(***************************************************************************)
EXTENDS Prompt

CONSTANTS Job,  \* lines of a crontab
          Bad,  \* those with an expression that crontab does not take
          NoJob \* the empty answer

ASSUME CrontabAssumption == Bad \subseteq Job /\ NoJob \notin Job

VARIABLES
  crontab, \* the jobs in it
  job,     \* the job to be added
  copy,    \* what crontab -l has printed into the pipeline
  edit,    \* what the other editor has read
  editing, \* an edit by somebody else is under way
  merged,  \* history: the crontab, had each change been made at once
  overlap  \* history: changes have overlapped, or crontab -l has failed

editVars == <<edit, editing, merged, overlap>>
cronVars == <<pc, told, crontab, job, copy, editVars>>

CronInit ==
  /\ pc = "prompt" /\ told = "nothing"
  /\ crontab \in SUBSET (Job \ Bad)
  /\ job = NoJob /\ copy = {}
  /\ edit = {} /\ editing = FALSE
  /\ merged = crontab /\ overlap = FALSE

CronBegin(operation, j) ==
  /\ pc = "prompt" /\ pc' = operation /\ told' = "nothing"
  /\ job' = j /\ copy' = {}
  /\ UNCHANGED <<crontab, editVars>>

CronTell(what) == pc' = "prompt" /\ told' = what /\ UNCHANGED <<job, copy>>

-----------------------------------------------------------------------------
\* crontab -l, shown to the user.
CronList == pc = "cron.list" /\ CronTell("list") /\ UNCHANGED <<crontab, editVars>>

\* crontab -r, and the same message whether it has removed any or not.
CronDelete ==
  /\ pc = "cron.delete"
  /\ CronTell("all-deleted")
  /\ \/ crontab' = {} /\ merged' = {} /\ overlap' = (overlap \/ editing)
     \/ UNCHANGED <<crontab, merged, overlap>>
  /\ UNCHANGED <<edit, editing>>

\* A path or an expression that is missing ends the command; chmod comes
\* before the pipeline, and its failure has no effect.
CheckJob ==
  /\ pc = "cron.create"
  /\ IF job = NoJob THEN CronTell("missing")
     ELSE pc' = "cron.read" /\ UNCHANGED <<told, job, copy>>
  /\ UNCHANGED <<crontab, editVars>>

\* crontab -l 2>/dev/null | { cat; ... }: when it fails, cat reads nothing.
ReadTable ==
  /\ pc = "cron.read" /\ pc' = "cron.install"
  /\ \/ copy' = crontab /\ overlap' = (overlap \/ editing)
     \/ copy' = {} /\ overlap' = TRUE
  /\ UNCHANGED <<told, crontab, job, edit, editing, merged>>

\* Mutant of Installed: the pipeline without its cat.
InstalledAlone == {job}

Installed == copy \union {job}

\* ... | crontab -: the exit code of the pipeline is that of its last command.
CronInstall ==
  /\ pc = "cron.install"
  /\ \/ CronTell("failed") /\ UNCHANGED <<crontab, editVars>>
     \/ /\ job \notin Bad
        /\ CronTell("scheduled")
        /\ crontab' = Installed /\ merged' = merged \union {job}
        /\ overlap' = (overlap \/ editing)
        /\ UNCHANGED <<edit, editing>>

-----------------------------------------------------------------------------
\* The other editor reads the table, and later installs it with a job more or
\* less, or without a change.
EditBegins ==
  /\ ~editing /\ editing' = TRUE
  /\ edit' = crontab
  /\ UNCHANGED <<pc, told, crontab, job, copy, merged, overlap>>

EditEnds(add, remove) ==
  /\ editing /\ editing' = FALSE
  /\ crontab' = (edit \union add) \ remove
  /\ merged' = (merged \union add) \ remove
  /\ overlap' = (overlap \/ pc = "cron.install")
  /\ edit' = {}
  /\ UNCHANGED <<pc, told, job, copy>>

CronEdit ==
  \/ EditBegins
  \/ EditEnds({}, {})
  \/ \E j \in Job \ Bad : EditEnds({j}, {}) \/ EditEnds({}, {j})

CronStart ==
  \/ CronBegin("cron.list", NoJob) \/ CronBegin("cron.delete", NoJob)
  \/ \E j \in Job \union {NoJob} : CronBegin("cron.create", j)

CronCommands == CronList \/ CronDelete \/ CheckJob \/ ReadTable \/ CronInstall

CronNext == CronStart \/ CronCommands \/ CronEdit

CronSpec == CronInit /\ [][CronNext]_cronVars

-----------------------------------------------------------------------------
\* The variables have their types, and no line that crontab refuses is in it.
CronTypeOK ==
  /\ pc \in {"prompt", "cron.list", "cron.delete", "cron.create", "cron.read", "cron.install"}
  /\ crontab \subseteq Job \ Bad /\ copy \subseteq Job \ Bad /\ edit \subseteq Job \ Bad
  /\ merged \subseteq Job \ Bad
  /\ job \in Job \union {NoJob}
  /\ editing \in BOOLEAN /\ overlap \in BOOLEAN

\* As long as no two changes have overlapped and crontab -l has not failed in
\* the pipeline, the crontab is what all the changes, one after the other, make
\* it: no task of anybody is lost, and none comes back (the pipeline of
\* shell_mgr_cron_execute).
OnlyClashesLoseJobs == overlap \/ crontab = merged
===============================================================================
