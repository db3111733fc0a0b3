----------------------------- MODULE SysmgrProofs -----------------------------
(***************************************************************************)
(* Theorems about the whole program: a session with one part of sysmgr is  *)
(* a behaviour of that part's own specification, so what is proved of the  *)
(* managers alone holds of them in sysmgr.                                 *)
(***************************************************************************)
EXTENDS Sysmgr, ManagerProofs, DataProofs

\* A session with the kernel module manager is a behaviour of KernelSpec.
THEOREM KernelRefined == Spec => (part = "kernel" => KernelSpec)
<1>1. Init => KernelInit
  BY DEF Init
<1>2. part = "kernel" /\ [Next]_vars => (part = "kernel")' /\ [KernelNext]_kernelVars
  BY DEF Next, Within, vars, kernelWorld, kernelVars, loaderVars, logVars
<1>3. QED
  BY <1>1, <1>2, PTL DEF Spec, KernelSpec

\* A session with the process manager is a behaviour of ProcessSpec.
THEOREM ProcessRefined == Spec => (part = "process" => ProcessSpec)
<1>1. Init => ProcessInit
  BY DEF Init
<1>2. part = "process" /\ [Next]_vars => (part = "process")' /\ [ProcessNext]_processVars
  BY DEF Next, Within, vars, processWorld, processVars, tableVars, listVars
<1>3. QED
  BY <1>1, <1>2, PTL DEF Spec, ProcessSpec

\* A session with the crontab is a behaviour of CronSpec.
THEOREM CronRefined == Spec => (part = "cron" => CronSpec)
<1>1. Init => CronInit
  BY DEF Init
<1>2. part = "cron" /\ [Next]_vars => (part = "cron")' /\ [CronNext]_cronVars
  BY DEF Next, Within, vars, cronWorld, cronVars, editVars
<1>3. QED
  BY <1>1, <1>2, PTL DEF Spec, CronSpec

\* A session with the clock is a behaviour of ClockSpec.
THEOREM ClockRefined == Spec => (part = "clock" => ClockSpec)
<1>1. Init => ClockInit
  BY DEF Init
<1>2. part = "clock" /\ [Next]_vars => (part = "clock")' /\ [ClockNext]_clockVars
  BY DEF Next, Within, vars, clockWorld, clockVars
<1>3. QED
  BY <1>1, <1>2, PTL DEF Spec, ClockSpec

\* A session with the environment is a behaviour of EnvSpec.
THEOREM EnvRefined == Spec => (part = "environment" => EnvSpec)
<1>1. Init => EnvInit
  BY DEF Init
<1>2. part = "environment" /\ [Next]_vars => (part = "environment")' /\ [EnvNext]_envVars
  BY DEF Next, Within, vars, envWorld, envVars
<1>3. QED
  BY <1>1, <1>2, PTL DEF Spec, EnvSpec

\* A session with the package manager is a behaviour of PackageSpec.
THEOREM PackageRefined == Spec => (part = "packages" => PackageSpec)
<1>1. Init => PackageInit
  BY DEF Init
<1>2. part = "packages" /\ [Next]_vars => (part = "packages")' /\ [PackageNext]_packageVars
  BY DEF Next, Within, vars, packageWorld, packageVars, dbVars
<1>3. QED
  BY <1>1, <1>2, PTL DEF Spec, PackageSpec

\* A session with the file manager is a behaviour of FilesSpec.
THEOREM FilesRefined == Spec => (part = "files" => FilesSpec)
<1>1. Init => FilesInit
  BY DEF Init
<1>2. part = "files" /\ [Next]_vars => (part = "files")' /\ [FilesNext]_filesVars
  BY DEF Next, Within, vars, filesWorld, filesVars
<1>3. QED
  BY <1>1, <1>2, PTL DEF Spec, FilesSpec

\* A session with the network manager is a behaviour of NetworkSpec.
THEOREM NetworkRefined == Spec => (part = "network" => NetworkSpec)
<1>1. Init => NetworkInit
  BY DEF Init
<1>2. part = "network" /\ [Next]_vars => (part = "network")' /\ [NetworkNext]_networkVars
  BY DEF Next, Within, vars, networkWorld, networkVars, listing
<1>3. QED
  BY <1>1, <1>2, PTL DEF Spec, NetworkSpec

\* A session with the menus is a behaviour of MenuSpec.
THEOREM MenuRefined == Spec => (part = "menus" => MenuSpec)
<1>1. Init => MenuInit
  BY DEF Init
<1>2. part = "menus" /\ [Next]_vars => (part = "menus")' /\ [MenuNext]_menuVars
  BY DEF Next, Within, vars, menuWorld, menuVars
<1>3. QED
  BY <1>1, <1>2, PTL DEF Spec, MenuSpec

\* A session with the command line is a behaviour of ReplSpec.
THEOREM ReplRefined == Spec => (part = "repl" => ReplSpec)
<1>1. Init => ReplInit
  BY DEF Init
<1>2. part = "repl" /\ [Next]_vars => (part = "repl")' /\ [ReplNext]_replVars
  BY DEF Next, Within, vars, replWorld, replVars
<1>3. QED
  BY <1>1, <1>2, PTL DEF Spec, ReplSpec

-----------------------------------------------------------------------------
LEMMA PartStays == [Next]_vars => UNCHANGED part
BY DEF Next, Within, vars

\* The variables of the part in session have their types.
THEOREM SysmgrTyping == Spec => []TypeOK
<1>1. Init => part \in Parts
  BY DEF Init
<1>2. part \in Parts /\ [Next]_vars => (part \in Parts)'
  BY PartStays
<1>3. Spec => [](part \in Parts)
  BY <1>1, <1>2, PTL DEF Spec
<1>4. Spec => [](part = "kernel" => KernelTypeOK)
  <2>1. ~(part = "kernel") /\ [Next]_vars => ~(part = "kernel")'
    BY PartStays
  <2>2. QED
    BY <2>1, KernelRefined, KernelTyped, PTL DEF Spec
<1>5. Spec => [](part = "process" => ProcessTypeOK)
  <2>1. ~(part = "process") /\ [Next]_vars => ~(part = "process")'
    BY PartStays
  <2>2. QED
    BY <2>1, ProcessRefined, ProcessTyped, PTL DEF Spec
<1>6. Spec => [](part = "cron" => CronTypeOK)
  <2>1. ~(part = "cron") /\ [Next]_vars => ~(part = "cron")'
    BY PartStays
  <2>2. QED
    BY <2>1, CronRefined, CronTyped, PTL DEF Spec
<1>7. Spec => [](part = "clock" => ClockTypeOK)
  <2>1. ~(part = "clock") /\ [Next]_vars => ~(part = "clock")'
    BY PartStays
  <2>2. QED
    BY <2>1, ClockRefined, ClockTyped, PTL DEF Spec
<1>8. Spec => [](part = "environment" => EnvTypeOK)
  <2>1. ~(part = "environment") /\ [Next]_vars => ~(part = "environment")'
    BY PartStays
  <2>2. QED
    BY <2>1, EnvRefined, EnvTyped, PTL DEF Spec
<1>9. Spec => [](part = "packages" => PackageTypeOK)
  <2>1. ~(part = "packages") /\ [Next]_vars => ~(part = "packages")'
    BY PartStays
  <2>2. QED
    BY <2>1, PackageRefined, PackagesTyped, PTL DEF Spec
<1>10. Spec => [](part = "files" => FilesTypeOK)
  <2>1. ~(part = "files") /\ [Next]_vars => ~(part = "files")'
    BY PartStays
  <2>2. QED
    BY <2>1, FilesRefined, FilesTyped, PTL DEF Spec
<1>11. Spec => [](part = "network" => NetworkTypeOK)
  <2>1. ~(part = "network") /\ [Next]_vars => ~(part = "network")'
    BY PartStays
  <2>2. QED
    BY <2>1, NetworkRefined, NetworkTyped, PTL DEF Spec
<1>12. Spec => [](part = "menus" => MenuTypeOK)
  <2>1. ~(part = "menus") /\ [Next]_vars => ~(part = "menus")'
    BY PartStays
  <2>2. QED
    BY <2>1, MenuRefined, MenusTyped, PTL DEF Spec
<1>13. Spec => [](part = "repl" => ReplTypeOK)
  <2>1. ~(part = "repl") /\ [Next]_vars => ~(part = "repl")'
    BY PartStays
  <2>2. QED
    BY <2>1, ReplRefined, ReplTyped, PTL DEF Spec
<1>14. /\ part \in Parts /\ (part = "kernel" => KernelTypeOK) /\ (part = "process" => ProcessTypeOK)
       /\ (part = "cron" => CronTypeOK) /\ (part = "clock" => ClockTypeOK)
       /\ (part = "environment" => EnvTypeOK) /\ (part = "packages" => PackageTypeOK)
       /\ (part = "files" => FilesTypeOK) /\ (part = "network" => NetworkTypeOK)
       /\ (part = "menus" => MenuTypeOK) /\ (part = "repl" => ReplTypeOK)
       => TypeOK
  BY Zenon DEF TypeOK
<1>15. QED
  BY <1>3, <1>4, <1>5, <1>6, <1>7, <1>8, <1>9, <1>10, <1>11, <1>12, <1>13, <1>14, PTL

\* What is proved of the managers alone holds in sysmgr.
THEOREM SysmgrAnswers ==
  Spec => [](/\ part = "kernel" => OutcomeExplained /\ LastLinesShown
             /\ part = "process" => ListingComplete /\ SignalReachesNamed /\ NotFoundMeansGone
             /\ part = "cron" => OnlyClashesLoseJobs
             /\ part = "clock" => ExitCodeTellsClock
             /\ part = "environment" => EnvironmentAsTyped
             /\ part = "packages" => DemoKeepsOthers /\ CriticalKept
             /\ part = "files" => SuccessMeansDone
             /\ part = "network" => InterfacesListedOnce /\ RoutesShown
             /\ part = "menus" => LabelsRun
             /\ part = "repl" => TokensAsQuoted)
<1>1. Spec => [](part = "kernel" => (OutcomeExplained /\ LastLinesShown))
  <2>1. ~(part = "kernel") /\ [Next]_vars => ~(part = "kernel")'
    BY PartStays
  <2>2. QED
    BY <2>1, KernelRefined, EveryOutcomeExplained, LastLinesAreShown, PTL DEF Spec
<1>2. Spec => [](part = "process" => (ListingComplete /\ SignalReachesNamed /\ NotFoundMeansGone))
  <2>1. ~(part = "process") /\ [Next]_vars => ~(part = "process")'
    BY PartStays
  <2>2. QED
    BY <2>1, ProcessRefined, EveryListingComplete, EverySignalReachesNamed, EveryNotFoundIsGone, PTL DEF Spec
<1>3. Spec => [](part = "cron" => OnlyClashesLoseJobs)
  <2>1. ~(part = "cron") /\ [Next]_vars => ~(part = "cron")'
    BY PartStays
  <2>2. QED
    BY <2>1, CronRefined, NoJobLostWithoutClash, PTL DEF Spec
<1>4. Spec => [](part = "clock" => ExitCodeTellsClock)
  <2>1. ~(part = "clock") /\ [Next]_vars => ~(part = "clock")'
    BY PartStays
  <2>2. QED
    BY <2>1, ClockRefined, ExitCodeRight, PTL DEF Spec
<1>5. Spec => [](part = "environment" => EnvironmentAsTyped)
  <2>1. ~(part = "environment") /\ [Next]_vars => ~(part = "environment")'
    BY PartStays
  <2>2. QED
    BY <2>1, EnvRefined, EnvironmentIsTyped, PTL DEF Spec
<1>6. Spec => [](part = "packages" => (DemoKeepsOthers /\ CriticalKept))
  <2>1. ~(part = "packages") /\ [Next]_vars => ~(part = "packages")'
    BY PartStays
  <2>2. QED
    BY <2>1, PackageRefined, DemoLeavesOthers, CriticalStaysInPlace, PTL DEF Spec
<1>7. Spec => [](part = "files" => SuccessMeansDone)
  <2>1. ~(part = "files") /\ [Next]_vars => ~(part = "files")'
    BY PartStays
  <2>2. QED
    BY <2>1, FilesRefined, SuccessIsDone, PTL DEF Spec
<1>8. Spec => [](part = "network" => (InterfacesListedOnce /\ RoutesShown))
  <2>1. ~(part = "network") /\ [Next]_vars => ~(part = "network")'
    BY PartStays
  <2>2. QED
    BY <2>1, NetworkRefined, EveryInterfaceListed, EveryRouteShown, PTL DEF Spec
<1>9. Spec => [](part = "menus" => LabelsRun)
  <2>1. ~(part = "menus") /\ [Next]_vars => ~(part = "menus")'
    BY PartStays
  <2>2. QED
    BY <2>1, MenuRefined, EveryLabelRuns, PTL DEF Spec
<1>10. Spec => [](part = "repl" => TokensAsQuoted)
  <2>1. ~(part = "repl") /\ [Next]_vars => ~(part = "repl")'
    BY PartStays
  <2>2. QED
    BY <2>1, ReplRefined, EveryTokenAsQuoted, PTL DEF Spec
<1>11. QED
  BY <1>1, <1>2, <1>3, <1>4, <1>5, <1>6, <1>7, <1>8, <1>9, <1>10, PTL

\* A part that the session is not with stays as it has begun.
Untouched == (part # "menus" => ran = Nobody) /\ (part # "repl" => offered = FALSE)

LEMMA OthersUntouched == Spec => []Untouched
<1>1. Init => Untouched
  BY DEF Init, MenuInit, ReplInit, Untouched
<1>2. Untouched /\ [Next]_vars => Untouched'
  BY DEF Untouched, Next, Within, vars, menuWorld, replWorld
<1>3. QED
  BY <1>1, <1>2, PTL DEF Spec

\* In every menu and at every prompt: what is shown runs when it is chosen, and
\* what is offered is known when it is sent (ui_select_menu, *_mgr_run,
\* completion_callback, route_and_dispatch).
THEOREM EveryOfferRuns == Spec => []OfferedIsRun
<1>1. Spec => [](part = "menus" => LabelsRun)
  BY SysmgrAnswers, PTL
<1>2. Spec => [](part = "repl" => CompletionsKnown)
  <2>1. ~(part = "repl") /\ [Next]_vars => ~(part = "repl")'
    BY PartStays
  <2>2. QED
    BY <2>1, ReplRefined, EveryOfferKnown, PTL DEF Spec
<1>3. Untouched /\ (part = "menus" => LabelsRun) /\ (part = "repl" => CompletionsKnown) => OfferedIsRun
  BY DEF Untouched, LabelsRun, CompletionsKnown, OfferedIsRun
<1>4. QED
  BY <1>1, <1>2, <1>3, OthersUntouched, PTL
===============================================================================
